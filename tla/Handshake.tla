----------------------------- MODULE Handshake -----------------------------
(***************************************************************************)
(* The handshakes of bzmux with its children: initChildren of the live      *)
(* proxy (cmd/bzmux/proxy.go), runCatalogCheck of --selftest and of         *)
(* --verify-mcp (selftest.go, verify.go), and verifyDirectChild.            *)
(*                                                                          *)
(* Threads: a goroutine per server (go), a read loop per child (reader),    *)
(* the collector.  The children answer, refuse, repeat themselves, exit or  *)
(* say nothing.                                                             *)
(***************************************************************************)
EXTENDS Integers, Sequences, FiniteSets, SequencesExt

Map == INSTANCE GoMap

CONSTANTS
  Order,   \* the servers, as mcp-mux.json lists them
  Export,  \* the lists of tool names a child may report
  Valid,   \* the names without "__" that fit behind "bzmux__"
  Known    \* knownServerTools: of each server, the names it is expected to have

Server == ToSet(Order)
Call == {"initialize", "tools/list"}

ASSUME HandshakeAssumption ==
  /\ Order \in Seq(Server) /\ IsInjective(Order) /\ Order # <<>>
  /\ \A x \in Export : x \in Seq(UNION {ToSet(y) : y \in Export})
  /\ DOMAIN Known = Server

VARIABLES
  mode,     \* live, selftest, verify (the multiplexer), direct (one command)
  go,       \* the goroutine of each server
  child,    \* its process: none, alive, exited
  reader,   \* its read loop: reading, draining, over
  dead,     \* the servers whose deadCh is closed
  late,     \* the servers whose context is done
  table,    \* inflightByID: one mux id per server and call
  box,      \* each call's replyCh
  work,     \* the calls each child has read
  tools,    \* c.tools
  arrived,  \* the results the collector has got, in their order
  verdict,  \* catalogReady, or what the check found: none, ready, failed
  catalog, routes,
  killed,   \* the children that were sent a Kill
  exited    \* the one-shot process is gone

childVars == <<child, reader, work>>
outVars   == <<verdict, catalog, routes, killed, exited>>
vars == <<mode, go, childVars, dead, late, table, box, tools, arrived, outVars>>

-----------------------------------------------------------------------------
\* The servers that are handshaken with: --verify-mcp --command has one.
Used == IF mode = "direct" THEN {Order[1]} ELSE Server

At(s, step, c) == go[s] = <<step, c>>
Goes(s, step, c) == go' = [go EXCEPT ![s] = <<step, c>>]

SlotsOf(s) == {s} \X Call

Started == {s \in Used : child[s] # "none"}

Reachable(s) == s \notin dead /\ child[s] = "alive"

Init ==
  /\ mode \in {"live", "selftest", "verify", "direct"}
  /\ go = [s \in Server |-> <<"spawn", "">>]
  /\ child = [s \in Server |-> "none"]
  /\ reader = [s \in Server |-> "over"]
  /\ dead = {}
  /\ late = {}
  /\ table = {}
  /\ box = [s \in Server |-> [c \in Call |-> {}]]
  /\ work = [s \in Server |-> {}]
  /\ tools = [s \in Server |-> <<>>]
  /\ arrived = <<>>
  /\ verdict = "none"
  /\ catalog = <<>>
  /\ routes = <<>>
  /\ killed = {}
  /\ exited = FALSE

-----------------------------------------------------------------------------
(* The goroutine of a server: spawn, then child.initialize, whose two calls  *)
(* are childCalls.                                                           *)

Arrives(s, ok) ==
  /\ Goes(s, "over", "")
  /\ arrived' = Append(arrived, [of |-> s, ok |-> ok])

\* markDead precedes the result.  verifyDirectChild just returns.
Fails(s) ==
  /\ Arrives(s, FALSE)
  /\ dead' = IF mode = "direct" THEN dead ELSE dead \cup {s}

Spawn(s) ==
  /\ s \in Used /\ At(s, "spawn", "")
  /\ \/ /\ child' = [child EXCEPT ![s] = "alive"]
        /\ reader' = [reader EXCEPT ![s] = "reading"]
        /\ Goes(s, "register", "initialize")
        /\ UNCHANGED arrived
     \/ /\ Arrives(s, FALSE)
        /\ UNCHANGED <<child, reader>>
  /\ UNCHANGED <<mode, work, dead, late, table, box, tools, outVars>>

Register(s, c) ==
  /\ At(s, "register", c)
  /\ table' = table \cup {<<s, c>>}
  /\ Goes(s, "send", c)
  /\ UNCHANGED <<mode, childVars, dead, late, box, tools, arrived, outVars>>

Send(s, c) ==
  /\ At(s, "send", c)
  /\ \/ /\ Reachable(s)
        /\ work' = [work EXCEPT ![s] = work[s] \cup {c}]
        /\ Goes(s, "wait", c)
        /\ UNCHANGED <<dead, table, arrived>>
     \/ /\ ~ Reachable(s)
        /\ table' = table \ {<<s, c>>}
        /\ Fails(s)
        /\ UNCHANGED work
  /\ UNCHANGED <<mode, child, reader, late, box, tools, outVars>>

\* Mutant: a call that its context or the child's death ends keeps its slot.
GiveUpSlot(s, c) ==
  /\ At(s, "wait", c)
  /\ s \in dead \cup late
  /\ Fails(s)
  /\ UNCHANGED <<mode, childVars, late, table, box, tools, outVars>>

\* Mutant: childCall waits for the reply and deadCh only.
GiveUpDead(s, c) ==
  /\ At(s, "wait", c)
  /\ s \in dead
  /\ table' = table \ {<<s, c>>}
  /\ Fails(s)
  /\ UNCHANGED <<mode, childVars, late, box, tools, outVars>>

\* deadCh or the context.
GiveUp(s, c) ==
  /\ At(s, "wait", c)
  /\ s \in dead \cup late
  /\ table' = table \ {<<s, c>>}
  /\ Fails(s)
  /\ UNCHANGED <<mode, childVars, late, box, tools, outVars>>

\* parseTools accepts the list: validateToolName of each name.
parseTools(list) == ToSet(list) \subseteq Valid

Reply(s, c) ==
  /\ At(s, "wait", c)
  /\ \E m \in box[s][c] :
       \/ /\ m.ok /\ c = "initialize"
          /\ Goes(s, "note", "")
          /\ UNCHANGED <<dead, tools, arrived>>
       \/ /\ m.ok /\ c = "tools/list" /\ parseTools(m.tools)
          /\ tools' = [tools EXCEPT ![s] = m.tools]
          /\ Arrives(s, TRUE)
          /\ UNCHANGED dead
       \/ /\ m.ok => c = "tools/list" /\ ~ parseTools(m.tools)
          /\ Fails(s)
          /\ UNCHANGED tools
  /\ UNCHANGED <<mode, childVars, late, table, box, outVars>>

\* notifications/initialized
Note(s) ==
  /\ At(s, "note", "")
  /\ \/ /\ Reachable(s)
        /\ Goes(s, "register", "tools/list")
        /\ UNCHANGED <<dead, arrived>>
     \/ /\ ~ Reachable(s)
        /\ Fails(s)
  /\ UNCHANGED <<mode, childVars, late, table, box, tools, outVars>>

\* The live proxy gives each handshake a context of its own, a check has one.
Timer(s) ==
  /\ s \in Used \ late /\ ~ At(s, "over", "")
  /\ late' = IF mode = "live" THEN late \cup {s} ELSE Used
  /\ mode = "live" => go[s][1] # "spawn"
  /\ UNCHANGED <<mode, go, childVars, dead, table, box, tools, arrived, outVars>>

-----------------------------------------------------------------------------
(* The child and its read loop. *)

Put(s, c, m) ==
  IF box[s][c] = {} THEN [box EXCEPT ![s][c] = {m}] ELSE box

\* An answer without a slot is dropped.  A result that does not parse, or an RPC
\* error, is not ok.
routeResponse(s, c, m) ==
  IF <<s, c>> \in table
    THEN table' = table \ {<<s, c>>} /\ box' = Put(s, c, m)
    ELSE UNCHANGED <<table, box>>

\* What a child may say to a call.
Answers(c) ==
  {[ok |-> FALSE, tools |-> <<>>]}
    \cup [ok : {TRUE}, tools : IF c = "initialize" THEN {<<>>} ELSE Export]

ChildAnswers(s, c) ==
  /\ child[s] = "alive" /\ reader[s] = "reading"
  /\ c \in work[s]
  /\ \E m \in Answers(c) : routeResponse(s, c, m)
  /\ UNCHANGED <<mode, go, childVars, dead, late, tools, arrived, outVars>>

\* Once its read loop is over, an exit makes no difference any more.
ChildExits(s) ==
  /\ child[s] = "alive" /\ reader[s] = "reading"
  /\ child' = [child EXCEPT ![s] = "exited"]
  /\ UNCHANGED <<mode, go, reader, work, dead, late, table, box, tools, arrived,
                 outVars>>

\* The end of the child's stdout, or a line that cannot be read.
ReadEnds(s) ==
  /\ reader[s] = "reading"
  /\ dead' = dead \cup {s}
  /\ reader' = [reader EXCEPT ![s] = "drain"]
  /\ UNCHANGED <<mode, go, child, work, late, table, box, tools, arrived, outVars>>

drainChildInflight(s) ==
  /\ reader[s] = "drain"
  /\ reader' = [reader EXCEPT ![s] = "over"]
  /\ table' = table \ SlotsOf(s)
  /\ box' = [box EXCEPT ![s] = [c \in Call |->
               IF <<s, c>> \in table /\ box[s][c] = {}
                 THEN {[ok |-> FALSE, tools |-> <<>>]} ELSE box[s][c]]]
  /\ UNCHANGED <<mode, go, child, work, dead, late, tools, arrived, outVars>>

-----------------------------------------------------------------------------
(* The collector. *)

Entries(kids) ==
  FlattenSeq([i \in DOMAIN kids |->
    [j \in DOMAIN tools[kids[i]] |-> [name |-> tools[kids[i]][j], of |-> kids[i]]]])

Empty == [routes |-> Map!NoKeys, catalog |-> <<>>, clash |-> FALSE]
Collision == [routes |-> Map!NoKeys, catalog |-> <<>>, clash |-> TRUE]

Adds(acc, e) ==
  [acc EXCEPT !.routes = Map!Put(acc.routes, e.name, e.of),
              !.catalog = Append(acc.catalog, e.name)]

\* A name that has a route already is an error, and there is no catalog then.
Takes(acc, e) ==
  IF acc.clash \/ e.name \in DOMAIN acc.routes
    THEN Collision ELSE Adds(acc, e)

mergeCatalogs(kids) ==
  LET q == Entries(kids)
      merged[k \in 0..Len(q)] ==
        IF k = 0 THEN Empty ELSE Takes(merged[k - 1], q[k])
  IN  merged[Len(q)]

\* The servers in the order of their results.
Arrival == [i \in DOMAIN arrived |-> arrived[i].of]

\* Mutant: the children are not sorted.
ByArrival == Arrival

configOrder == [s \in Server |-> CHOOSE i \in DOMAIN Order : Order[i] = s]

\* sort.Slice by configOrder
Sorted(kids) ==
  CHOOSE q \in [DOMAIN kids -> ToSet(kids)] :
    /\ ToSet(q) = ToSet(kids)
    /\ \A i, j \in DOMAIN q : i < j => configOrder[q[i]] < configOrder[q[j]]

\* initChildren sorts the children into the configured order.
Merged == IF mode = "live" THEN Sorted(Arrival) ELSE Arrival

\* missingExpectedTools of the servers ss, given the names there are.
missingExpectedTools(ss, names) == (UNION {Known[s] : s \in ss}) \ names

\* Mutant: --verify-mcp keeps what the last server misses and not the union.
missingOfLast(m) == missingExpectedTools({Order[Len(Order)]}, ToSet(m.catalog))

missing(m) == missingExpectedTools(Used, ToSet(m.catalog))

\* What a mode asks of the handshakes and of the merged catalog m.
Accepts(m) ==
  /\ \A i \in DOMAIN arrived : arrived[i].ok
  /\ mode = "direct" => tools[Order[1]] # <<>>
  /\ mode # "direct" => ~ m.clash
  /\ mode = "verify" => missing(m) = {}
  /\ mode = "direct" => Known[Order[1]] \subseteq ToSet(tools[Order[1]])

\* Mutant: only the children that answered are killed.
DoomedGood == {s \in Started : \E i \in DOMAIN arrived : arrived[i] = [of |-> s, ok |-> TRUE]}

\* allChildren: a failed one may still run.
Doomed == Started

Decide ==
  LET m == mergeCatalogs(Merged) IN
  /\ verdict = "none"
  /\ Len(arrived) = Cardinality(Used)
  /\ \/ /\ Accepts(m)
        /\ verdict' = "ready"
        /\ catalog' = IF mode = "direct" THEN tools[Order[1]] ELSE m.catalog
        /\ routes' = m.routes
        /\ UNCHANGED killed
     \/ /\ ~ Accepts(m)
        /\ verdict' = "failed"
        /\ killed' = IF mode = "live" THEN Doomed ELSE killed
        /\ UNCHANGED <<catalog, routes>>
  /\ UNCHANGED <<mode, go, childVars, dead, late, table, box, tools, arrived,
                 exited>>

\* The deferred kills run, but for the os.Exit of a failed --selftest.
Reaps == mode # "selftest" \/ verdict = "ready"

Exit ==
  /\ mode # "live" /\ verdict # "none" /\ ~ exited
  /\ exited' = TRUE
  /\ killed' = IF Reaps THEN Started ELSE killed
  /\ UNCHANGED <<mode, go, childVars, dead, late, table, box, tools, arrived,
                 verdict, catalog, routes>>

-----------------------------------------------------------------------------
Goroutine(s) ==
  \/ Spawn(s) \/ Note(s)
  \/ \E c \in Call : Register(s, c) \/ Send(s, c) \/ GiveUp(s, c) \/ Reply(s, c)

Collector == Decide \/ Exit

Next ==
  /\ ~ exited
  /\ \/ \E s \in Server :
          \/ Goroutine(s) \/ Timer(s) \/ ReadEnds(s) \/ drainChildInflight(s)
          \/ ChildExits(s)
          \/ \E c \in Call : ChildAnswers(s, c)
     \/ Collector

Spec == Init /\ [][Next]_vars

\* Goroutines run and contexts expire; nothing is asked of the children.
Fairness ==
  /\ \A s \in Server : /\ WF_vars(Goroutine(s) /\ ~ exited)
                       /\ WF_vars(Timer(s) /\ ~ exited)
  /\ WF_vars(Collector /\ ~ exited)

FairSpec == Spec /\ Fairness

-----------------------------------------------------------------------------
(* What must hold. *)

\* What a reply channel holds.
Message == [ok : BOOLEAN, tools : Export \cup {<<>>}]

\* Every variable has its type.
TypeOK ==
  /\ mode \in {"live", "selftest", "verify", "direct"}
  /\ go \in [Server -> ({"register", "send", "wait"} \X Call)
                         \cup {<<"spawn", "">>, <<"note", "">>, <<"over", "">>}]
  /\ child \in [Server -> {"none", "alive", "exited"}]
  /\ reader \in [Server -> {"reading", "drain", "over"}]
  /\ work \in [Server -> SUBSET Call]
  /\ tools \in [Server -> Export \cup {<<>>}]
  /\ box \in [Server -> [Call -> SUBSET Message]]
  /\ dead \subseteq Server /\ late \subseteq Server /\ killed \subseteq Server
  /\ table \subseteq Server \X Call
  /\ arrived \in Seq([of : Server, ok : BOOLEAN])
  /\ verdict \in {"none", "ready", "failed"}
  /\ exited \in BOOLEAN

\* A catalog that is served has every tool of every configured server exactly
\* once, under a name the agent can take, routed to the server that reported it,
\* and in the configured order, whichever handshake was done first.
CatalogSound ==
  verdict = "ready" /\ mode = "live" =>
    /\ catalog = FlattenSeq([i \in DOMAIN Order |-> tools[Order[i]]])
    /\ IsInjective(catalog) /\ ToSet(catalog) \subseteq Valid
    /\ DOMAIN routes = ToSet(catalog)
    /\ \A n \in DOMAIN routes : n \in ToSet(tools[routes[n]])

\* What --verify-mcp passes in mux mode, the live proxy would serve in whatever
\* order its handshakes end, and every name expected of a known server is among
\* the merged tools: of that server or another, for only the union is looked at,
\* and a server with no expectations may have no tool at all (verify.go:139-151).
\* In direct mode the one command has a tool, and all that is expected of it.
VerifiedIsServable ==
  verdict = "ready" =>
    /\ mode = "verify" =>
         /\ \A s, t \in Server : s # t => ToSet(tools[s]) \cap ToSet(tools[t]) = {}
         /\ \A s \in Server : IsInjective(tools[s]) /\ ToSet(tools[s]) \subseteq Valid
         /\ \A s \in Server : \A n \in Known[s] : \E t \in Server : n \in ToSet(tools[t])
    /\ mode = "direct" =>
         /\ tools[Order[1]] # <<>>
         /\ Known[Order[1]] \subseteq ToSet(tools[Order[1]])

\* A handshake that is over has no slot in the in-flight table, however it ended.
NoSlotLeft ==
  \A s \in Server, c \in Call : At(s, "over", "") => <<s, c>> \notin table

\* No child of a failed start survives it, and none that of a verification.
NoneLeftBehind ==
  \/ mode = "live" /\ verdict = "failed"
  \/ mode \in {"verify", "direct"} /\ exited
  => Started \subseteq killed

\* The catalog is decided, whatever the children do, and a check ends.
Decided == <>(verdict # "none" /\ (mode = "live" \/ exited))
=============================================================================
