-------------------------------- MODULE Mux --------------------------------
(***************************************************************************)
(* The live phase of bzmux (cmd/bzmux/proxy.go, child.go): one agent on    *)
(* stdio, several child MCP servers, and the in-flight table between them. *)
(*                                                                         *)
(* Threads: the run loop that reads the agent (variable run), a goroutine  *)
(* per agent request (pc), one per leg of a hook fan-out (leg), and one    *)
(* read loop per child (child).  A step is one critical section of         *)
(* inflightMu, one channel operation or one write to a pipe.  A write and  *)
(* the reader's receipt of it are one step: a message still in a pipe is a *)
(* message the reader has not got round to.                                *)
(***************************************************************************)
EXTENDS Integers, FiniteSets, GoMap

CONSTANTS
  Child,     \* the configured child servers
  Req,       \* the agent's tools/call and tools/list requests: their ids
  Up,        \* the requests the children make of the agent
  Tool,      \* what a request names: a child's tool, a hook, the list, ...
  Owner,     \* the child that makes an upstream request
  LocalId,   \* the id that child gave it
  CanStall   \* the children that may stop reading a full stdin pipe

ASSUME MuxAssumption ==
  /\ Req \subseteq Nat
  /\ Req \cap Up = {}
  /\ {"hook", "list", "unknown"} \cap Child = {}
  /\ Tool \in [Req -> Child \cup {"hook", "list", "unknown"}]
  /\ Owner \in [Up -> Child]
  /\ LocalId \in [Up -> Nat]
  /\ CanStall \subseteq Child

CONSTANT InitCalls  \* the mux ids initChildren takes: two calls a child
ASSUME InitCallsAssumption == InitCalls \in Nat

VARIABLES
  catalog,   \* catalogReady/catalogErr: not closed, closed, closed with error
  child,     \* each child's read loop: reading, deadCh closed, table drained
  running,   \* children whose process has not exited
  stalled,   \* children that no longer read their full stdin pipe
  pc,        \* the goroutine of each agent request
  live,      \* fanOut's liveChildren
  leg,       \* the goroutine of each leg of a fan-out
  box,       \* each leg's replyCh, capacity one
  muxID,     \* the goroutine's local muxID, per request and child
  byID,      \* inflightByID
  byKey,     \* inflightByKey; "a:r" is r and "c:owner:id" is u
  nextID,    \* nextID
  run,       \* the run loop
  work,      \* requests a child has read and not answered
  agentHas,  \* upstream requests the agent has read and not answered
  up,        \* upstream requests made so far
  \* What the outside world has seen, for the properties.
  replies,   \* how many response frames the agent got for a request
  results,   \* the children's results that went into them
  asked,     \* requests the agent cancelled
  removed,   \* requests whose table entry a cancel took away
  askedUp,   \* upstream requests their child cancelled
  withdrawn, \* upstream requests the agent dropped at a cancel
  delivered  \* answers of the agent that reached a child

procVars  == <<child, running, stalled>>
goVars    == <<pc, live, leg, box, muxID>>
tableVars == <<byID, byKey, nextID>>
upVars    == <<agentHas, up, askedUp, withdrawn, delivered>>
seenVars  == <<replies, results>>
canVars   == <<asked, removed>>
vars == <<catalog, procVars, goVars, tableVars, run, work, upVars,
          seenVars, canVars>>

-----------------------------------------------------------------------------
(* The data. *)

Entry ==
  [kind : {"call", "leg"}, for : Req, to : Child]
    \cup [kind : {"up"}, for : Up, to : Child]

\* A child's answer is a result [content : [...]], a result of another shape,
\* or an error.
Outcome == {"content", "bare", "error"}
Reply == [is : Outcome, by : Child, of : Req]

\* Mutant: drainChildInflight overlooks the slots with a replyCh.
RoutedCalls(e, c) == e.kind = "call" /\ e.to = c

\* entry.toChild == c.  An upstream request has dst c.writer but no toChild.
RoutedTo(e, c) == e.kind # "up" /\ e.to = c

\* entry.originalKey, if it is not "".
KeysOf(es) == {e.for : e \in {x \in es : x.kind # "leg"}}

\* The read loop has not seen the end of the child's stdout.
Reading(c) == child[c] = "reading"

isDead(c) == ~ Reading(c)

\* A write blocks while the pipe is full and the process that should read it is
\* there, whether or not deadCh is closed by then.
Blocked(c) == c \in stalled \cap running

IsCall(r) == Tool[r] \in Child
LegOver(r, c) == leg[r][c] \in {"ok", "error"}

\* Mutant: inflightByKey is not cleaned up.
ForgetID(ids) == byID' = Delete(byID, ids) /\ UNCHANGED byKey

\* Mutant: inflightByID is not cleaned up.
ForgetKey(ids) ==
  byKey' = Delete(byKey, KeysOf({byID[i] : i \in ids})) /\ UNCHANGED byID

Forget(ids) ==
  /\ byID' = Delete(byID, ids)
  /\ byKey' = Delete(byKey, KeysOf({byID[i] : i \in ids}))

\* Mutant: the new id is one more than the number of slots in use.
RegisterNth(e) ==
  /\ nextID' = Cardinality(DOMAIN byID) + 1
  /\ byID' = Put(byID, nextID', e)
  /\ byKey' = IF e.kind = "leg" THEN byKey ELSE Put(byKey, e.for, nextID')

Register(e) ==
  /\ nextID' = nextID + 1
  /\ byID' = Put(byID, nextID', e)
  /\ byKey' = IF e.kind = "leg" THEN byKey ELSE Put(byKey, e.for, nextID')

Answer(rs) ==
  replies' = [r \in Req |-> IF r \in rs THEN replies[r] + 1 ELSE replies[r]]

\* A send on a replyCh of capacity one that gives up when it is full.
PutReply(r, c, m) ==
  box' = [box EXCEPT ![r] = [box[r] EXCEPT ![c] = IF box[r][c] = {} THEN {m}
                                                   ELSE box[r][c]]]

\* Whether the frame for r shows what m brought: a call's answer goes on as it
\* is, and aggregateContents drops a result that is not [content : [...]].
Shown(r, m) == Tool[r] = "hook" => m.is = "content"

Result(r, m) == [to |-> r, by |-> m.by, of |-> m.of, shown |-> Shown(r, m)]

-----------------------------------------------------------------------------
Init ==
  /\ catalog = "pending"
  /\ child = [c \in Child |-> "reading"]
  /\ running = Child
  /\ stalled = {}
  /\ pc = [r \in Req |-> "idle"]
  /\ live = [r \in Req |-> {}]
  /\ leg = [r \in Req |-> [c \in Child |-> "none"]]
  /\ box = [r \in Req |-> [c \in Child |-> {}]]
  /\ muxID = [r \in Req |-> [c \in Child |-> 0]]
  /\ byID = NoKeys
  /\ byKey = NoKeys
  /\ nextID = 0
  /\ run = [op |-> "read"]
  /\ work = [c \in Child |-> {}]
  /\ agentHas = {}
  /\ up = {}
  /\ replies = [r \in Req |-> 0]
  /\ results = {}
  /\ asked = {}
  /\ removed = {}
  /\ askedUp = {}
  /\ withdrawn = {}
  /\ delivered = {}

-----------------------------------------------------------------------------
(* initChildren, seen from the live phase: every child answered its        *)
(* handshake, or one did not and all are killed.                           *)

CatalogReady ==
  /\ catalog = "pending"
  /\ catalog' = "ready"
  /\ nextID' = nextID + InitCalls
  /\ UNCHANGED <<procVars, goVars, byID, byKey, run, work, upVars,
                 seenVars, canVars>>

CatalogFailed ==
  /\ catalog = "pending"
  /\ catalog' = "failed"
  /\ running' = {}
  /\ UNCHANGED <<child, stalled, goVars, tableVars, run, work, upVars, seenVars,
                 canVars>>

-----------------------------------------------------------------------------
(* The run loop hands each request to a goroutine of its own. *)

AgentRequest(r) ==
  /\ run.op = "read"
  /\ pc[r] = "idle"
  /\ pc' = [pc EXCEPT ![r] = "waiting"]
  /\ UNCHANGED <<catalog, procVars, live, leg, box, muxID, tableVars, run,
                 work, upVars, seenVars, canVars>>

\* The goroutine ends with one response frame of its own.
Finish(r) ==
  /\ pc' = [pc EXCEPT ![r] = "done"]
  /\ Answer({r})
  /\ UNCHANGED <<catalog, procVars, box, muxID, nextID, run, work,
                 upVars, canVars>>

\* waitCatalog fails, tools/list is served, or no child has the tool.
AnswerLocally(r) ==
  /\ pc[r] = "waiting"
  /\ \/ catalog = "failed"
     \/ catalog = "ready" /\ Tool[r] \in {"list", "unknown"}
  /\ Finish(r)
  /\ UNCHANGED <<live, leg, byID, byKey, results>>

RefuseDead(r) ==
  /\ pc[r] = "waiting" /\ catalog = "ready" /\ IsCall(r)
  /\ isDead(Tool[r])
  /\ Finish(r)
  /\ UNCHANGED <<live, leg, byID, byKey, results>>

CheckAlive(r) ==
  /\ pc[r] = "waiting" /\ catalog = "ready" /\ IsCall(r)
  /\ ~ isDead(Tool[r])
  /\ pc' = [pc EXCEPT ![r] = "checked"]
  /\ UNCHANGED <<catalog, procVars, live, leg, box, muxID, tableVars, run,
                 work, upVars, seenVars, canVars>>

RegisterCall(r) ==
  /\ pc[r] = "checked"
  /\ pc' = [pc EXCEPT ![r] = "registered"]
  /\ Register([kind |-> "call", for |-> r, to |-> Tool[r]])
  /\ muxID' = [muxID EXCEPT ![r] = [muxID[r] EXCEPT ![Tool[r]] = nextID']]
  /\ UNCHANGED <<catalog, procVars, live, leg, box, run, work, upVars,
                 seenVars, canVars>>

\* The child reads a request from its stdin.
Hand(c, w) == work' = [work EXCEPT ![c] = work[c] \cup {w}]

\* c.send(&fwd) looks at deadCh ...
SendCall(r) ==
  /\ pc[r] = "registered"
  /\ pc' = [pc EXCEPT ![r] = IF isDead(Tool[r]) THEN "failing" ELSE "writing"]
  /\ UNCHANGED <<catalog, procVars, live, leg, box, muxID,
                 tableVars, run, work, upVars, seenVars, canVars>>

\* ... and then writes to the pipe, which is broken once the process is gone.
WriteCall(r) ==
  LET c == Tool[r] IN
  /\ pc[r] = "writing"
  /\ ~ Blocked(c)
  /\ \/ /\ c \in running
        /\ pc' = [pc EXCEPT ![r] = "done"]
        /\ Hand(c, [id |-> muxID[r][c], of |-> r])
     \/ /\ c \notin running
        /\ pc' = [pc EXCEPT ![r] = "failing"]
        /\ UNCHANGED work
  /\ UNCHANGED <<catalog, procVars, live, leg, box, muxID,
                 tableVars, run, upVars, seenVars, canVars>>

\* Mutant: the slot of a failed send is freed and the agent is not told.
FailSilently(r) ==
  /\ pc[r] = "failing"
  /\ pc' = [pc EXCEPT ![r] = "done"]
  /\ byID' = Delete(byID, {muxID[r][Tool[r]]})
  /\ byKey' = Delete(byKey, {r})
  /\ UNCHANGED <<catalog, procVars, live, leg, box, muxID, nextID, run,
                 work, upVars, seenVars, canVars>>

FailCall(r) ==
  /\ pc[r] = "failing"
  /\ Finish(r)
  /\ byID' = Delete(byID, {muxID[r][Tool[r]]})
  /\ byKey' = Delete(byKey, {r})
  /\ UNCHANGED <<live, leg, results>>

-----------------------------------------------------------------------------
(* Hook fan-out. *)

\* fanOut reads every child's deadCh; deadness only grows, so one read of all
\* of them gives what some sequence of reads gives.
FanOut(r) ==
  /\ pc[r] = "waiting" /\ catalog = "ready" /\ Tool[r] = "hook"
  /\ LET alive == {c \in Child : ~ isDead(c)} IN
       \/ /\ alive = {}
          /\ Finish(r)
          /\ UNCHANGED <<live, leg, byID, byKey, results>>
       \/ /\ alive # {}
          /\ pc' = [pc EXCEPT ![r] = "fanning"]
          /\ live' = [live EXCEPT ![r] = alive]
          /\ leg' = [leg EXCEPT ![r] =
                       [c \in Child |-> IF c \in alive THEN "todo" ELSE "none"]]
          /\ UNCHANGED <<catalog, procVars, box, muxID, tableVars, run,
                         work, upVars, seenVars, canVars>>

LegGoes(r, c, s) == leg' = [leg EXCEPT ![r] = [leg[r] EXCEPT ![c] = s]]

RegisterLeg(r, c) ==
  /\ leg[r][c] = "todo"
  /\ LegGoes(r, c, "registered")
  /\ Register([kind |-> "leg", for |-> r, to |-> c])
  /\ muxID' = [muxID EXCEPT ![r] = [muxID[r] EXCEPT ![c] = nextID']]
  /\ UNCHANGED <<catalog, procVars, pc, live, box, run, work, upVars,
                 seenVars, canVars>>

SendLeg(r, c) ==
  /\ leg[r][c] = "registered"
  /\ LegGoes(r, c, IF isDead(c) THEN "failing" ELSE "writing")
  /\ UNCHANGED <<catalog, procVars, pc, live, box, muxID,
                 tableVars, run, work, upVars, seenVars, canVars>>

WriteLeg(r, c) ==
  /\ leg[r][c] = "writing"
  /\ ~ Blocked(c)
  /\ \/ /\ c \in running
        /\ LegGoes(r, c, "waiting")
        /\ Hand(c, [id |-> muxID[r][c], of |-> r])
     \/ /\ c \notin running
        /\ LegGoes(r, c, "failing")
        /\ UNCHANGED work
  /\ UNCHANGED <<catalog, procVars, pc, live, box, muxID,
                 tableVars, run, upVars, seenVars, canVars>>

\* Mutant: a leg whose child lives waits for its answer without a deadline.
AbandonDeadLeg(r, c) ==
  /\ leg[r][c] = "failing" \/ (leg[r][c] = "waiting" /\ isDead(c))
  /\ LegGoes(r, c, "error")
  /\ byID' = Delete(byID, {muxID[r][c]})
  /\ UNCHANGED <<catalog, procVars, pc, live, box, muxID, byKey, nextID,
                 run, work, upVars, seenVars, canVars>>

\* The leg gives up: its send failed, or while it waits the 30 s run out or
\* deadCh is closed.  A timer may fire at any point of the wait.
AbandonLeg(r, c) ==
  /\ leg[r][c] \in {"failing", "waiting"}
  /\ LegGoes(r, c, "error")
  /\ byID' = Delete(byID, {muxID[r][c]})
  /\ UNCHANGED <<catalog, procVars, pc, live, box, muxID, byKey, nextID,
                 run, work, upVars, seenVars, canVars>>

LegReceives(r, c) ==
  /\ leg[r][c] = "waiting"
  /\ \E m \in box[r][c] :
       LegGoes(r, c, IF m.is = "error" THEN "error" ELSE "ok")
  /\ UNCHANGED <<catalog, procVars, pc, live, box, muxID, tableVars, run,
                 work, upVars, seenVars, canVars>>

\* Mutant: the aggregate has the legs that succeeded and leaves out the others.
FanOutDoneAny(r) ==
  /\ pc[r] = "fanning"
  /\ \A c \in live[r] : LegOver(r, c)
  /\ Finish(r)
  /\ results' = results \cup
       {Result(r, m) :
          m \in UNION {box[r][c] : c \in {d \in live[r] : leg[r][d] = "ok"}}}
  /\ UNCHANGED <<live, leg, byID, byKey>>

FanOutDone(r) ==
  /\ pc[r] = "fanning"
  /\ \A c \in live[r] : LegOver(r, c)
  /\ Finish(r)
  /\ results' =
       IF \A c \in live[r] : leg[r][c] = "ok"
         THEN results \cup {Result(r, m) :
                              m \in UNION {box[r][c] : c \in live[r]}}
         ELSE results
  /\ UNCHANGED <<live, leg, byID, byKey>>

-----------------------------------------------------------------------------
(* The children and their read loops. *)

\* routeResponse, after the entry of a response is taken out: to the agent, or
\* to the leg's replyCh if there is room.
Deliver(e, m) ==
  \/ /\ e.kind = "call"
     /\ Answer({e.for})
     /\ results' = IF m.is = "error" THEN results
                                     ELSE results \cup {Result(e.for, m)}
     /\ UNCHANGED box
  \/ /\ e.kind = "leg"
     /\ PutReply(e.for, e.to, m)
     /\ UNCHANGED seenVars
  \/ /\ e.kind = "up"
     /\ UNCHANGED <<box, replies, results>>

ChildResponds(c, w, is) ==
  /\ Reading(c)
  /\ w \in work[c]
  /\ work' = [work EXCEPT ![c] = work[c] \ {w}]
  /\ \/ /\ w.id \in DOMAIN byID
        /\ Forget({w.id})
        /\ Deliver(byID[w.id], [is |-> is, by |-> c, of |-> w.of])
     \/ /\ w.id \notin DOMAIN byID
        /\ UNCHANGED <<byID, byKey, box, replies, results>>
  /\ UNCHANGED <<catalog, procVars, pc, live, leg, muxID, nextID, run,
                 upVars, canVars>>

ChildExits(c) ==
  /\ c \in running
  /\ running' = running \ {c}
  /\ UNCHANGED <<catalog, child, stalled, goVars, tableVars, run, work, upVars,
                 seenVars, canVars>>

ChildStalls(c) ==
  /\ c \in CanStall \ stalled
  /\ stalled' = stalled \cup {c}
  /\ UNCHANGED <<catalog, child, running, goVars, tableVars, run, work, upVars,
                 seenVars, canVars>>

\* next() returns io.EOF once the exited child's output is used up ...
ReadsEOF(c) ==
  /\ Reading(c) /\ c \notin running
  /\ child' = [child EXCEPT ![c] = "dead"]
  /\ UNCHANGED <<catalog, running, stalled, goVars, tableVars, run, work, upVars,
                 seenVars, canVars>>

\* ... or an error for a frame that is too long, or the end of a stdout that was
\* closed.  The process goes on: c.cmd.Wait after the drain only waits for it.
ReadFails(c) ==
  /\ Reading(c) /\ c \in running
  /\ child' = [child EXCEPT ![c] = "dead"]
  /\ UNCHANGED <<catalog, running, stalled, goVars, tableVars, run, work, upVars,
                 seenVars, canVars>>

drainChildInflight(c) ==
  LET ids   == {i \in DOMAIN byID : RoutedTo(byID[i], c)}
      calls == {byID[i].for : i \in {j \in ids : byID[j].kind = "call"}}
      legs  == {byID[i].for : i \in {j \in ids : byID[j].kind = "leg"}}
  IN
  /\ child[c] = "dead"
  /\ child' = [child EXCEPT ![c] = "drained"]
  /\ Forget(ids)
  /\ Answer(calls)
  /\ box' = [r \in Req |->
               IF r \in legs /\ box[r][c] = {}
                 THEN [box[r] EXCEPT ![c] = {[is |-> "error", by |-> c, of |-> r]}]
                 ELSE box[r]]
  /\ UNCHANGED <<catalog, running, stalled, pc, live, leg, muxID, nextID, run, work,
                 upVars, results, canVars>>

forwardChildRequest(u) ==
  /\ u \notin up
  /\ Reading(Owner[u])
  /\ up' = up \cup {u}
  /\ Register([kind |-> "up", for |-> u, to |-> Owner[u]])
  /\ agentHas' = agentHas \cup {[id |-> nextID', up |-> u]}
  /\ UNCHANGED <<catalog, procVars, goVars, run, work, askedUp, withdrawn,
                 delivered, seenVars, canVars>>

\* A child cancels its own request; an id that is not in the table is sent on
\* as it is.  The agent drops what it holds under that id, or takes no notice.
ChildCancels(u) ==
  LET id == IF u \in DOMAIN byKey THEN byKey[u] ELSE LocalId[u]
      hit == {w \in agentHas : w.id = id}
  IN
  /\ u \in up \ askedUp
  /\ Reading(Owner[u])
  /\ askedUp' = askedUp \cup {u}
  /\ \E gone \in {{}, hit} :
       /\ agentHas' = agentHas \ gone
       /\ withdrawn' = withdrawn \cup {w.up : w \in gone}
  /\ UNCHANGED <<catalog, procVars, goVars, tableVars, run, work, up,
                 delivered, seenVars, canVars>>

-----------------------------------------------------------------------------
(* The rest of the run loop: responses and cancellations, handled in line. *)

AgentResponds(w) ==
  /\ run.op = "read"
  /\ w \in agentHas
  /\ agentHas' = agentHas \ {w}
  /\ \/ /\ w.id \in DOMAIN byID
        /\ Forget({w.id})
        /\ run' = [op |-> "reply", to |-> byID[w.id].to, up |-> w.up]
     \/ /\ w.id \notin DOMAIN byID
        /\ UNCHANGED <<byID, byKey, run>>
  /\ UNCHANGED <<catalog, procVars, goVars, nextID, work, up, askedUp,
                 withdrawn, delivered, seenVars, canVars>>

\* entry.dst is the child's writer: nothing looks at deadCh here.
ReplyToChild ==
  /\ run.op = "reply"
  /\ ~ Blocked(run.to)
  /\ run' = [op |-> "read"]
  /\ delivered' = IF run.to \in running
                    THEN delivered \cup {[to |-> run.to, up |-> run.up]}
                    ELSE delivered
  /\ UNCHANGED <<catalog, procVars, goVars, tableVars, work, agentHas, up,
                 askedUp, withdrawn, seenVars, canVars>>

\* notifications/cancelled, first critical section: remapCancelledID.
AgentCancels(r) ==
  /\ run.op = "read"
  /\ pc[r] # "idle" /\ r \notin asked
  /\ asked' = asked \cup {r}
  /\ run' = [op |-> "cancel", for |-> r, found |-> r \in DOMAIN byKey,
             id |-> IF r \in DOMAIN byKey THEN byKey[r] ELSE r]
  /\ UNCHANGED <<catalog, procVars, goVars, tableVars, work, upVars,
                 seenVars, removed>>

\* Second critical section: forwardCancelledToChild takes the entry out.
TakeCancelled ==
  /\ run.op = "cancel"
  /\ \/ LET e == byID[run.id] IN
          /\ run.id \in DOMAIN byID
          /\ Forget({run.id})
          /\ removed' = removed \cup {e.for}
          /\ run' = IF e.kind = "up" \/ isDead(e.to)
                      THEN [op |-> "read"]
                      ELSE [op |-> "forward", to |-> e.to, id |-> run.id]
     \/ /\ run.id \notin DOMAIN byID
        /\ run' = [op |-> "read"]
        /\ UNCHANGED <<byID, byKey, removed>>
  /\ UNCHANGED <<catalog, procVars, goVars, nextID, work, upVars, seenVars,
                 asked>>

\* c.send looks at deadCh once more ...
SendCancel ==
  /\ run.op = "forward"
  /\ run' = IF isDead(run.to)
              THEN [op |-> "read"]
              ELSE [op |-> "write", to |-> run.to, id |-> run.id]
  /\ UNCHANGED <<catalog, procVars, goVars, tableVars, work,
                 upVars, seenVars, canVars>>

\* ... and writes.  The child stops what it does under that id, or has not got
\* it, or goes on.
WriteCancel ==
  /\ run.op = "write"
  /\ ~ Blocked(run.to)
  /\ run' = [op |-> "read"]
  /\ \E gone \in {{}, {w \in work[run.to] : w.id = run.id}} :
       work' = IF run.to \in running
                 THEN [work EXCEPT ![run.to] = work[run.to] \ gone] ELSE work
  /\ UNCHANGED <<catalog, procVars, goVars, tableVars, upVars,
                 seenVars, canVars>>

-----------------------------------------------------------------------------
Goroutine(r) ==
  \/ AnswerLocally(r) \/ RefuseDead(r) \/ CheckAlive(r) \/ RegisterCall(r)
  \/ SendCall(r) \/ WriteCall(r) \/ FailCall(r) \/ FanOut(r) \/ FanOutDone(r)

Leg(r, c) ==
  \/ RegisterLeg(r, c) \/ SendLeg(r, c) \/ WriteLeg(r, c) \/ AbandonLeg(r, c)
  \/ LegReceives(r, c)

RunLoop == ReplyToChild \/ TakeCancelled \/ SendCancel \/ WriteCancel

\* Mutant: the read loop ends without a drain.
ReadLoopEndsUndrained(c) == ReadsEOF(c)

ReadLoopEnds(c) == ReadsEOF(c) \/ drainChildInflight(c)

Next ==
  \/ CatalogReady \/ CatalogFailed \/ RunLoop
  \/ \E r \in Req : AgentRequest(r) \/ Goroutine(r) \/ AgentCancels(r)
  \/ \E r \in Req, c \in Child : Leg(r, c)
  \/ \E c \in Child : \/ ChildExits(c) \/ ChildStalls(c) \/ ReadFails(c)
                      \/ ReadLoopEnds(c)
  \/ \E c \in Child : \E w \in work[c], is \in Outcome : ChildResponds(c, w, is)
  \/ \E u \in Up : forwardChildRequest(u) \/ ChildCancels(u)
  \/ \E w \in agentHas : AgentResponds(w)

Spec == Init /\ [][Next]_vars

\* The Go scheduler runs every goroutine that can run, timers fire, and
\* initChildren ends within its 30 s budget.  Nothing is asked of the agent or
\* of the children: a child may keep a request for ever.
Fairness ==
  /\ WF_vars(CatalogReady \/ CatalogFailed)
  /\ WF_vars(RunLoop)
  /\ \A r \in Req : WF_vars(Goroutine(r))
  /\ \A r \in Req, c \in Child : WF_vars(Leg(r, c))
  /\ \A c \in Child : WF_vars(ReadLoopEnds(c))

FairSpec == Spec /\ Fairness

-----------------------------------------------------------------------------
(* What must hold. *)

LegState ==
  {"none", "todo", "registered", "writing", "failing", "waiting", "ok", "error"}
RunState ==
  [op : {"read"}]
    \cup [op : {"cancel"}, for : Req, found : BOOLEAN, id : Nat]
    \cup [op : {"forward", "write"}, id : Nat, to : Child]
    \cup [op : {"reply"}, to : Child, up : Up]

\* Every variable has its type; the ids in the table were all allocated.
TypeOK ==
  /\ catalog \in {"pending", "ready", "failed"}
  /\ child \in [Child -> {"reading", "dead", "drained"}]
  /\ running \subseteq Child /\ stalled \subseteq Child
  /\ pc \in [Req -> {"idle", "waiting", "checked", "registered", "writing",
                     "failing", "fanning", "done"}]
  /\ live \in [Req -> SUBSET Child]
  /\ leg \in [Req -> [Child -> LegState]]
  /\ box \in [Req -> [Child -> SUBSET Reply]]
  /\ muxID \in [Req -> [Child -> Nat]]
  /\ nextID \in Nat
  /\ DOMAIN byID \subseteq 1..nextID
  /\ byID \in [DOMAIN byID -> Entry]
  /\ DOMAIN byKey \subseteq Req \cup Up
  /\ byKey \in [DOMAIN byKey -> 1..nextID]
  /\ run \in RunState
  /\ work \in [Child -> SUBSET [id : Nat, of : Req]]
  /\ agentHas \subseteq [id : Nat, up : Up]
  /\ replies \in [Req -> Nat]
  /\ results \subseteq [to : Req, by : Child, of : Req, shown : BOOLEAN]
  /\ up \subseteq Up /\ askedUp \subseteq Up /\ withdrawn \subseteq Up
  /\ asked \subseteq Req /\ removed \subseteq Req \cup Up
  /\ delivered \subseteq [to : Child, up : Up]

\* inflightByKey is the inverse of inflightByID on the entries that have a key:
\* no path through register, respond, drain, cancel and a failed send lets the
\* two maps that inflightMu guards come apart.
MapsAgree ==
  /\ \A i \in DOMAIN byID : byID[i].kind # "leg" =>
       byID[i].for \in DOMAIN byKey /\ byKey[byID[i].for] = i
  /\ \A k \in DOMAIN byKey :
       /\ byKey[k] \in DOMAIN byID
       /\ byID[byKey[k]].kind # "leg" /\ byID[byKey[k]].for = k

\* A result the agent gets for r was computed for r, by the child that exports
\* r's tool, or for a hook by a child that was alive when the fan-out began: ids
\* of several children and of the agent never get mixed in the remapping.
ResultsMatch ==
  \A x \in results :
    /\ x.of = x.to
    /\ x.by = Tool[x.to] \/ (Tool[x.to] = "hook" /\ x.by \in live[x.to])

\* A request that is over for its goroutine and has no response yet has an entry
\* in the table, and a read loop that will still answer it or drain it, unless a
\* cancel took the entry: the safety half of "never hang" (main.go, 5C).
NoneForgotten ==
  \A r \in Req :
    IsCall(r) /\ pc[r] = "done" /\ replies[r] = 0 /\ r \notin removed =>
      /\ muxID[r][Tool[r]] \in DOMAIN byID
      /\ byID[muxID[r][Tool[r]]] = [kind |-> "call", for |-> r, to |-> Tool[r]]
      /\ child[Tool[r]] # "drained"

\* After a child's drain the table holds no slot routed to it but those whose
\* goroutine is about to find out that the send fails.
NoLeak ==
  \A i \in DOMAIN byID :
    LET e == byID[i] IN
      e.kind # "up" /\ child[e.to] = "drained" =>
        IF e.kind = "call" THEN pc[e.for] \in {"registered", "failing"}
                           ELSE leg[e.for][e.to] \in {"registered", "failing"}

\* A request that got a result got exactly one response frame: the error frames
\* of the drain and of the failed send never add to a result.
ResultIsFinal ==
  \A x \in results : replies[x.to] = 1

\* A hook succeeds only on a result of every child of the fan-out: no leg that
\* timed out, died or failed is left out.  The frame counts every result, and may
\* still not show one: see Shown.
HookIsUnanimous ==
  \A r \in Req : Tool[r] = "hook" =>
    LET by == {x.by : x \in {y \in results : y.to = r}} IN by \in {{}, live[r]}

\* An answer of the agent reaches the child that asked, and no other.
UpstreamRouting ==
  \A d \in delivered : d.to = Owner[d.up]

\* A call to a child whose read loop ended is answered, if no cancel took it
\* away, whether that was before the call, while it was being sent or after, and
\* though the run loop or other goroutines hang in writes to a child that does
\* not read its stdin.
DeadChildAnswered ==
  \A r \in Req : IsCall(r) =>
    (pc[r] # "idle" /\ isDead(Tool[r])) ~> (replies[r] > 0 \/ r \in removed)

\* A hook, the tool list and an unknown tool are answered with no help from the
\* children, however they race the deadline, the drains and each other, unless a
\* leg of the hook hangs in its write to a process that does not read its stdin.
HookAnswered ==
  \A r \in Req : ~ IsCall(r) =>
    (pc[r] # "idle")
      ~> \/ replies[r] > 0
         \/ \E c \in Child : leg[r][c] = "writing" /\ Blocked(c)

\* A cancel frees the slot of the request it is about and no other, be it the
\* agent's cancel of a call or a child's of its own upstream request.
CancelHitsOwnRequest ==
  removed \subseteq asked /\ withdrawn \subseteq askedUp

\* What the code keeps of that for every choice of ids: a cancel whose request
\* was found in inflightByKey takes away that request or nothing, although
\* answers, drains and new registrations come between its two critical sections.
\* One that was not found goes on with the agent's own id, which may be another
\* request's mux id (proxy.go:640).
FoundCancelIsExact ==
  [][/\ run.op = "cancel" /\ run.found =>
          removed' \subseteq removed \cup {run.for}
     /\ \A u \in askedUp' \ askedUp :
          u \in DOMAIN byKey => withdrawn' \subseteq withdrawn \cup {u}]_vars
=============================================================================
