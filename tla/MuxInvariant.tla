---------------------------- MODULE MuxInvariant ----------------------------
(***************************************************************************)
(* The inductive invariant of the multiplexer: what ties the in-flight     *)
(* table to the goroutines, the children and the agent at every step.      *)
(***************************************************************************)
EXTENDS Mux

\* A goroutine's local muxID names its own slot, or one that is gone.
IdsKnown ==
  \A r \in Req, c \in Child :
    /\ muxID[r][c] <= nextID
    /\ muxID[r][c] \in DOMAIN byID =>
         LET e == byID[muxID[r][c]] IN e.kind # "up" /\ e.for = r /\ e.to = c

\* A slot belongs to a request that is under way and has no answer yet.
CallSlots ==
  \A i \in DOMAIN byID : byID[i].kind = "call" =>
    LET r == byID[i].for IN
      /\ IsCall(r) /\ byID[i].to = Tool[r] /\ muxID[r][Tool[r]] = i
      /\ pc[r] \in {"registered", "writing", "failing", "done"}
      /\ replies[r] = 0 /\ r \notin removed

LegSlots ==
  \A i \in DOMAIN byID : byID[i].kind = "leg" =>
    LET r == byID[i].for  c == byID[i].to IN
      /\ muxID[r][c] = i
      /\ leg[r][c] \in {"registered", "writing", "failing", "waiting"}
      /\ box[r][c] = {}

UpSlots ==
  \A i \in DOMAIN byID : byID[i].kind = "up" =>
    byID[i].to = Owner[byID[i].for] /\ byID[i].for \in up

\* A leg belongs to a fan-out that has begun; its replyCh has only its child's
\* answer, and it succeeds only with one.
Legs ==
  \A r \in Req, c \in Child :
    /\ leg[r][c] # "none" =>
         Tool[r] = "hook" /\ c \in live[r] /\ pc[r] \in {"fanning", "done"}
    /\ \A m \in box[r][c] : m.by = c /\ m.of = r
    /\ leg[r][c] = "ok" => box[r][c] # {}
    /\ leg[r][c] \in {"none", "todo"} => box[r][c] = {}

\* A goroutine runs the code for its kind of request, and before its
\* send nothing has answered for it or taken a slot of it away.
Goroutines ==
  \A r \in Req :
    /\ pc[r] \in {"checked", "registered", "writing", "failing"} => IsCall(r)
    /\ pc[r] = "fanning" => Tool[r] = "hook"
    /\ pc[r] \in {"idle", "waiting", "checked", "fanning"} => replies[r] = 0
    /\ pc[r] \in {"idle", "waiting", "checked"} => r \notin removed

\* What a child holds it holds under the id of a goroutine that has sent it.
Work ==
  \A c \in Child : \A w \in work[c] :
    /\ w.id = muxID[w.of][c]
    /\ \/ Tool[w.of] = c /\ pc[w.of] = "done"
       \/ leg[w.of][c] \in {"waiting", "ok", "error"}

\* What the agent holds it holds under an id that is that request's or nobody's.
Upstream ==
  /\ \A w \in agentHas :
       /\ w.id <= nextID
       /\ w.id \in DOMAIN byID =>
            byID[w.id].kind = "up" /\ byID[w.id].for = w.up
  /\ run.op = "reply" => run.to = Owner[run.up]

\* A call without an answer keeps its slot from its registration on.
Covered ==
  \A r \in Req :
    /\ IsCall(r) /\ pc[r] \in {"registered", "writing", "failing", "done"}
    /\ replies[r] = 0 /\ r \notin removed
    => muxID[r][Tool[r]] \in DOMAIN byID

\* Results come last.
Results ==
  \A x \in results : pc[x.to] = "done" /\ replies[x.to] = 1

Inductive ==
  /\ IdsKnown /\ CallSlots /\ LegSlots /\ UpSlots
  /\ Legs /\ Goroutines /\ Work /\ Upstream /\ Covered /\ Results
  /\ MapsAgree /\ ResultsMatch /\ NoLeak /\ HookIsUnanimous /\ UpstreamRouting

-----------------------------------------------------------------------------
\* Between the two critical sections of a cancel that found its request, the id
\* is that request's slot or nobody's.
FoundKnown ==
  run.op = "cancel" /\ run.found =>
    /\ run.id \in 1..nextID
    /\ run.id \in DOMAIN byID => byID[run.id].for = run.for

-----------------------------------------------------------------------------
\* The mux ids are those of initChildren, one for every call and every leg that
\* was registered, and one for every upstream request.
Slots == {p \in Req \X Child : muxID[p[1]][p[2]] # 0}

Allocated ==
  nextID = (IF catalog = "ready" THEN InitCalls ELSE 0)
             + Cardinality(Slots) + Cardinality(up)

\* Before its registration a goroutine has no id.
NotYet ==
  \A r \in Req, c \in Child :
    \/ pc[r] \in {"idle", "waiting", "checked"}
    \/ Tool[r] = "hook" /\ leg[r][c] \in {"none", "todo"}
    => muxID[r][c] = 0

Counted == Allocated /\ NotYet
=============================================================================
