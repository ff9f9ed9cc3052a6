-------------------------- MODULE MuxTableProofs --------------------------
(***************************************************************************)
(* The in-flight table: Inductive is an invariant, and with it the safety  *)
(* properties of the multiplexer, for any number of children and requests. *)
(* One lemma for each kind of step; in each, <1>0 and the lettered steps   *)
(* say what the step does and the numbered ones keep the parts of Inductive*)
(***************************************************************************)
EXTENDS MuxProofs, MuxInvariant, FiniteSetTheorems

\* A step of a child process, of the catalog or of the run loop that leaves
\* the table and the goroutines alone.
LEMMA QuietStep ==
  ASSUME TypeOK, TypeOK', Inductive,
         UNCHANGED <<goVars, byID, byKey, seenVars, removed, up>>, nextID' >= nextID,
         \A c \in Child : work'[c] \subseteq work[c],
         agentHas' \subseteq agentHas,
         \A c \in Child : child'[c] = "drained" => child[c] = "drained",
         run'.op = "reply" => run' = run,
         UpstreamRouting'
  PROVE  Inductive'
<1> USE DEF Inductive, goVars, seenVars
<1>1. IdsKnown'
  BY DEF IdsKnown, TypeOK
<1>2. CallSlots' /\ LegSlots' /\ UpSlots' /\ Covered'
  BY DEF CallSlots, LegSlots, UpSlots, Covered, IsCall
<1>3. Legs' /\ Goroutines' /\ Results'
  BY DEF Legs, Goroutines, Results, IsCall
<1>4. Work'
  BY DEF Work
<1>5. Upstream'
  BY DEF Upstream, TypeOK
<1>6. MapsAgree' /\ ResultsMatch' /\ HookIsUnanimous'
  BY DEF MapsAgree, ResultsMatch, HookIsUnanimous
<1>7. NoLeak'
  BY DEF NoLeak, TypeOK, Entry
<1> QED BY <1>1, <1>2, <1>3, <1>4, <1>5, <1>6, <1>7

\* What TypeOK says of a slot.
LEMMA SlotType ==
  ASSUME TypeOK, NEW i \in DOMAIN byID
  PROVE  /\ byID[i] \in Entry /\ i \in 1..nextID
         /\ byID[i].kind \in {"call", "leg", "up"} /\ byID[i].to \in Child
         /\ byID[i].kind # "up" => byID[i].for \in Req
         /\ byID[i].kind = "up" => byID[i].for \in Up
<1>1. byID[i] \in Entry /\ i \in 1..nextID
  BY DEF TypeOK
<1> QED BY <1>1 DEF Entry

\* A request that has not got past the lookup moves on, or is answered there.
LEMMA StartStep ==
  ASSUME TypeOK, TypeOK', Inductive, NEW r \in Req,
         pc[r] \in {"idle", "waiting"},
         UNCHANGED <<child, live, leg, box, muxID, byID, byKey, nextID, run, work,
                     results, removed, up, agentHas, delivered>>,
         \A q \in Req \ {r} : pc'[q] = pc[q] /\ replies'[q] = replies[q],
         \/ pc'[r] = "waiting" /\ replies'[r] = replies[r]
         \/ pc'[r] = "checked" /\ replies'[r] = replies[r] /\ IsCall(r)
         \/ pc'[r] = "done" /\ replies'[r] = replies[r] + 1
  PROVE  Inductive'
<1> USE DEF Inductive
<1>0. replies[r] = 0
  BY DEF Goroutines
<1>1. \A i \in DOMAIN byID : byID[i].kind = "call" => byID[i].for \in Req \ {r}
  BY SlotType DEF CallSlots
<1>2. IdsKnown' /\ LegSlots' /\ UpSlots'
  BY DEF IdsKnown, LegSlots, UpSlots
<1>3. CallSlots'
  BY <1>1 DEF CallSlots, IsCall
<1>4. Covered'
  BY <1>0 DEF Covered, IsCall
<1>5. Legs'
  BY DEF Legs
<1>6. Goroutines'
  BY <1>0 DEF Goroutines, IsCall
<1>7. Results' /\ ResultsMatch'
  BY DEF Results, ResultsMatch, TypeOK
<1>8. Work'
  BY DEF Work, TypeOK
<1>9. Upstream' /\ MapsAgree' /\ HookIsUnanimous' /\ UpstreamRouting'
  BY DEF Upstream, MapsAgree, HookIsUnanimous, UpstreamRouting
<1>10. NoLeak'
  BY <1>1, SlotType DEF NoLeak, CallSlots
<1> QED BY <1>2, <1>3, <1>4, <1>5, <1>6, <1>7, <1>8, <1>9, <1>10

\* fanOut starts its legs.
LEMMA FanOutStep ==
  ASSUME TypeOK, TypeOK', Inductive, NEW r \in Req, NEW S \in SUBSET Child,
         pc[r] = "waiting", Tool[r] = "hook",
         pc' = [pc EXCEPT ![r] = "fanning"], live' = [live EXCEPT ![r] = S],
         leg' = [leg EXCEPT ![r] = [c \in Child |-> IF c \in S THEN "todo" ELSE "none"]],
         UNCHANGED <<child, box, muxID, byID, byKey, nextID, run, work, replies,
                     results, removed, up, agentHas, delivered>>
  PROVE  Inductive'
<1> USE DEF Inductive
<1>a. replies[r] = 0 /\ \A c \in Child : leg[r][c] = "none"
  BY DEF Goroutines, Legs
<1>0. /\ replies[r] = 0 /\ \A c \in Child : leg[r][c] = "none"
      /\ pc'[r] = "fanning" /\ live'[r] = S
      /\ \A c \in Child : leg'[r][c] = IF c \in S THEN "todo" ELSE "none"
      /\ \A q \in Req \ {r} : pc'[q] = pc[q] /\ live'[q] = live[q] /\ leg'[q] = leg[q]
  BY <1>a DEF TypeOK
<1>1. \A i \in DOMAIN byID : byID[i].kind # "up" => byID[i].for \in Req \ {r}
  BY <1>0, SlotType DEF CallSlots, LegSlots
<1>2. IdsKnown' /\ UpSlots'
  BY DEF IdsKnown, UpSlots
<1>3. LegSlots'
  <2>1. ASSUME NEW i \in DOMAIN byID, byID[i].kind = "leg"
        PROVE  leg'[byID[i].for] = leg[byID[i].for]
    BY <1>0, <1>1, <2>1
  <2>2. byID' = byID /\ box' = box /\ muxID' = muxID
    OBVIOUS
  <2>3. LegSlots
    OBVIOUS
  <2> HIDE DEF Inductive
  <2> QED BY <2>1, <2>2, <2>3 DEF LegSlots
<1>4. CallSlots'
  BY <1>0, <1>1 DEF CallSlots, IsCall
<1>5. Covered'
  BY <1>0 DEF Covered, IsCall
<1>6. Legs'
  <2>1. ASSUME NEW q \in Req, q # r, NEW c \in Child
        PROVE  leg'[q][c] = leg[q][c] /\ live'[q] = live[q] /\ pc'[q] = pc[q]
    BY <1>0, <2>1
  <2> QED BY <1>0, <2>1 DEF Legs
<1>7. Goroutines'
  BY <1>0 DEF Goroutines, IsCall
<1>8. \A x \in results : x.to \in Req \ {r}
  BY DEF Results, TypeOK
<1>9. Results' /\ ResultsMatch'
  BY <1>0, <1>8 DEF Results, ResultsMatch
<1>10. Work'
  <2>1. ASSUME NEW c \in Child, NEW w \in work[c]
        PROVE  w.of \in Req \ {r}
    <3>1. w.of \in Req
      BY DEF TypeOK
    <3>2. w.of # r
      BY <1>a DEF Work
    <3> QED BY <3>1, <3>2
  <2> QED BY <1>0, <2>1 DEF Work
<1>11. HookIsUnanimous'
  <2>1. {y \in results : y.to = r} = {}
    BY <1>8
  <2>2. {x.by : x \in {y \in results : y.to = r}} = {}
    BY <2>1
  <2> QED BY <1>0, <2>2 DEF HookIsUnanimous
<1>12. Upstream' /\ MapsAgree' /\ UpstreamRouting'
  BY DEF Upstream, MapsAgree, UpstreamRouting
<1>13. NoLeak'
  BY <1>0, <1>1, SlotType DEF NoLeak
<1> QED
  BY <1>2, <1>3, <1>4, <1>5, <1>6, <1>7, <1>9, <1>10, <1>11, <1>12, <1>13

\* What moving one leg changes.
LEMMA LegMove ==
  ASSUME TypeOK, NEW r \in Req, NEW c \in Child, NEW s, LegGoes(r, c, s)
  PROVE  /\ leg'[r][c] = s
         /\ \A q \in Req, d \in Child : q # r \/ d # c => leg'[q][d] = leg[q][d]
BY DEF LegGoes, TypeOK

\* What a child has after it read one more request.
LEMMA WorkMove ==
  ASSUME TypeOK, NEW c \in Child, NEW w, Hand(c, w)
  PROVE  /\ work'[c] = work[c] \cup {w}
         /\ \A d \in Child : d # c => work'[d] = work[d]
BY DEF Hand, TypeOK

\* A request that a child holds is one of the agent's.
LEMMA WorkType ==
  ASSUME TypeOK, NEW c \in Child, NEW w \in work[c]
  PROVE  w.of \in Req /\ w.id \in Nat
BY DEF TypeOK

\* A call's send: the look at deadCh, and the write that succeeds or fails.
LEMMA SendCallStep ==
  ASSUME TypeOK, TypeOK', Inductive, NEW r \in Req, SendCall(r) \/ WriteCall(r)
  PROVE  Inductive'
<1> USE DEF Inductive
<1> DEFINE c == Tool[r]
<1>0. /\ pc[r] \in {"registered", "writing"} /\ IsCall(r) /\ c \in Child
      /\ UNCHANGED <<child, live, leg, box, muxID, byID, byKey, nextID, run,
                     replies, results, removed, up, agentHas, delivered>>
      /\ \A q \in Req \ {r} : pc'[q] = pc[q]
      /\ \/ pc'[r] = "writing" /\ child[c] = "reading" /\ work' = work
         \/ /\ pc[r] = "writing" /\ pc'[r] = "done"
            /\ Hand(c, [id |-> muxID[r][c], of |-> r])
         \/ pc'[r] = "failing" /\ work' = work
  <2>1. pc[r] \in {"registered", "writing"} /\ IsCall(r) /\ c \in Child
    BY DEF SendCall, WriteCall, Goroutines, IsCall
  <2> QED BY <2>1 DEF SendCall, WriteCall, isDead, Reading, procVars, goVars, tableVars,
             upVars, seenVars, canVars, TypeOK
<1>1. IdsKnown' /\ UpSlots' /\ LegSlots'
  BY <1>0 DEF IdsKnown, UpSlots, LegSlots
<1>2. CallSlots'
  BY <1>0, SlotType DEF CallSlots, IsCall
<1>3. Covered'
  BY <1>0 DEF Covered, IsCall
<1>4. Legs'
  <2>1. \A d \in Child : leg[r][d] = "none"
    BY <1>0, MuxAssumption DEF Legs, IsCall
  <2> QED BY <1>0, <2>1 DEF Legs
<1>5. Goroutines'
  BY <1>0 DEF Goroutines, IsCall
<1>6. \A x \in results : x.to \in Req \ {r}
  BY <1>0 DEF Results, TypeOK
<1>7. Results' /\ ResultsMatch'
  BY <1>0, <1>6 DEF Results, ResultsMatch
<1>8. Work'
  <2>1. ASSUME NEW d \in Child, NEW w \in work[d]
        PROVE  /\ w.id = muxID[w.of][d]
               /\ \/ Tool[w.of] = d /\ pc'[w.of] = "done"
                  \/ leg[w.of][d] \in {"waiting", "ok", "error"}
    BY <1>0, WorkType DEF Work
  <2>2. CASE work' = work
    BY <1>0, <2>1, <2>2 DEF Work
  <2>3. CASE pc'[r] = "done" /\ Hand(c, [id |-> muxID[r][c], of |-> r])
    <3>1. ASSUME NEW d \in Child, NEW w \in work'[d]
          PROVE  \/ w \in work[d]
                 \/ d = c /\ w = [id |-> muxID[r][c], of |-> r]
      BY <1>0, <2>3, WorkMove
    <3> QED BY <1>0, <2>1, <2>3, <3>1 DEF Work
  <2> QED BY <1>0, <2>2, <2>3
<1>9. Upstream' /\ MapsAgree' /\ HookIsUnanimous' /\ UpstreamRouting'
  BY <1>0 DEF Upstream, MapsAgree, HookIsUnanimous, UpstreamRouting
<1>10. NoLeak'
  BY <1>0, SlotType DEF NoLeak, CallSlots
<1> QED BY <1>1, <1>2, <1>3, <1>4, <1>5, <1>7, <1>8, <1>9, <1>10

\* A leg's send, in the same two steps.
LEMMA SendLegStep ==
  ASSUME TypeOK, TypeOK', Inductive, NEW r \in Req, NEW c \in Child,
         SendLeg(r, c) \/ WriteLeg(r, c)
  PROVE  Inductive'
<1> USE DEF Inductive
<1>0. /\ leg[r][c] \in {"registered", "writing"}
      /\ UNCHANGED <<child, pc, live, box, muxID, byID, byKey, nextID, run,
                     replies, results, removed, up, agentHas, delivered>>
      /\ \A q \in Req, d \in Child : q # r \/ d # c => leg'[q][d] = leg[q][d]
      /\ \/ leg'[r][c] = "writing" /\ child[c] = "reading" /\ work' = work
         \/ /\ leg[r][c] = "writing" /\ leg'[r][c] = "waiting"
            /\ Hand(c, [id |-> muxID[r][c], of |-> r])
         \/ leg'[r][c] = "failing" /\ work' = work
  BY LegMove DEF SendLeg, WriteLeg, isDead, Reading, procVars, goVars, tableVars,
     upVars, seenVars, canVars
<1>1. IdsKnown' /\ UpSlots' /\ CallSlots' /\ Covered'
  BY <1>0 DEF IdsKnown, UpSlots, CallSlots, Covered, IsCall
<1>2. LegSlots'
  BY <1>0, SlotType DEF LegSlots
<1>3. Legs'
  BY <1>0 DEF Legs
<1>4. Goroutines' /\ Results' /\ ResultsMatch'
  BY <1>0 DEF Goroutines, IsCall, Results, ResultsMatch
<1>5. Work'
  <2>1. ASSUME NEW d \in Child, NEW w \in work[d]
        PROVE  /\ w.id = muxID[w.of][d]
               /\ \/ Tool[w.of] = d /\ pc[w.of] = "done"
                  \/ leg'[w.of][d] \in {"waiting", "ok", "error"}
    BY <1>0, WorkType DEF Work
  <2>2. CASE work' = work
    BY <1>0, <2>1, <2>2 DEF Work
  <2>3. CASE leg'[r][c] = "waiting" /\ Hand(c, [id |-> muxID[r][c], of |-> r])
    <3>1. ASSUME NEW d \in Child, NEW w \in work'[d]
          PROVE  \/ w \in work[d]
                 \/ d = c /\ w = [id |-> muxID[r][c], of |-> r]
      BY <2>3, WorkMove
    <3> QED BY <1>0, <2>1, <2>3, <3>1 DEF Work
  <2> QED BY <1>0, <2>2, <2>3
<1>6. Upstream' /\ MapsAgree' /\ HookIsUnanimous' /\ UpstreamRouting'
  BY <1>0 DEF Upstream, MapsAgree, HookIsUnanimous, UpstreamRouting
<1>7. NoLeak'
  BY <1>0, SlotType DEF NoLeak
<1> QED BY <1>1, <1>2, <1>3, <1>4, <1>5, <1>6, <1>7

\* A leg takes the answer out of its replyCh.
LEMMA LegReceivesStep ==
  ASSUME TypeOK, TypeOK', Inductive, NEW r \in Req, NEW c \in Child, LegReceives(r, c)
  PROVE  Inductive'
<1> USE DEF Inductive
<1>0. /\ leg[r][c] = "waiting" /\ box[r][c] # {} /\ leg'[r][c] \in {"ok", "error"}
      /\ UNCHANGED <<child, pc, live, box, muxID, byID, byKey, nextID, run, work,
                     replies, results, removed, up, agentHas, delivered>>
      /\ \A q \in Req, d \in Child : q # r \/ d # c => leg'[q][d] = leg[q][d]
  BY LegMove DEF LegReceives, procVars, goVars, tableVars, upVars, seenVars, canVars
<1>1. IdsKnown' /\ UpSlots' /\ CallSlots' /\ Covered'
  BY <1>0 DEF IdsKnown, UpSlots, CallSlots, Covered, IsCall
<1>2. LegSlots'
  BY <1>0, SlotType DEF LegSlots
<1>3. Legs'
  BY <1>0 DEF Legs
<1>4. Goroutines' /\ Results' /\ ResultsMatch'
  BY <1>0 DEF Goroutines, IsCall, Results, ResultsMatch
<1>5. Work'
  <2>1. ASSUME NEW d \in Child, NEW w \in work[d]
        PROVE  /\ w.id = muxID[w.of][d]
               /\ \/ Tool[w.of] = d /\ pc[w.of] = "done"
                  \/ leg'[w.of][d] \in {"waiting", "ok", "error"}
    BY <1>0, WorkType DEF Work
  <2> QED BY <1>0, <2>1 DEF Work
<1>6. Upstream' /\ MapsAgree' /\ HookIsUnanimous' /\ UpstreamRouting'
  BY <1>0 DEF Upstream, MapsAgree, HookIsUnanimous, UpstreamRouting
<1>7. NoLeak'
  <2>1. \A i \in DOMAIN byID : byID[i].kind = "leg" =>
          byID[i].for # r \/ byID[i].to # c
    BY <1>0 DEF LegSlots
  <2> QED BY <1>0, <2>1, SlotType DEF NoLeak
<1> QED BY <1>1, <1>2, <1>3, <1>4, <1>5, <1>6, <1>7

\* The aggregate.
LEMMA FanOutDoneStep ==
  ASSUME TypeOK, TypeOK', Inductive, NEW r \in Req, FanOutDone(r)
  PROVE  Inductive'
<1> USE DEF Inductive
<1> DEFINE got == {Result(r, m) : m \in UNION {box[r][c] : c \in live[r]}}
<1>0. /\ pc[r] = "fanning" /\ \A c \in live[r] : LegOver(r, c)
      /\ UNCHANGED <<child, live, leg, box, muxID, byID, byKey, nextID, run, work,
                     removed, up, agentHas, delivered>>
      /\ \A q \in Req \ {r} : pc'[q] = pc[q] /\ replies'[q] = replies[q]
      /\ pc'[r] = "done" /\ replies'[r] = replies[r] + 1
      /\ \/ results' = results
         \/ results' = results \cup got /\ \A c \in live[r] : leg[r][c] = "ok"
  BY DEF FanOutDone, Finish, Answer, TypeOK, procVars, goVars, tableVars, upVars, seenVars, canVars
<1>a. /\ Tool[r] = "hook" /\ ~ IsCall(r) /\ replies[r] = 0
  BY <1>0, MuxAssumption DEF Goroutines, IsCall
<1>b. \A x \in results : x.to \in Req \ {r}
  BY <1>0 DEF Results, TypeOK
<1>c. live[r] \subseteq Child
  BY DEF TypeOK
<1>1. IdsKnown' /\ UpSlots'
  BY <1>0 DEF IdsKnown, UpSlots
<1>13. LegSlots'
  BY <1>0 DEF LegSlots
<1>2. CallSlots'
  BY <1>0, <1>a, SlotType DEF CallSlots, IsCall
<1>3. Covered'
  BY <1>0, <1>a DEF Covered, IsCall
<1>4. Legs'
  BY <1>0 DEF Legs
<1>5. Goroutines'
  BY <1>0, <1>a DEF Goroutines, IsCall
<1>6. \A x \in got : x.to = r /\ x.of = r /\ x.by \in live[r]
  BY <1>c DEF Result, Shown, Legs
<1>7. Results'
  BY <1>0, <1>a, <1>b, <1>6 DEF Results
<1>8. ResultsMatch'
  BY <1>0, <1>a, <1>6 DEF ResultsMatch
<1>9. Work'
  BY <1>0, <1>a, WorkType DEF Work
<1>10. HookIsUnanimous'
  <2>1. ASSUME NEW q \in Req \ {r}
        PROVE  {y \in results' : y.to = q} = {y \in results : y.to = q}
    BY <1>0, <1>6
  <2>2. CASE results' = results
    BY <1>0, <2>2 DEF HookIsUnanimous
  <2>3. CASE results' = results \cup got /\ \A c \in live[r] : leg[r][c] = "ok"
    <3>1. {y \in results' : y.to = r} = got
      BY <1>b, <1>6, <2>3
    <3>2. ASSUME NEW c \in live[r] PROVE \E x \in got : x.by = c
      <4>1. PICK m \in box[r][c] : m.by = c
        BY <1>c, <2>3 DEF Legs
      <4>2. Result(r, m) \in got
        OBVIOUS
      <4> QED BY <4>1, <4>2 DEF Result
    <3>3. {x.by : x \in got} = live[r]
      BY <1>6, <3>2
    <3> HIDE DEF got
    <3> QED BY <1>0, <2>1, <3>1, <3>3 DEF HookIsUnanimous
  <2> QED BY <1>0, <2>2, <2>3
<1>11. Upstream' /\ MapsAgree' /\ UpstreamRouting'
  BY <1>0 DEF Upstream, MapsAgree, UpstreamRouting
<1>12. NoLeak'
  <2>1. \A i \in DOMAIN byID : byID[i].kind = "call" => byID[i].for \in Req \ {r}
    BY <1>0, <1>a, SlotType DEF CallSlots
  <2> QED BY <1>0, <2>1, SlotType DEF NoLeak
<1> QED
  BY <1>1, <1>2, <1>3, <1>4, <1>5, <1>7, <1>8, <1>9, <1>10, <1>11, <1>12, <1>13

-----------------------------------------------------------------------------
(* Steps that put a slot in the table, and steps that take slots out. *)

\* The table after a registration: one fresh id more.
LEMMA RegisterMap ==
  ASSUME TypeOK, NEW e \in Entry, Register(e)
  PROVE  /\ nextID' = nextID + 1 /\ nextID' \in Nat /\ nextID' \notin DOMAIN byID
         /\ DOMAIN byID' = DOMAIN byID \cup {nextID'}
         /\ byID'[nextID'] = e
         /\ \A i \in DOMAIN byID : byID'[i] = byID[i] /\ i <= nextID
<1>1. nextID' = nextID + 1 /\ byID' = Put(byID, nextID', e)
  BY DEF Register
<1>2. nextID \in Nat /\ \A i \in DOMAIN byID : i \in 1..nextID
  BY DEF TypeOK
<1>3. nextID' \notin DOMAIN byID
  BY <1>1, <1>2
<1> QED BY <1>1, <1>2, <1>3 DEF Put

\* A registration keeps the two maps inverse if its key is new.
LEMMA RegisterAgrees ==
  ASSUME TypeOK, MapsAgree, NEW e \in Entry, Register(e),
         e.kind # "leg" => e.for \notin DOMAIN byKey
  PROVE  MapsAgree'
<1>1. /\ nextID' \notin DOMAIN byID
      /\ DOMAIN byID' = DOMAIN byID \cup {nextID'}
      /\ byID'[nextID'] = e
      /\ \A i \in DOMAIN byID : byID'[i] = byID[i]
  BY RegisterMap
<1>2. CASE e.kind = "leg"
  <2>1. byKey' = byKey
    BY <1>2 DEF Register
  <2> QED BY <1>1, <1>2, <2>1 DEF MapsAgree
<1>3. CASE e.kind # "leg"
  <2>1. byKey' = Put(byKey, e.for, nextID')
    BY <1>3 DEF Register
  <2>2. /\ DOMAIN byKey' = DOMAIN byKey \cup {e.for}
        /\ byKey'[e.for] = nextID'
        /\ \A k \in DOMAIN byKey : byKey'[k] = byKey[k]
    <3> HIDE DEF MapsAgree
    <3> QED BY <1>3, <2>1 DEF Put
  <2> QED BY <1>1, <1>3, <2>2 DEF MapsAgree
<1> QED BY <1>2, <1>3

\* The slots that stay are as they were.
Shrinks ==
  /\ DOMAIN byID' \subseteq DOMAIN byID
  /\ \A i \in DOMAIN byID' : byID'[i] = byID[i]

\* The table after slots were taken out.
LEMMA ForgetMap ==
  ASSUME NEW ids, Forget(ids)
  PROVE  Shrinks /\ DOMAIN byID' = DOMAIN byID \ ids
<1>1. byID' = Delete(byID, ids)
  BY DEF Forget
<1> QED BY <1>1 DEF Delete, Shrinks

\* Taking out slots with their keys keeps the two maps inverse.
LEMMA ForgetAgrees ==
  ASSUME TypeOK, MapsAgree, NEW ids \in SUBSET DOMAIN byID, Forget(ids)
  PROVE  MapsAgree'
<1> DEFINE ks == KeysOf({byID[i] : i \in ids})
<1>1. /\ DOMAIN byID' = DOMAIN byID \ ids
      /\ \A i \in DOMAIN byID' : byID'[i] = byID[i]
  BY ForgetMap DEF Shrinks
<1>2. byKey' = Delete(byKey, ks)
  BY DEF Forget
<1>3. DOMAIN byKey' = DOMAIN byKey \ ks /\ \A k \in DOMAIN byKey \ ks : byKey'[k] = byKey[k]
  BY <1>2, DeleteMap
<1>4. \A k \in DOMAIN byKey : k \in ks <=> byKey[k] \in ids
  <2>1. ASSUME NEW k \in DOMAIN byKey, byKey[k] \in ids PROVE k \in ks
    BY <2>1 DEF MapsAgree, KeysOf
  <2>2. ASSUME NEW k \in DOMAIN byKey, k \in ks PROVE byKey[k] \in ids
    <3>1. PICK i \in ids : byID[i].kind # "leg" /\ byID[i].for = k
      BY <2>2 DEF KeysOf
    <3> QED BY <3>1 DEF MapsAgree
  <2> QED BY <2>1, <2>2
<1> HIDE DEF ks
<1>5. \A i \in DOMAIN byID' : byID'[i].kind # "leg" =>
         byID'[i].for \in DOMAIN byKey' /\ byKey'[byID'[i].for] = i
  BY <1>1, <1>3, <1>4 DEF MapsAgree
<1>6. \A k \in DOMAIN byKey' :
        /\ byKey'[k] \in DOMAIN byID'
        /\ byID'[byKey'[k]].kind # "leg" /\ byID'[byKey'[k]].for = k
  BY <1>1, <1>3, <1>4 DEF MapsAgree
<1> QED BY <1>5, <1>6 DEF MapsAgree

\* What a goroutine's new muxID changes.
LEMMA MuxIDMove ==
  ASSUME TypeOK, NEW r \in Req, NEW c \in Child, NEW i,
         muxID' = [muxID EXCEPT ![r] = [muxID[r] EXCEPT ![c] = i]]
  PROVE  /\ muxID'[r][c] = i
         /\ \A q \in Req, d \in Child : q # r \/ d # c => muxID'[q][d] = muxID[q][d]
BY DEF TypeOK

\* A key of the table belongs to a slot of its kind.
LEMMA KeyHolder ==
  ASSUME TypeOK, MapsAgree, NEW k \in DOMAIN byKey
  PROVE  /\ byKey[k] \in DOMAIN byID /\ byID[byKey[k]].for = k
         /\ k \in Req => byID[byKey[k]].kind = "call"
         /\ k \in Up => byID[byKey[k]].kind = "up"
<1>1. byKey[k] \in DOMAIN byID /\ byID[byKey[k]].for = k /\ byID[byKey[k]].kind # "leg"
  BY DEF MapsAgree
<1>2. Req \cap Up = {}
  BY MuxAssumption
<1> QED BY <1>1, <1>2, SlotType

\* A call takes a slot: its id is fresh and its key is new.
LEMMA RegisterCallStep ==
  ASSUME TypeOK, TypeOK', Inductive, NEW r \in Req, RegisterCall(r)
  PROVE  Inductive'
<1> USE DEF Inductive
<1> DEFINE c == Tool[r]
           e == [kind |-> "call", for |-> r, to |-> c]
           i == nextID'
<1>0. /\ pc[r] = "checked" /\ IsCall(r) /\ c \in Child
      /\ UNCHANGED <<child, live, leg, box, run, work, replies, results, removed,
                     up, agentHas, delivered>>
      /\ pc'[r] = "registered" /\ \A q \in Req \ {r} : pc'[q] = pc[q]
      /\ Register(e)
      /\ replies[r] = 0 /\ r \notin removed
  BY DEF RegisterCall, Goroutines, IsCall, procVars, goVars, tableVars, upVars, seenVars, canVars, TypeOK
<1>a. /\ muxID'[r][c] = i
      /\ \A q \in Req, d \in Child : q # r \/ d # c => muxID'[q][d] = muxID[q][d]
  BY <1>0, MuxIDMove DEF RegisterCall
<1>b. e \in Entry
  BY <1>0 DEF Entry
<1>c. /\ i = nextID + 1 /\ i \in Nat /\ i \notin DOMAIN byID
      /\ DOMAIN byID' = DOMAIN byID \cup {i}
      /\ byID'[i] = e
      /\ \A j \in DOMAIN byID : byID'[j] = byID[j] /\ j <= nextID
  BY <1>0, <1>b, RegisterMap
<1>d. \A j \in DOMAIN byID : byID[j].kind = "call" => byID[j].for \in Req \ {r}
  BY <1>0, SlotType DEF CallSlots
<1>e. e.kind = "call" /\ e.for = r /\ e.to = c
  OBVIOUS
<1> HIDE DEF e, i
<1>1. MapsAgree'
  <2>1. r \notin DOMAIN byKey
    BY <1>d, KeyHolder
  <2> QED BY <1>0, <1>b, <1>e, <2>1, RegisterAgrees
<1>2. IdsKnown'
  <2>1. \A q \in Req, d \in Child : muxID[q][d] <= nextID /\ muxID[q][d] \in Nat
    BY DEF IdsKnown, TypeOK
  <2>2. ASSUME NEW q \in Req, NEW d \in Child, q # r \/ d # c
        PROVE  /\ muxID'[q][d] <= nextID'
               /\ muxID'[q][d] \in DOMAIN byID' =>
                    /\ byID'[muxID'[q][d]].kind # "up"
                    /\ byID'[muxID'[q][d]].for = q /\ byID'[muxID'[q][d]].to = d
    <3>1. muxID'[q][d] = muxID[q][d] /\ muxID[q][d] # i /\ muxID[q][d] <= nextID'
      BY <1>a, <1>c, <2>1, <2>2 DEF i, TypeOK
    <3> QED BY <1>c, <3>1 DEF IdsKnown
  <2> QED BY <1>a, <1>c, <1>e, <2>2 DEF IdsKnown, i
<1>3. CallSlots'
  <2>1. ASSUME NEW j \in DOMAIN byID, byID[j].kind = "call"
        PROVE  muxID'[byID[j].for] = muxID[byID[j].for]
    BY <1>d, <2>1 DEF RegisterCall, TypeOK
  <2> QED BY <1>0, <1>a, <1>c, <1>d, <1>e, <2>1 DEF CallSlots, IsCall
<1>4. LegSlots'
  <2>1. ASSUME NEW j \in DOMAIN byID, byID[j].kind = "leg"
        PROVE  byID[j].for \in Req \ {r}
    BY <1>0, <2>1, MuxAssumption, SlotType DEF LegSlots, Legs, IsCall
  <2>2. ASSUME NEW j \in DOMAIN byID, byID[j].kind = "leg"
        PROVE  /\ muxID'[byID[j].for][byID[j].to] = j
               /\ leg[byID[j].for][byID[j].to] \in {"registered", "writing", "failing", "waiting"}
               /\ box[byID[j].for][byID[j].to] = {}
    BY <1>a, <2>1, <2>2, SlotType DEF LegSlots
  <2> QED BY <1>0, <1>c, <1>e, <2>2 DEF LegSlots
<1>5. UpSlots'
  BY <1>0, <1>c, <1>e DEF UpSlots
<1>6. Legs'
  <2>1. \A d \in Child : leg[r][d] = "none"
    BY <1>0, MuxAssumption DEF Legs, IsCall
  <2> QED BY <1>0, <2>1 DEF Legs
<1>7. Goroutines'
  BY <1>0 DEF Goroutines, IsCall
<1>8. Work'
  <2>1. ASSUME NEW d \in Child, NEW w \in work[d]
        PROVE  w.of \in Req \ {r}
    <3>1. w.of # r
      BY <1>0 DEF Work, Legs
    <3> QED BY <3>1, WorkType
  <2> QED BY <1>0, <1>a, <2>1 DEF Work
<1>9. Upstream'
  <2>1. \A w \in agentHas : w.id \in Nat
    BY DEF TypeOK
  <2> QED BY <1>0, <1>c, <2>1 DEF Upstream, i, TypeOK
<1>10. Covered'
  <2>1. \A q \in Req \ {r} : IsCall(q) => muxID'[q][Tool[q]] = muxID[q][Tool[q]]
    BY <1>a DEF IsCall
  <2> QED BY <1>0, <1>a, <1>c, <2>1 DEF Covered, IsCall
<1>11. Results' /\ ResultsMatch' /\ HookIsUnanimous' /\ UpstreamRouting'
  <2>1. \A x \in results : x.to \in Req \ {r}
    BY <1>0 DEF Results, TypeOK
  <2> QED BY <1>0, <2>1 DEF Results, ResultsMatch, HookIsUnanimous, UpstreamRouting
<1>12. NoLeak'
  BY <1>0, <1>c, <1>d, <1>e, SlotType DEF NoLeak
<1> QED
  BY <1>1, <1>2, <1>3, <1>4, <1>5, <1>6, <1>7, <1>8, <1>9, <1>10, <1>11, <1>12

\* A leg takes a slot without a key.
LEMMA RegisterLegStep ==
  ASSUME TypeOK, TypeOK', Inductive, NEW r \in Req, NEW c \in Child, RegisterLeg(r, c)
  PROVE  Inductive'
<1> USE DEF Inductive
<1> DEFINE e == [kind |-> "leg", for |-> r, to |-> c]
           i == nextID'
<1>0. /\ leg[r][c] = "todo" /\ leg'[r][c] = "registered"
      /\ \A q \in Req, d \in Child : q # r \/ d # c => leg'[q][d] = leg[q][d]
      /\ UNCHANGED <<child, pc, live, box, run, work, replies, results, removed,
                     up, agentHas, delivered>>
      /\ Register(e)
      /\ box[r][c] = {} /\ Tool[r] = "hook" /\ ~ IsCall(r)
  BY LegMove, MuxAssumption
  DEF RegisterLeg, Legs, IsCall, procVars, goVars, tableVars, upVars, seenVars, canVars
<1>a. /\ muxID'[r][c] = i
      /\ \A q \in Req, d \in Child : q # r \/ d # c => muxID'[q][d] = muxID[q][d]
  <2>1. muxID' = [muxID EXCEPT ![r] = [muxID[r] EXCEPT ![c] = i]]
    BY DEF RegisterLeg
  <2> HIDE DEF i
  <2>2. muxID \in [Req -> [Child -> Nat]]
    BY DEF TypeOK
  <2> QED BY <2>1, <2>2
<1>b. e \in Entry
  BY DEF Entry
<1>c. /\ i = nextID + 1 /\ i \in Nat /\ i \notin DOMAIN byID
      /\ DOMAIN byID' = DOMAIN byID \cup {i}
      /\ byID'[i] = e
      /\ \A j \in DOMAIN byID : byID'[j] = byID[j] /\ j <= nextID
  BY <1>0, <1>b, RegisterMap
<1>d. \A j \in DOMAIN byID : byID[j].kind = "leg" => byID[j].for # r \/ byID[j].to # c
  BY <1>0 DEF LegSlots
<1>e. e.kind = "leg" /\ e.for = r /\ e.to = c
  OBVIOUS
<1> HIDE DEF e, i
<1>1. MapsAgree'
  BY <1>0, <1>b, <1>e, RegisterAgrees
<1>2. IdsKnown'
  <2>1. \A q \in Req, d \in Child : muxID[q][d] <= nextID /\ muxID[q][d] \in Nat
    BY DEF IdsKnown, TypeOK
  <2>2. ASSUME NEW q \in Req, NEW d \in Child, q # r \/ d # c
        PROVE  /\ muxID'[q][d] <= nextID'
               /\ muxID'[q][d] \in DOMAIN byID' =>
                    /\ byID'[muxID'[q][d]].kind # "up"
                    /\ byID'[muxID'[q][d]].for = q /\ byID'[muxID'[q][d]].to = d
    <3>1. muxID'[q][d] = muxID[q][d] /\ muxID[q][d] # i /\ muxID[q][d] <= nextID'
      BY <1>a, <1>c, <2>1, <2>2 DEF i, TypeOK
    <3> QED BY <1>c, <3>1 DEF IdsKnown
  <2> QED BY <1>a, <1>c, <1>e, <2>2 DEF IdsKnown, i
<1>3. CallSlots'
  <2>1. ASSUME NEW j \in DOMAIN byID, byID[j].kind = "call"
        PROVE  /\ byID[j].for \in Req /\ Tool[byID[j].for] \in Child
               /\ muxID'[byID[j].for][Tool[byID[j].for]] = j
    <3>1. byID[j].for \in Req /\ Tool[byID[j].for] \in Child /\ byID[j].for # r
          /\ muxID[byID[j].for][Tool[byID[j].for]] = j
      BY <1>0, <2>1, SlotType DEF CallSlots, IsCall
    <3> QED BY <1>a, <3>1
  <2> QED BY <1>0, <1>c, <1>e, <2>1 DEF CallSlots, IsCall
<1>4. LegSlots'
  <2>1. ASSUME NEW j \in DOMAIN byID, byID[j].kind = "leg"
        PROVE  /\ muxID'[byID[j].for][byID[j].to] = j
               /\ leg'[byID[j].for][byID[j].to] \in {"registered", "writing", "failing", "waiting"}
               /\ box'[byID[j].for][byID[j].to] = {}
    <3>1. byID[j].for \in Req /\ byID[j].to \in Child /\ (byID[j].for # r \/ byID[j].to # c)
      BY <1>d, <2>1, SlotType
    <3> QED BY <1>0, <1>a, <2>1, <3>1 DEF LegSlots
  <2> QED BY <1>0, <1>a, <1>c, <1>e, <2>1 DEF LegSlots
<1>5. UpSlots'
  BY <1>0, <1>c, <1>e DEF UpSlots
<1>6. Legs'
  BY <1>0 DEF Legs
<1>7. Goroutines'
  BY <1>0 DEF Goroutines, IsCall
<1>8. Work'
  <2>1. ASSUME NEW d \in Child, NEW w \in work[d]
        PROVE  w.of \in Req /\ (w.of # r \/ d # c)
    <3>1. w.of # r \/ d # c
      BY <1>0, MuxAssumption DEF Work
    <3> QED BY <3>1, WorkType
  <2> QED BY <1>0, <1>a, <2>1 DEF Work
<1>9. Upstream'
  <2>1. \A w \in agentHas : w.id \in Nat
    BY DEF TypeOK
  <2> QED BY <1>0, <1>c, <2>1 DEF Upstream, i, TypeOK
<1>10. Covered'
  <2>1. \A q \in Req : IsCall(q) => muxID'[q][Tool[q]] = muxID[q][Tool[q]]
    BY <1>0, <1>a DEF IsCall
  <2> QED BY <1>0, <1>c, <2>1 DEF Covered, IsCall
<1>11. Results' /\ ResultsMatch' /\ HookIsUnanimous' /\ UpstreamRouting'
  BY <1>0 DEF Results, ResultsMatch, HookIsUnanimous, UpstreamRouting
<1>12. NoLeak'
  BY <1>0, <1>c, <1>d, <1>e, SlotType DEF NoLeak
<1> QED
  BY <1>1, <1>2, <1>3, <1>4, <1>5, <1>6, <1>7, <1>8, <1>9, <1>10, <1>11, <1>12

\* An upstream request takes a slot whose id the agent then holds.
LEMMA ForwardUpStep ==
  ASSUME TypeOK, TypeOK', Inductive, NEW u \in Up, forwardChildRequest(u)
  PROVE  Inductive'
<1> USE DEF Inductive
<1> DEFINE e == [kind |-> "up", for |-> u, to |-> Owner[u]]
           i == nextID'
<1>0. /\ u \notin up /\ up' = up \cup {u} /\ Register(e)
      /\ UNCHANGED <<child, pc, live, leg, box, muxID, run, work, replies, results,
                     removed, delivered>>
      /\ agentHas' = agentHas \cup {[id |-> i, up |-> u]}
  BY DEF forwardChildRequest, procVars, goVars, seenVars, canVars
<1>b. e \in Entry
  BY MuxAssumption DEF Entry
<1>c. /\ i = nextID + 1 /\ i \in Nat /\ i \notin DOMAIN byID
      /\ DOMAIN byID' = DOMAIN byID \cup {i}
      /\ byID'[i] = e
      /\ \A j \in DOMAIN byID : byID'[j] = byID[j] /\ j <= nextID
  BY <1>0, <1>b, RegisterMap
<1>e. e.kind = "up" /\ e.for = u /\ e.to = Owner[u]
  OBVIOUS
<1> HIDE DEF e, i
<1>1. MapsAgree'
  <2>1. u \notin DOMAIN byKey
    BY <1>0, KeyHolder DEF UpSlots
  <2> QED BY <1>0, <1>b, <1>e, <2>1, RegisterAgrees
<1>2. IdsKnown'
  <2>1. \A q \in Req, d \in Child : muxID[q][d] <= nextID /\ muxID[q][d] \in Nat
    BY DEF IdsKnown, TypeOK
  <2>2. \A q \in Req, d \in Child : muxID[q][d] # i /\ muxID[q][d] <= nextID'
    BY <1>c, <2>1 DEF i, TypeOK
  <2> QED BY <1>0, <1>c, <2>2 DEF IdsKnown
<1>3. CallSlots'
  BY <1>0, <1>c, <1>e DEF CallSlots, IsCall
<1>4. LegSlots'
  <2>1. leg' = leg /\ box' = box /\ muxID' = muxID
    BY <1>0
  <2> QED BY <1>c, <1>e, <2>1 DEF LegSlots
<1>5. UpSlots'
  BY <1>0, <1>c, <1>e DEF UpSlots
<1>6. Legs' /\ Goroutines' /\ Work'
  BY <1>0 DEF Legs, Goroutines, Work, IsCall
<1>7. Upstream'
  <2>1. \A w \in agentHas : w.id \in Nat
    BY DEF TypeOK
  <2> QED BY <1>0, <1>c, <1>e, <2>1 DEF Upstream, i, TypeOK
<1>8. Covered'
  BY <1>0, <1>c DEF Covered, IsCall
<1>9. Results' /\ ResultsMatch' /\ HookIsUnanimous' /\ UpstreamRouting'
  BY <1>0 DEF Results, ResultsMatch, HookIsUnanimous, UpstreamRouting
<1>10. NoLeak'
  BY <1>0, <1>c, <1>e, SlotType DEF NoLeak
<1> QED BY <1>1, <1>2, <1>3, <1>4, <1>5, <1>6, <1>7, <1>8, <1>9, <1>10

\* What each removal of slots keeps, if no goroutine and no leg moves back.
LEMMA ShrinkMoves ==
  ASSUME TypeOK, Inductive, Shrinks, UNCHANGED <<live, muxID, nextID, up>>,
         agentHas' \subseteq agentHas,
         run'.op = "reply" => run'.to = Owner[run'.up]
  PROVE  IdsKnown' /\ UpSlots' /\ Upstream'
<1> USE DEF Inductive, Shrinks
<1>1. IdsKnown'
  BY DEF IdsKnown
<1>2. UpSlots'
  BY DEF UpSlots
<1>3. Upstream'
  BY DEF Upstream
<1> QED BY <1>1, <1>2, <1>3

\* A failed send frees the slot, if the drain has not, and answers.
LEMMA FailCallStep ==
  ASSUME TypeOK, TypeOK', Inductive, NEW r \in Req, FailCall(r)
  PROVE  Inductive'
<1> USE DEF Inductive
<1> DEFINE i == muxID[r][Tool[r]]
<1>0. /\ pc[r] = "failing" /\ IsCall(r) /\ Tool[r] \in Child
      /\ UNCHANGED <<child, live, leg, box, muxID, nextID, run, work, results, removed,
                     up, agentHas, delivered>>
      /\ pc'[r] = "done" /\ replies'[r] = replies[r] + 1
      /\ \A q \in Req \ {r} : pc'[q] = pc[q] /\ replies'[q] = replies[q]
      /\ byID' = Delete(byID, {i}) /\ byKey' = Delete(byKey, {r})
  BY DEF FailCall, Finish, Answer, Goroutines, IsCall, procVars, goVars, upVars, canVars, TypeOK
<1>a. /\ Shrinks /\ DOMAIN byID' = DOMAIN byID \ {i}
      /\ DOMAIN byKey' = DOMAIN byKey \ {r}
      /\ \A k \in DOMAIN byKey \ {r} : byKey'[k] = byKey[k]
  BY <1>0 DEF Delete, Shrinks
<1>s. \A j \in DOMAIN byID' : j \in DOMAIN byID /\ j # i /\ byID'[j] = byID[j]
  BY <1>a DEF Shrinks
<1>b. /\ replies[r] \in Nat /\ replies'[r] # 0
      /\ run.op = "reply" => run.to = Owner[run.up]
  BY <1>0 DEF TypeOK, Upstream
<1>c. \A j \in DOMAIN byID : byID[j].kind = "call" /\ byID[j].for = r => j = i
  BY <1>0 DEF CallSlots
<1>d. \A x \in results : x.to \in Req \ {r}
  BY <1>0 DEF Results, TypeOK
<1> HIDE DEF i
<1>1. IdsKnown' /\ UpSlots' /\ Upstream'
  BY <1>0, <1>a, <1>b, ShrinkMoves
<1>2. MapsAgree'
  <2>1. ASSUME NEW j \in DOMAIN byID', byID'[j].kind # "leg"
        PROVE  byID'[j].for \in DOMAIN byKey' /\ byKey'[byID'[j].for] = j
    <3>1. j \in DOMAIN byID /\ j # i /\ byID'[j] = byID[j]
      BY <1>a DEF Shrinks
    <3>2. byID[j].for # r
      BY <1>c, <2>1, <3>1, SlotType, MuxAssumption
    <3>3. byID[j].for \in DOMAIN byKey /\ byKey[byID[j].for] = j
      BY <2>1, <3>1 DEF MapsAgree
    <3> QED BY <1>a, <3>1, <3>2, <3>3
  <2>2. ASSUME NEW k \in DOMAIN byKey'
        PROVE  /\ byKey'[k] \in DOMAIN byID'
               /\ byID'[byKey'[k]].kind # "leg" /\ byID'[byKey'[k]].for = k
    <3>1. k \in DOMAIN byKey /\ k # r /\ byKey'[k] = byKey[k]
      BY <1>a
    <3>2. byKey[k] \in DOMAIN byID /\ byID[byKey[k]].kind # "leg" /\ byID[byKey[k]].for = k
      BY <3>1 DEF MapsAgree
    <3>3. byKey[k] # i
      BY <1>0, <3>1, <3>2 DEF IdsKnown, i
    <3> QED BY <1>a, <3>1, <3>2, <3>3 DEF Shrinks
  <2> QED BY <2>1, <2>2 DEF MapsAgree
<1>3. CallSlots'
  <2>1. ASSUME NEW j \in DOMAIN byID', byID[j].kind = "call"
        PROVE  LET q == byID[j].for IN
                 /\ Tool[q] \in Child /\ byID[j].to = Tool[q] /\ muxID'[q][Tool[q]] = j
                 /\ pc'[q] \in {"registered", "writing", "failing", "done"}
                 /\ replies'[q] = 0 /\ q \notin removed'
    BY <1>0, <1>c, <1>s, <2>1, SlotType DEF CallSlots, IsCall
  <2> QED BY <1>s, <2>1 DEF CallSlots, IsCall
<1>4. LegSlots'
  <2>1. leg' = leg /\ box' = box /\ muxID' = muxID
    BY <1>0
  <2> QED BY <1>s, <2>1 DEF LegSlots
<1>5. Legs'
  <2>1. \A d \in Child : leg[r][d] = "none"
    BY <1>0, MuxAssumption DEF Legs, IsCall
  <2> QED BY <1>0, <2>1 DEF Legs
<1>6. Goroutines'
  BY <1>0 DEF Goroutines, IsCall
<1>7. Results' /\ ResultsMatch' /\ HookIsUnanimous' /\ UpstreamRouting'
  BY <1>0, <1>d DEF Results, ResultsMatch, HookIsUnanimous, UpstreamRouting
<1>8. Work'
  <2>1. \A d \in Child : \A w \in work[d] : Tool[w.of] = d /\ pc[w.of] = "done" => w.of \in Req \ {r}
    BY <1>0, WorkType
  <2> QED BY <1>0, <2>1 DEF Work
<1>9. Covered'
  <2>1. ASSUME NEW q \in Req \ {r}, IsCall(q), muxID[q][Tool[q]] \in DOMAIN byID
        PROVE  muxID[q][Tool[q]] # i
    BY <1>0, <2>1 DEF IdsKnown, IsCall, i
  <2> QED BY <1>0, <1>a, <1>b, <2>1 DEF Covered, IsCall
<1>10. NoLeak'
  <2>1. ASSUME NEW j \in DOMAIN byID', byID[j].kind = "call"
        PROVE  pc'[byID[j].for] = pc[byID[j].for]
    BY <1>0, <1>c, <1>s, <2>1, SlotType
  <2>2. leg' = leg /\ child' = child
    BY <1>0
  <2> QED BY <1>s, <2>1, <2>2, SlotType DEF NoLeak
<1> QED BY <1>1, <1>2, <1>3, <1>4, <1>5, <1>6, <1>7, <1>8, <1>9, <1>10

\* A leg that gives up frees its slot.
LEMMA AbandonLegStep ==
  ASSUME TypeOK, TypeOK', Inductive, NEW r \in Req, NEW c \in Child, AbandonLeg(r, c)
  PROVE  Inductive'
<1> USE DEF Inductive
<1> DEFINE i == muxID[r][c]
<1>0. /\ leg[r][c] \in {"failing", "waiting"} /\ leg'[r][c] = "error"
      /\ \A q \in Req, d \in Child : q # r \/ d # c => leg'[q][d] = leg[q][d]
      /\ UNCHANGED <<child, pc, live, box, muxID, byKey, nextID, run, work, replies,
                     results, removed, up, agentHas, delivered>>
      /\ byID' = Delete(byID, {i})
      /\ Tool[r] = "hook" /\ ~ IsCall(r)
  BY LegMove, MuxAssumption
  DEF AbandonLeg, Legs, IsCall, procVars, goVars, upVars, seenVars, canVars
<1>a. Shrinks /\ DOMAIN byID' = DOMAIN byID \ {i}
  BY <1>0 DEF Delete, Shrinks
<1>s. \A j \in DOMAIN byID' : j \in DOMAIN byID /\ j # i /\ byID'[j] = byID[j]
  BY <1>a DEF Shrinks
<1>b. i \in DOMAIN byID => byID[i].kind = "leg"
  BY <1>0, SlotType DEF IdsKnown, CallSlots
<1>c. \A j \in DOMAIN byID : byID[j].kind = "leg" /\ byID[j].for = r /\ byID[j].to = c => j = i
  BY DEF LegSlots
<1>d. run.op = "reply" => run.to = Owner[run.up]
  BY DEF Upstream
<1> HIDE DEF i
<1>1. IdsKnown' /\ UpSlots' /\ Upstream'
  BY <1>0, <1>a, <1>d, ShrinkMoves
<1>2. MapsAgree'
  <2>1. byKey' = byKey
    BY <1>0
  <2>2. \A k \in DOMAIN byKey : byKey[k] \in DOMAIN byID'
    BY <1>a, <1>b DEF MapsAgree
  <2> QED BY <1>s, <2>1, <2>2 DEF MapsAgree
<1>3. CallSlots'
  <2>1. pc' = pc /\ muxID' = muxID /\ replies' = replies /\ removed' = removed
    BY <1>0
  <2> QED BY <1>s, <2>1 DEF CallSlots, IsCall
<1>4. LegSlots'
  <2>1. ASSUME NEW j \in DOMAIN byID', byID[j].kind = "leg"
        PROVE  leg'[byID[j].for][byID[j].to] = leg[byID[j].for][byID[j].to]
    BY <1>0, <1>c, <1>s, <2>1, SlotType
  <2>2. muxID' = muxID /\ box' = box
    BY <1>0
  <2> QED BY <1>s, <2>1, <2>2 DEF LegSlots
<1>5. Legs' /\ Goroutines'
  BY <1>0 DEF Legs, Goroutines, IsCall
<1>6. Results' /\ ResultsMatch' /\ HookIsUnanimous' /\ UpstreamRouting'
  BY <1>0 DEF Results, ResultsMatch, HookIsUnanimous, UpstreamRouting
<1>7. Work'
  BY <1>0, WorkType DEF Work
<1>8. Covered'
  <2>1. ASSUME NEW q \in Req, IsCall(q), muxID[q][Tool[q]] \in DOMAIN byID
        PROVE  muxID[q][Tool[q]] # i
    BY <1>0, <2>1 DEF IdsKnown, IsCall, i
  <2> QED BY <1>0, <1>a, <2>1 DEF Covered, IsCall
<1>9. NoLeak'
  <2>1. ASSUME NEW j \in DOMAIN byID', byID[j].kind = "leg"
        PROVE  leg'[byID[j].for][byID[j].to] = leg[byID[j].for][byID[j].to]
    BY <1>0, <1>c, <1>s, <2>1, SlotType
  <2>2. pc' = pc /\ child' = child
    BY <1>0
  <2> QED BY <1>s, <2>1, <2>2, SlotType DEF NoLeak
<1> QED BY <1>1, <1>2, <1>3, <1>4, <1>5, <1>6, <1>7, <1>8, <1>9

\* A child's response takes its slot out and goes where the slot says.
LEMMA DeliverStep ==
  ASSUME TypeOK, TypeOK', Inductive, NEW c \in Child, NEW w \in work[c],
         NEW is \in Outcome, ChildResponds(c, w, is), w.id \in DOMAIN byID
  PROVE  Inductive'
<1> USE DEF Inductive
<1> DEFINE i == w.id
           r == w.of
           e == byID[i]
           m == [is |-> is, by |-> c, of |-> r]
<1>0. /\ work' = [work EXCEPT ![c] = work[c] \ {w}] /\ Forget({i}) /\ Deliver(e, m)
      /\ UNCHANGED <<child, pc, live, leg, muxID, nextID, run, removed, up, agentHas,
                     delivered>>
  BY DEF ChildResponds, procVars, upVars, canVars
<1>a. /\ r \in Req /\ e \in Entry /\ i = muxID[r][c]
      /\ e.for = r /\ e.to = c /\ e.kind \in {"call", "leg"}
  BY WorkType, SlotType DEF Work, IdsKnown
<1>b. e.kind = "call" => IsCall(r) /\ Tool[r] = c /\ pc[r] = "done" /\ replies[r] = 0
  <2>1. Tool[r] = "hook" => Tool[r] \notin Child
    BY MuxAssumption
  <2>2. leg[r][c] # "none" => Tool[r] = "hook"
    BY <1>a DEF Legs
  <2>3. (Tool[r] = c /\ pc[r] = "done") \/ leg[r][c] \in {"waiting", "ok", "error"}
    BY DEF Work
  <2>4. ASSUME e.kind = "call" PROVE IsCall(r) /\ Tool[r] = c /\ replies[r] = 0
    <3>1. IsCall(e.for) /\ e.to = Tool[e.for] /\ replies[e.for] = 0
      BY <2>4 DEF CallSlots
    <3> QED BY <1>a, <3>1
  <2> QED BY <2>1, <2>2, <2>3, <2>4 DEF IsCall
<1>c. e.kind = "leg" => Tool[r] = "hook" /\ ~ IsCall(r) /\ box[r][c] = {}
                          /\ leg[r][c] = "waiting" /\ c \in live[r]
  <2>1. ASSUME e.kind = "leg" PROVE leg[r][c] \in {"registered", "writing", "failing", "waiting"} /\ box[r][c] = {}
    <3>1. /\ leg[e.for][e.to] \in {"registered", "writing", "failing", "waiting"}
          /\ box[e.for][e.to] = {}
      BY <2>1 DEF LegSlots
    <3> QED BY <1>a, <3>1
  <2>2. leg[r][c] # "none" => Tool[r] = "hook" /\ c \in live[r]
    BY <1>a DEF Legs
  <2>3. (Tool[r] = c /\ pc[r] = "done") \/ leg[r][c] \in {"waiting", "ok", "error"}
    BY DEF Work
  <2>4. Tool[r] = "hook" => ~ IsCall(r)
    BY MuxAssumption DEF IsCall
  <2>5. Tool[r] = "hook" => Tool[r] # c
    BY MuxAssumption
  <2> QED BY <2>1, <2>2, <2>3, <2>4, <2>5
<1>d. m.by = c /\ m.of = r
  OBVIOUS
<1>e. /\ e.kind = "call" => /\ replies'[r] = 1 /\ \A q \in Req \ {r} : replies'[q] = replies[q]
                            /\ box' = box
                            /\ \A x \in results' : \/ x \in results
                                                   \/ x.to = r /\ x.by = c /\ x.of = r
                            /\ results \subseteq results'
      /\ e.kind = "leg" => /\ replies' = replies /\ results' = results
                           /\ box'[r][c] = {m}
                           /\ \A q \in Req, d \in Child : q # r \/ d # c => box'[q][d] = box[q][d]
  <2>1. CASE e.kind = "call"
    <3>1. /\ Answer({r}) /\ box' = box
          /\ results' = IF m.is = "error" THEN results ELSE results \cup {Result(r, m)}
      BY <1>0, <1>a, <2>1 DEF Deliver
    <3>2. replies'[r] = 1 /\ \A q \in Req \ {r} : replies'[q] = replies[q]
      BY <1>a, <1>b, <2>1, <3>1 DEF Answer
    <3> QED BY <2>1, <3>1, <3>2 DEF Result
  <2>2. CASE e.kind = "leg"
    <3>1. PutReply(r, c, m) /\ replies' = replies /\ results' = results
      BY <1>0, <1>a, <2>2 DEF Deliver, seenVars
    <3>2. box \in [Req -> [Child -> SUBSET Reply]]
      BY DEF TypeOK
    <3> HIDE DEF m
    <3>3. /\ box'[r][c] = {m}
          /\ \A q \in Req, d \in Child : q # r \/ d # c => box'[q][d] = box[q][d]
      BY <1>a, <1>c, <2>2, <3>1, <3>2 DEF PutReply
    <3> QED BY <2>2, <3>1, <3>3
  <2> QED BY <1>a, <2>1, <2>2
<1>s. /\ Shrinks /\ DOMAIN byID' = DOMAIN byID \ {i}
      /\ \A j \in DOMAIN byID' : j \in DOMAIN byID /\ j # i /\ byID'[j] = byID[j]
  <2> HIDE DEF i, r, e, m
  <2>1. Shrinks /\ DOMAIN byID' = DOMAIN byID \ {i}
    BY <1>0, ForgetMap
  <2> QED BY <2>1 DEF Shrinks
<1>f. \A d \in Child : work'[d] \subseteq work[d]
  BY <1>0 DEF TypeOK
<1> HIDE DEF i, r, e, m
<1>1. IdsKnown' /\ UpSlots' /\ Upstream'
  <2>1. run.op = "reply" => run.to = Owner[run.up]
    BY DEF Upstream
  <2> QED BY <1>0, <1>s, <2>1, ShrinkMoves
<1>2. MapsAgree'
  BY <1>0, ForgetAgrees DEF i
<1>3. CallSlots'
  <2>1. ASSUME NEW j \in DOMAIN byID', byID[j].kind = "call"
        PROVE  replies'[byID[j].for] = replies[byID[j].for]
    <3>1. byID[j].for \in Req /\ (e.kind = "call" => byID[j].for # r)
      BY <1>a, <1>b, <1>s, <2>1, SlotType DEF CallSlots
    <3> QED BY <1>a, <1>e, <3>1
  <2>2. pc' = pc /\ muxID' = muxID /\ removed' = removed
    BY <1>0
  <2> QED BY <1>s, <2>1, <2>2 DEF CallSlots, IsCall
<1>4. LegSlots'
  <2>1. ASSUME NEW j \in DOMAIN byID', byID[j].kind = "leg"
        PROVE  box'[byID[j].for][byID[j].to] = box[byID[j].for][byID[j].to]
    <3>1. /\ byID[j].for \in Req /\ byID[j].to \in Child
          /\ byID[j].for # r \/ byID[j].to # c
      BY <1>a, <1>s, <2>1, SlotType DEF LegSlots
    <3> QED BY <1>a, <1>e, <3>1
  <2>2. muxID' = muxID /\ leg' = leg
    BY <1>0
  <2> QED BY <1>s, <2>1, <2>2 DEF LegSlots
<1>5. Legs'
  BY <1>0, <1>a, <1>c, <1>d, <1>e DEF Legs
<1>6. Goroutines'
  BY <1>0, <1>a, <1>b, <1>e DEF Goroutines, IsCall
<1>7. \A x \in results : x.to \in Req /\ (e.kind = "call" => x.to # r)
  BY <1>b DEF Results, TypeOK
<1>8. Results'
  BY <1>0, <1>a, <1>b, <1>e, <1>7 DEF Results
<1>9. ResultsMatch'
  BY <1>0, <1>a, <1>b, <1>e DEF ResultsMatch
<1>10. HookIsUnanimous'
  <2>1. ASSUME NEW q \in Req, Tool[q] = "hook"
        PROVE  {y \in results' : y.to = q} = {y \in results : y.to = q}
    <3>1. e.kind = "call" => q # r
      BY <1>b, <2>1, MuxAssumption DEF IsCall
    <3> QED BY <1>a, <1>e, <3>1
  <2> QED BY <1>0, <2>1 DEF HookIsUnanimous
<1>11. Work'
  <2>1. pc' = pc /\ leg' = leg /\ muxID' = muxID
    BY <1>0
  <2> QED BY <1>f, <2>1 DEF Work
<1>12. Covered'
  <2>1. ASSUME NEW q \in Req, IsCall(q), muxID[q][Tool[q]] = i
        PROVE  q = r /\ e.kind = "call"
    BY <1>a, <1>c, <2>1 DEF IdsKnown, IsCall, e, i
  <2>2. e.kind = "call" => replies'[r] # 0
    BY <1>e
  <2>3. \A q \in Req : replies'[q] = 0 => replies[q] = 0
    BY <1>a, <1>b, <1>e
  <2> QED BY <1>0, <1>s, <2>1, <2>2, <2>3 DEF Covered, IsCall
<1>13. NoLeak' /\ UpstreamRouting'
  <2>1. pc' = pc /\ leg' = leg /\ child' = child /\ delivered' = delivered
    BY <1>0
  <2> QED BY <1>s, <2>1 DEF NoLeak, UpstreamRouting
<1> QED
  BY <1>1, <1>2, <1>3, <1>4, <1>5, <1>6, <1>8, <1>9, <1>10, <1>11, <1>12, <1>13

\* The drain takes out and answers every slot routed to the child.
LEMMA DrainStep ==
  ASSUME TypeOK, TypeOK', Inductive, NEW c \in Child, drainChildInflight(c)
  PROVE  Inductive'
<1> USE DEF Inductive
<1> DEFINE ids == {i \in DOMAIN byID : RoutedTo(byID[i], c)}
           calls == {byID[i].for : i \in {j \in ids : byID[j].kind = "call"}}
           legs == {byID[i].for : i \in {j \in ids : byID[j].kind = "leg"}}
<1>0. /\ Forget(ids) /\ Answer(calls) /\ child' = [child EXCEPT ![c] = "drained"]
      /\ box' = [r \in Req |->
                   IF r \in legs /\ box[r][c] = {}
                     THEN [box[r] EXCEPT ![c] = {[is |-> "error", by |-> c, of |-> r]}]
                     ELSE box[r]]
      /\ UNCHANGED <<pc, live, leg, muxID, nextID, run, work, results, removed, up,
                     agentHas, delivered>>
  BY DEF drainChildInflight, upVars, canVars
<1>a. \A q \in calls : q \in Req /\ IsCall(q) /\ replies[q] = 0
                         /\ pc[q] \in {"registered", "writing", "failing", "done"}
  BY SlotType DEF CallSlots
<1>b. \A q \in legs : leg[q][c] \in {"registered", "writing", "failing", "waiting"}
  BY SlotType DEF LegSlots, RoutedTo
<1>s. /\ Shrinks /\ DOMAIN byID' = DOMAIN byID \ ids
      /\ \A j \in DOMAIN byID' : j \in DOMAIN byID /\ j \notin ids /\ byID'[j] = byID[j]
  BY <1>0, ForgetMap DEF Shrinks
<1>k. \A j \in DOMAIN byID' : byID[j].kind # "up" => byID[j].to # c
  BY <1>s DEF RoutedTo
<1>r. /\ \A q \in calls : replies'[q] = 1
      /\ \A q \in Req \ calls : replies'[q] = replies[q]
  <2> HIDE DEF calls
  <2> QED BY <1>0, <1>a DEF Answer
<1>x. \A q \in Req, d \in Child \ {c} : box'[q][d] = box[q][d]
  <2>1. box \in [Req -> [Child -> SUBSET Reply]]
    BY DEF TypeOK
  <2> HIDE DEF legs
  <2> QED BY <1>0, <2>1
<1>y. \A q \in Req : \/ box'[q][c] = box[q][c]
                     \/ /\ q \in legs
                        /\ box'[q][c] = {[is |-> "error", by |-> c, of |-> q]}
  <2>1. box \in [Req -> [Child -> SUBSET Reply]]
    BY DEF TypeOK
  <2> HIDE DEF legs
  <2> QED BY <1>0, <2>1
<1>z. child'[c] = "drained" /\ \A d \in Child \ {c} : child'[d] = child[d]
  BY <1>0 DEF TypeOK
<1>1. IdsKnown' /\ UpSlots' /\ Upstream'
  <2>1. run.op = "reply" => run.to = Owner[run.up]
    BY DEF Upstream
  <2> HIDE DEF ids, calls, legs
  <2> QED BY <1>0, <1>s, <2>1, ShrinkMoves
<1>2. MapsAgree'
  BY <1>0, ForgetAgrees
<1>c. ASSUME NEW q \in Req, IsCall(q), muxID[q][Tool[q]] \in ids
      PROVE  q \in calls
  <2>1. byID[muxID[q][Tool[q]]].kind = "call" /\ byID[muxID[q][Tool[q]]].for = q
    BY <1>c, SlotType, MuxAssumption DEF IdsKnown, IsCall, LegSlots, Legs
  <2> QED BY <1>c, <2>1
<1>d. ASSUME NEW j \in DOMAIN byID', byID[j].kind = "call"
      PROVE  byID[j].for \in Req \ calls
  <2>1. byID[j].for \in Req /\ muxID[byID[j].for][Tool[byID[j].for]] = j /\ j \in DOMAIN byID
    BY <1>d, <1>s, SlotType DEF CallSlots
  <2>2. ASSUME NEW k \in ids, byID[k].kind = "call", byID[k].for = byID[j].for
        PROVE  FALSE
    BY <1>s, <2>1, <2>2 DEF CallSlots
  <2> QED BY <2>1, <2>2
<1> HIDE DEF ids, calls, legs
<1>3. CallSlots'
  <2>1. ASSUME NEW j \in DOMAIN byID', byID[j].kind = "call"
        PROVE  replies'[byID[j].for] = replies[byID[j].for]
    BY <1>d, <1>r, <2>1
  <2>2. pc' = pc /\ muxID' = muxID /\ removed' = removed
    BY <1>0
  <2> QED BY <1>s, <2>1, <2>2 DEF CallSlots, IsCall
<1>4. LegSlots'
  <2>1. ASSUME NEW j \in DOMAIN byID', byID[j].kind = "leg"
        PROVE  box'[byID[j].for][byID[j].to] = box[byID[j].for][byID[j].to]
    BY <1>k, <1>s, <1>x, <2>1, SlotType
  <2>2. muxID' = muxID /\ leg' = leg
    BY <1>0
  <2> QED BY <1>s, <2>1, <2>2 DEF LegSlots
<1>5. Legs'
  <2>1. leg' = leg /\ live' = live /\ pc' = pc
    BY <1>0
  <2>2. ASSUME NEW q \in Req, NEW d \in Child
        PROVE  /\ \A m \in box'[q][d] : m.by = d /\ m.of = q
               /\ leg[q][d] = "ok" => box'[q][d] # {}
               /\ leg[q][d] \in {"none", "todo"} => box'[q][d] = {}
    <3>1. CASE d # c
      BY <1>x, <3>1 DEF Legs
    <3>2. CASE d = c
      BY <1>b, <1>y, <3>2 DEF Legs
    <3> QED BY <3>1, <3>2
  <2> QED BY <2>1, <2>2 DEF Legs
<1>6. Goroutines'
  BY <1>0, <1>a, <1>r DEF Goroutines, IsCall
<1>7. Results' /\ ResultsMatch' /\ HookIsUnanimous' /\ UpstreamRouting'
  <2>1. pc' = pc /\ results' = results /\ live' = live /\ delivered' = delivered
    BY <1>0
  <2>2. \A x \in results : x.to \in Req \ calls
    BY <1>a DEF Results, TypeOK
  <2> QED BY <1>r, <2>1, <2>2 DEF Results, ResultsMatch, HookIsUnanimous, UpstreamRouting
<1>8. Work'
  BY <1>0 DEF Work
<1>9. Covered'
  BY <1>0, <1>a, <1>c, <1>r, <1>s DEF Covered, IsCall
<1>10. NoLeak'
  <2>1. pc' = pc /\ leg' = leg
    BY <1>0
  <2> QED BY <1>k, <1>s, <1>z, <2>1, SlotType DEF NoLeak
<1> QED BY <1>1, <1>2, <1>3, <1>4, <1>5, <1>6, <1>7, <1>8, <1>9, <1>10

\* The agent's response takes its slot out.
LEMMA AgentRespondsStep ==
  ASSUME TypeOK, TypeOK', Inductive, NEW w \in agentHas, AgentResponds(w),
         w.id \in DOMAIN byID
  PROVE  Inductive'
<1> USE DEF Inductive
<1> DEFINE i == w.id
<1>0. /\ Forget({i}) /\ agentHas' = agentHas \ {w}
      /\ run' = [op |-> "reply", to |-> byID[i].to, up |-> w.up]
      /\ UNCHANGED <<child, pc, live, leg, box, muxID, nextID, work, replies, results,
                     removed, up, delivered>>
  BY DEF AgentResponds, procVars, goVars, seenVars, canVars
<1>a. byID[i].kind = "up" /\ byID[i].for = w.up /\ byID[i].to = Owner[w.up]
  BY DEF Upstream, UpSlots
<1> HIDE DEF i
<1>s. /\ Shrinks /\ DOMAIN byID' = DOMAIN byID \ {i}
      /\ \A j \in DOMAIN byID' : j \in DOMAIN byID /\ j # i /\ byID'[j] = byID[j]
  BY <1>0, ForgetMap DEF Shrinks
<1>1. IdsKnown' /\ UpSlots' /\ Upstream'
  BY <1>0, <1>a, <1>s, ShrinkMoves
<1>2. MapsAgree'
  BY <1>0, ForgetAgrees DEF i
<1>3. CallSlots' /\ LegSlots'
  <2>1. /\ pc' = pc /\ leg' = leg /\ box' = box /\ muxID' = muxID /\ replies' = replies
        /\ removed' = removed
    BY <1>0
  <2>2. CallSlots'
    BY <1>s, <2>1 DEF CallSlots, IsCall
  <2>3. LegSlots'
    BY <1>s, <2>1 DEF LegSlots
  <2> QED BY <2>2, <2>3
<1>4. Legs' /\ Goroutines' /\ Work'
  BY <1>0 DEF Legs, Goroutines, Work, IsCall
<1>5. Covered'
  <2>1. ASSUME NEW q \in Req, IsCall(q), muxID[q][Tool[q]] \in DOMAIN byID
        PROVE  muxID[q][Tool[q]] # i
    BY <1>a, <2>1 DEF IdsKnown, IsCall
  <2> QED BY <1>0, <1>s, <2>1 DEF Covered, IsCall
<1>6. Results' /\ ResultsMatch' /\ HookIsUnanimous' /\ UpstreamRouting'
  BY <1>0 DEF Results, ResultsMatch, HookIsUnanimous, UpstreamRouting
<1>7. NoLeak'
  <2>1. pc' = pc /\ leg' = leg /\ child' = child
    BY <1>0
  <2> QED BY <1>s, <2>1 DEF NoLeak
<1> QED BY <1>1, <1>2, <1>3, <1>4, <1>5, <1>6, <1>7

\* A cancel takes the slot with its id out, if there is one.
LEMMA TakeCancelledStep ==
  ASSUME TypeOK, TypeOK', Inductive, TakeCancelled, run.id \in DOMAIN byID
  PROVE  Inductive'
<1> USE DEF Inductive
<1> DEFINE i == run.id
           e == byID[i]
<1>0. /\ Forget({i}) /\ removed' = removed \cup {e.for} /\ run'.op # "reply"
      /\ UNCHANGED <<child, pc, live, leg, box, muxID, nextID, work, replies, results,
                     up, agentHas, delivered>>
  BY DEF TakeCancelled, procVars, goVars, upVars, seenVars
<1>a. e.for \in Req => pc[e.for] \in {"registered", "writing", "failing", "done", "fanning"}
  BY SlotType, MuxAssumption DEF CallSlots, LegSlots, Legs
<1>b. \A j \in DOMAIN byID : byID[j].kind = "call" /\ byID[j].for = e.for => j = i
  <2>1. ASSUME NEW j \in DOMAIN byID, byID[j].kind = "call", byID[j].for = e.for
        PROVE  e.kind = "call"
    <3>1. e.for \in Req /\ IsCall(e.for)
      BY <2>1, SlotType DEF CallSlots
    <3>2. e.kind # "up"
      BY <3>1, SlotType, MuxAssumption
    <3>3. ASSUME e.kind = "leg" PROVE FALSE
      <4>1. e.to \in Child /\ leg[e.for][e.to] # "none"
        BY <3>3, SlotType DEF LegSlots
      <4>2. Tool[e.for] = "hook"
        BY <3>1, <4>1 DEF Legs
      <4> QED BY <3>1, <4>2, MuxAssumption DEF IsCall
    <3> QED BY <3>2, <3>3, SlotType
  <2> QED BY <2>1 DEF CallSlots
<1>c. ASSUME NEW q \in Req, IsCall(q), muxID[q][Tool[q]] = i
      PROVE  e.for = q
  BY <1>c DEF IdsKnown, IsCall
<1> HIDE DEF i, e
<1>s. /\ Shrinks /\ DOMAIN byID' = DOMAIN byID \ {i}
      /\ \A j \in DOMAIN byID' : j \in DOMAIN byID /\ j # i /\ byID'[j] = byID[j]
  BY <1>0, ForgetMap DEF Shrinks
<1>1. IdsKnown' /\ UpSlots' /\ Upstream'
  BY <1>0, <1>s, ShrinkMoves
<1>2. MapsAgree'
  BY <1>0, ForgetAgrees DEF i
<1>3. CallSlots'
  <2>1. pc' = pc /\ muxID' = muxID /\ replies' = replies
    BY <1>0
  <2>2. \A j \in DOMAIN byID' : byID[j].kind = "call" /\ byID[j].for \notin removed =>
           byID[j].for \notin removed'
    BY <1>0, <1>b, <1>s
  <2> QED BY <1>s, <2>1, <2>2 DEF CallSlots, IsCall
<1>4. LegSlots'
  <2>1. leg' = leg /\ box' = box /\ muxID' = muxID
    BY <1>0
  <2> QED BY <1>s, <2>1 DEF LegSlots
<1>5. Legs' /\ Work'
  BY <1>0 DEF Legs, Work
<1>6. Goroutines'
  BY <1>0, <1>a DEF Goroutines, IsCall
<1>7. Covered'
  BY <1>0, <1>c, <1>s DEF Covered, IsCall
<1>8. Results' /\ ResultsMatch' /\ HookIsUnanimous' /\ UpstreamRouting'
  BY <1>0 DEF Results, ResultsMatch, HookIsUnanimous, UpstreamRouting
<1>9. NoLeak'
  <2>1. pc' = pc /\ leg' = leg /\ child' = child
    BY <1>0
  <2> QED BY <1>s, <2>1 DEF NoLeak
<1> QED BY <1>1, <1>2, <1>3, <1>4, <1>5, <1>6, <1>7, <1>8, <1>9

\* Every step keeps Inductive.
LEMMA InductiveStep ==
  ASSUME TypeOK, TypeOK', Inductive, [Next]_vars
  PROVE  Inductive'
<1>u. UpstreamRouting /\ nextID \in Nat
  BY DEF Inductive, TypeOK
<1> USE DEF procVars, goVars, tableVars, upVars, seenVars, canVars
<1>1. CASE CatalogReady
  <2>1. nextID' >= nextID
    BY <1>1, InitCallsAssumption, <1>u DEF CatalogReady
  <2>2. UpstreamRouting'
    BY <1>1, <1>u DEF CatalogReady, UpstreamRouting
  <2> QED BY <1>1, <2>1, <2>2, QuietStep DEF CatalogReady
<1>2. CASE CatalogFailed
  <2>1. \A c \in Child : child'[c] = "drained" => child[c] = "drained"
    BY <1>2 DEF CatalogFailed
  <2>2. UpstreamRouting'
    BY <1>2, <1>u DEF CatalogFailed, UpstreamRouting
  <2> QED BY <1>2, <1>u, <2>1, <2>2, QuietStep DEF CatalogFailed
<1>3. ASSUME NEW r \in Req, AgentRequest(r) \/ CheckAlive(r) \/ AnswerLocally(r) \/ RefuseDead(r)
      PROVE  Inductive'
  <2>1. /\ pc[r] \in {"idle", "waiting"}
        /\ UNCHANGED <<child, live, leg, box, muxID, byID, byKey, nextID, run, work,
                       results, removed, up, agentHas, delivered>>
    BY <1>3 DEF AgentRequest, CheckAlive, AnswerLocally, RefuseDead, Finish
  <2>2. /\ \A q \in Req \ {r} : pc'[q] = pc[q] /\ replies'[q] = replies[q]
        /\ \/ pc'[r] = "waiting" /\ replies'[r] = replies[r]
           \/ pc'[r] = "checked" /\ replies'[r] = replies[r] /\ IsCall(r)
           \/ pc'[r] = "done" /\ replies'[r] = replies[r] + 1
    BY <1>3 DEF AgentRequest, CheckAlive, AnswerLocally, RefuseDead, Finish, Answer, TypeOK
  <2> QED BY <2>1, <2>2, StartStep
<1>4. ASSUME NEW r \in Req, FanOut(r) PROVE Inductive'
  <2> DEFINE alive == {c \in Child : ~ isDead(c)}
  <2>1. CASE alive = {}
    <3>1. /\ pc[r] = "waiting"
          /\ UNCHANGED <<child, live, leg, box, muxID, byID, byKey, nextID, run, work,
                         results, removed, up, agentHas, delivered>>
      BY <1>4, <2>1 DEF FanOut, Finish
    <3>2. /\ \A q \in Req \ {r} : pc'[q] = pc[q] /\ replies'[q] = replies[q]
          /\ pc'[r] = "done" /\ replies'[r] = replies[r] + 1
      BY <1>4, <2>1 DEF FanOut, Finish, Answer, TypeOK
    <3> QED BY <3>1, <3>2, StartStep
  <2>2. CASE alive # {}
    <3>1. /\ pc[r] = "waiting" /\ Tool[r] = "hook"
          /\ pc' = [pc EXCEPT ![r] = "fanning"] /\ live' = [live EXCEPT ![r] = alive]
          /\ leg' = [leg EXCEPT ![r] =
                       [c \in Child |-> IF c \in alive THEN "todo" ELSE "none"]]
          /\ UNCHANGED <<child, box, muxID, byID, byKey, nextID, run, work, replies,
                         results, removed, up, agentHas, delivered>>
      BY <1>4, <2>2 DEF FanOut
    <3>2. alive \in SUBSET Child
      OBVIOUS
    <3> HIDE DEF alive
    <3> QED BY <3>1, <3>2, FanOutStep
  <2> QED BY <2>1, <2>2
<1>5. ASSUME NEW w \in agentHas, AgentResponds(w) PROVE Inductive'
  <2>1. CASE w.id \in DOMAIN byID
    BY <1>5, <2>1, AgentRespondsStep
  <2>2. CASE w.id \notin DOMAIN byID
    <3>1. UpstreamRouting'
      BY <1>5, <1>u DEF AgentResponds, UpstreamRouting
    <3> QED BY <1>5, <1>u, <2>2, <3>1, QuietStep DEF AgentResponds
  <2> QED BY <2>1, <2>2
<1>6. CASE TakeCancelled
  <2>1. CASE run.id \in DOMAIN byID
    BY <1>6, <2>1, TakeCancelledStep
  <2>2. CASE run.id \notin DOMAIN byID
    <3>1. UpstreamRouting' /\ run'.op # "reply"
      BY <1>6, <1>u, <2>2 DEF TakeCancelled, UpstreamRouting
    <3> QED BY <1>6, <1>u, <2>2, <3>1, QuietStep DEF TakeCancelled
  <2> QED BY <2>1, <2>2
<1>7. ASSUME NEW c \in Child, NEW w \in work[c], NEW is \in Outcome, ChildResponds(c, w, is)
      PROVE  Inductive'
  <2>1. CASE w.id \in DOMAIN byID
    BY <1>7, <2>1, DeliverStep
  <2>2. CASE w.id \notin DOMAIN byID
    <3>1. UpstreamRouting' /\ \A d \in Child : work'[d] \subseteq work[d]
      BY <1>7, <1>u, <2>2 DEF ChildResponds, UpstreamRouting, TypeOK
    <3> QED BY <1>7, <1>u, <2>2, <3>1, QuietStep DEF ChildResponds
  <2> QED BY <2>1, <2>2
<1>8. ASSUME NEW c \in Child,
             ChildExits(c) \/ ChildStalls(c) \/ ReadFails(c) \/ ReadsEOF(c)
      PROVE  Inductive'
  <2>1. \A d \in Child : child'[d] = "drained" => child[d] = "drained"
    BY <1>8 DEF ChildExits, ChildStalls, ReadFails, ReadsEOF, TypeOK
  <2>2. UpstreamRouting'
    BY <1>8, <1>u DEF ChildExits, ChildStalls, ReadFails, ReadsEOF, UpstreamRouting
  <2> QED
    BY <1>8, <1>u, <2>1, <2>2, QuietStep DEF ChildExits, ChildStalls, ReadFails, ReadsEOF
<1>9. ASSUME NEW u \in Up, ChildCancels(u) PROVE Inductive'
  <2>1. UpstreamRouting' /\ agentHas' \subseteq agentHas
    BY <1>9, <1>u DEF ChildCancels, UpstreamRouting
  <2> QED BY <1>9, <1>u, <2>1, QuietStep DEF ChildCancels
<1>10. CASE ReplyToChild
  <2>1. UpstreamRouting'
    BY <1>10, <1>u DEF ReplyToChild, UpstreamRouting, Inductive, Upstream
  <2>2. run'.op # "reply"
    BY <1>10 DEF ReplyToChild
  <2> QED BY <1>10, <1>u, <2>1, <2>2, QuietStep DEF ReplyToChild
<1>11. ASSUME NEW r \in Req, AgentCancels(r) PROVE Inductive'
  <2>1. UpstreamRouting' /\ run'.op # "reply"
    BY <1>11, <1>u DEF AgentCancels, UpstreamRouting
  <2> QED BY <1>11, <1>u, <2>1, QuietStep DEF AgentCancels
<1>12. CASE SendCancel \/ WriteCancel
  <2>1. UpstreamRouting' /\ run'.op # "reply"
    BY <1>12, <1>u DEF SendCancel, WriteCancel, UpstreamRouting
  <2>2. \A c \in Child : work'[c] \subseteq work[c]
    BY <1>12 DEF SendCancel, WriteCancel, TypeOK
  <2> QED BY <1>12, <1>u, <2>1, <2>2, QuietStep DEF SendCancel, WriteCancel
<1>13. CASE UNCHANGED vars
  <2>1. UpstreamRouting'
    BY <1>13, <1>u DEF vars, UpstreamRouting
  <2> QED BY <1>13, <1>u, <2>1, QuietStep DEF vars
<1> QED
  BY <1>1, <1>2, <1>3, <1>4, <1>5, <1>6, <1>7, <1>8, <1>9, <1>10, <1>11, <1>12, <1>13,
     RegisterCallStep, SendCallStep, FailCallStep, FanOutDoneStep, RegisterLegStep,
     SendLegStep, AbandonLegStep, LegReceivesStep, DrainStep, ForwardUpStep
  DEF Next, Goroutine, Leg, RunLoop, ReadLoopEnds

\* Inductive holds before the first message.
LEMMA InductiveInit == Init => Inductive
<1> SUFFICES ASSUME Init PROVE Inductive
  OBVIOUS
<1>1. DOMAIN byID = {} /\ DOMAIN byKey = {}
  BY DEF Init, NoKeys
<1>2. IdsKnown /\ CallSlots /\ LegSlots /\ UpSlots /\ MapsAgree /\ NoLeak
  BY <1>1, MuxAssumption DEF Init, IdsKnown, CallSlots, LegSlots, UpSlots, MapsAgree, NoLeak
<1>3. Legs /\ Goroutines /\ Work /\ Upstream /\ Covered
  BY DEF Init, Legs, Goroutines, Work, Upstream, Covered
<1>4. Results /\ ResultsMatch /\ UpstreamRouting
  BY DEF Init, Results, ResultsMatch, UpstreamRouting
<1>5. HookIsUnanimous
  BY DEF Init, HookIsUnanimous
<1> QED BY <1>2, <1>3, <1>4, <1>5 DEF Inductive

\* The table, the goroutines, the children and the agent stay in step: the
\* invariant from which everything below follows.
THEOREM InductiveHolds == Spec => []Inductive
<1>1. TypeOK /\ TypeOK' /\ Inductive /\ [Next]_vars => Inductive'
  BY InductiveStep
<1> QED BY <1>1, TypeCorrect, InductiveInit, PTL DEF Spec

-----------------------------------------------------------------------------
(* The properties. *)

\* Registering, answering, draining, cancelling and failing keep inflightByKey
\* the inverse of inflightByID, whatever order they come in.
THEOREM MapsStayInverse == Spec => []MapsAgree
BY InductiveHolds, PTL DEF Inductive

\* The remapping of ids never hands one request's result to another.
THEOREM ResultsGoHome == Spec => []ResultsMatch
BY InductiveHolds, PTL DEF Inductive

\* An answer of the agent goes to the child that asked.
THEOREM AnswersGoHome == Spec => []UpstreamRouting
BY InductiveHolds, PTL DEF Inductive

\* A drained child leaves nothing in the table but what a send will free.
THEOREM DrainIsThorough == Spec => []NoLeak
BY InductiveHolds, PTL DEF Inductive

\* A hook succeeds only on a result of every child the fan-out started with, none
\* of them timed out, dead or failed; whether the frame shows each is Shown's.
THEOREM HooksAreUnanimous == Spec => []HookIsUnanimous
BY InductiveHolds, PTL DEF Inductive

\* The error frames of the drain and of a failed send never follow a result.
THEOREM ResultsAreFinal == Spec => []ResultIsFinal
<1>1. Inductive => ResultIsFinal
  BY DEF Inductive, Results, ResultIsFinal
<1> QED BY <1>1, InductiveHolds, PTL

\* A call that waits for its answer has a slot that a response or a drain of a
\* read loop still running will find.
THEOREM NothingForgotten == Spec => []NoneForgotten
<1>1. ASSUME TypeOK, Inductive PROVE NoneForgotten
  <2> SUFFICES ASSUME NEW r \in Req, IsCall(r), pc[r] = "done", replies[r] = 0,
                      r \notin removed
               PROVE  LET i == muxID[r][Tool[r]] IN
                        /\ i \in DOMAIN byID
                        /\ byID[i] = [kind |-> "call", for |-> r, to |-> Tool[r]]
                        /\ child[Tool[r]] # "drained"
    BY DEF NoneForgotten
  <2> DEFINE i == muxID[r][Tool[r]]
  <2>1. i \in DOMAIN byID
    BY <1>1 DEF Inductive, Covered
  <2>2. byID[i].for = r /\ byID[i].to = Tool[r] /\ byID[i].kind # "up"
    BY <1>1, <2>1 DEF Inductive, IdsKnown, IsCall
  <2>3. byID[i].kind # "leg"
    BY <1>1, <2>1, <2>2, MuxAssumption DEF Inductive, LegSlots, Legs, IsCall
  <2>4. byID[i] \in Entry /\ byID[i].kind = "call"
    BY <1>1, <2>1, <2>2, <2>3, SlotType
  <2>5. byID[i] = [kind |-> "call", for |-> r, to |-> Tool[r]]
    BY <2>2, <2>4 DEF Entry
  <2>6. child[Tool[r]] # "drained"
    BY <1>1, <2>1, <2>2, <2>4 DEF Inductive, NoLeak
  <2> QED BY <2>1, <2>5, <2>6
<1> QED BY <1>1, TypeCorrect, InductiveHolds, PTL

-----------------------------------------------------------------------------
(* Cancels.                                                                *)

\* A step adds one slot under the next id, or only takes slots out.
TableMoves ==
  \/ Shrinks /\ nextID' \in Nat /\ nextID' >= nextID
  \/ \E e \in Entry : Register(e)

LEMMA SameTable ==
  ASSUME TypeOK, UNCHANGED <<byID, nextID>>
  PROVE  TableMoves
BY DEF TableMoves, Shrinks, TypeOK

LEMMA DeleteShrinks ==
  ASSUME TypeOK, NEW ids, byID' = Delete(byID, ids), nextID' = nextID
  PROVE  TableMoves
<1>1. Shrinks
  BY DeleteMap DEF Shrinks, Delete
<1> QED BY <1>1 DEF TableMoves, TypeOK

LEMMA EntryKinds ==
  /\ \A r \in Req, c \in Child :
       /\ [kind |-> "call", for |-> r, to |-> c] \in Entry
       /\ [kind |-> "leg", for |-> r, to |-> c] \in Entry
  /\ \A u \in Up, c \in Child : [kind |-> "up", for |-> u, to |-> c] \in Entry
BY DEF Entry

\* The steps that no cancel is part of.
LEMMA OtherStep ==
  ASSUME TypeOK, Inductive, [Next]_vars,
         \A r \in Req : ~ AgentCancels(r), ~ RunLoop,
         \A u \in Up : ~ ChildCancels(u) /\ ~ forwardChildRequest(u),
         \A w \in agentHas : ~ AgentResponds(w)
  PROVE  /\ UNCHANGED <<run, agentHas, askedUp, withdrawn, asked, removed>>
         /\ TableMoves
<1> USE DEF procVars, goVars, tableVars, upVars, seenVars, canVars
<1>1. CASE CatalogReady
  <2>1. Shrinks /\ nextID' \in Nat /\ nextID' >= nextID
    BY <1>1, InitCallsAssumption DEF CatalogReady, Shrinks, TypeOK
  <2> QED BY <1>1, <2>1 DEF CatalogReady, TableMoves
<1>2. CASE CatalogFailed
  BY <1>2, SameTable DEF CatalogFailed
<1>3. ASSUME NEW r \in Req, AgentRequest(r) \/ Goroutine(r), ~ RegisterCall(r)
      PROVE  /\ UNCHANGED <<run, agentHas, askedUp, withdrawn, asked, removed>>
             /\ TableMoves
  <2>1. UNCHANGED <<run, agentHas, askedUp, withdrawn, asked, removed>>
    BY <1>3 DEF AgentRequest, Goroutine, AnswerLocally, RefuseDead, CheckAlive,
       SendCall, WriteCall, FailCall, FanOut, FanOutDone, Finish
  <2>2. CASE FailCall(r)
    BY <2>2, DeleteShrinks DEF FailCall, Finish
  <2>3. CASE ~ FailCall(r)
    <3>1. UNCHANGED <<byID, nextID>>
      BY <1>3, <2>3 DEF AgentRequest, Goroutine, AnswerLocally, RefuseDead,
         CheckAlive, SendCall, WriteCall, FanOut, FanOutDone, Finish
    <3> QED BY <2>1, <3>1, SameTable
  <2> QED BY <2>1, <2>2, <2>3
<1>4. ASSUME NEW r \in Req, RegisterCall(r)
      PROVE  /\ UNCHANGED <<run, agentHas, askedUp, withdrawn, asked, removed>>
             /\ TableMoves
  <2>1. Tool[r] \in Child
    BY <1>4 DEF RegisterCall, Inductive, Goroutines, IsCall
  <2> QED BY <1>4, <2>1, EntryKinds DEF RegisterCall, TableMoves
<1>5. ASSUME NEW r \in Req, NEW c \in Child, Leg(r, c)
      PROVE  /\ UNCHANGED <<run, agentHas, askedUp, withdrawn, asked, removed>>
             /\ TableMoves
  <2>1. CASE RegisterLeg(r, c)
    BY <2>1, EntryKinds DEF RegisterLeg, TableMoves
  <2>2. CASE AbandonLeg(r, c)
    BY <2>2, DeleteShrinks DEF AbandonLeg
  <2>3. CASE SendLeg(r, c) \/ WriteLeg(r, c) \/ LegReceives(r, c)
    BY <2>3, SameTable DEF SendLeg, WriteLeg, LegReceives
  <2> QED BY <1>5, <2>1, <2>2, <2>3 DEF Leg
<1>6. ASSUME NEW c \in Child,
             \/ ChildExits(c) \/ ChildStalls(c) \/ ReadFails(c) \/ ReadsEOF(c)
      PROVE  /\ UNCHANGED <<run, agentHas, askedUp, withdrawn, asked, removed>>
             /\ TableMoves
  BY <1>6, SameTable DEF ChildExits, ChildStalls, ReadFails, ReadsEOF
<1>7. ASSUME NEW c \in Child, drainChildInflight(c)
      PROVE  /\ UNCHANGED <<run, agentHas, askedUp, withdrawn, asked, removed>>
             /\ TableMoves
  BY <1>7, DeleteShrinks DEF drainChildInflight, Forget
<1>8. ASSUME NEW c \in Child, NEW w \in work[c], NEW is \in Outcome,
             ChildResponds(c, w, is)
      PROVE  /\ UNCHANGED <<run, agentHas, askedUp, withdrawn, asked, removed>>
             /\ TableMoves
  <2>1. CASE w.id \in DOMAIN byID
    BY <1>8, <2>1, DeleteShrinks DEF ChildResponds, Forget
  <2>2. CASE w.id \notin DOMAIN byID
    BY <1>8, <2>2, SameTable DEF ChildResponds
  <2> QED BY <1>8, <2>1, <2>2 DEF ChildResponds
<1>9. CASE UNCHANGED vars
  BY <1>9, SameTable DEF vars
<1> QED BY <1>1, <1>2, <1>3, <1>4, <1>5, <1>6, <1>7, <1>8, <1>9
        DEF Next, ReadLoopEnds

\* While the run loop holds the id of a slot it found, nobody else's slot gets
\* that id.
LEMMA HeldID ==
  ASSUME TypeOK, FoundKnown, TableMoves, run' = run
  PROVE  FoundKnown'
<1>0. nextID \in Nat
  BY DEF TypeOK
<1>1. CASE Shrinks /\ nextID' \in Nat /\ nextID' >= nextID
  BY <1>0, <1>1 DEF Shrinks, FoundKnown
<1>2. CASE \E e \in Entry : Register(e)
  <2>1. /\ nextID' = nextID + 1
        /\ DOMAIN byID' = DOMAIN byID \cup {nextID'}
        /\ \A i \in DOMAIN byID : byID'[i] = byID[i]
    BY <1>2, RegisterMap
  <2> QED BY <1>0, <2>1 DEF FoundKnown
<1> QED BY <1>1, <1>2 DEF TableMoves

\* The exact half of a step: what the run loop takes out at a found cancel, and
\* what the agent drops at a child's, is the request the cancel is about.
TakesOwn == run.op = "cancel" /\ run.found => removed' \subseteq removed \cup {run.for}
DropsOwn ==
  \A u \in askedUp' \ askedUp :
    u \in DOMAIN byKey => withdrawn' \subseteq withdrawn \cup {u}

\* A child's cancel of a request that is in the table reaches that request, or
\* the agent has answered it.
LEMMA ChildCancelsOwn ==
  ASSUME TypeOK, Inductive, FoundKnown, NEW u \in Up, ChildCancels(u)
  PROVE  FoundKnown' /\ TakesOwn /\ DropsOwn
<1> USE DEF procVars, goVars, seenVars, upVars, canVars, tableVars
<1> DEFINE id == IF u \in DOMAIN byKey THEN byKey[u] ELSE LocalId[u]
           hit == {w \in agentHas : w.id = id}
<1>1. ASSUME u \in DOMAIN byKey, NEW w \in hit PROVE w.up = u
  <2>1. byKey[u] \in DOMAIN byID /\ byID[byKey[u]].for = u
    BY <1>1, KeyHolder DEF Inductive
  <2> QED BY <1>1, <2>1 DEF Inductive, Upstream
<1> HIDE DEF id
<1>2. PICK gone \in {{}, hit} : withdrawn' = withdrawn \cup {w.up : w \in gone}
  BY DEF ChildCancels, id
<1>3. askedUp' = askedUp \cup {u} /\ UNCHANGED <<run, removed, byID, nextID>>
  BY DEF ChildCancels
<1>4. DropsOwn
  BY <1>1, <1>2, <1>3 DEF DropsOwn
<1> QED BY <1>3, <1>4 DEF FoundKnown, TakesOwn

\* Every step: a cancel that found its slot takes that slot or none.
LEMMA CancelStep ==
  ASSUME TypeOK, TypeOK', Inductive, FoundKnown, [Next]_vars
  PROVE  FoundKnown' /\ TakesOwn /\ DropsOwn
<1> USE DEF procVars, goVars, tableVars, upVars, seenVars, canVars
<1>0. nextID \in Nat /\ DOMAIN byID \subseteq 1..nextID
  BY DEF TypeOK
<1>1. ASSUME NEW r \in Req, AgentCancels(r) PROVE FoundKnown' /\ TakesOwn /\ DropsOwn
  <2>1. /\ run.op = "read"
        /\ run' = [op |-> "cancel", for |-> r, found |-> r \in DOMAIN byKey,
                   id |-> IF r \in DOMAIN byKey THEN byKey[r] ELSE r]
        /\ UNCHANGED <<byID, nextID, removed, askedUp, withdrawn>>
    BY <1>1 DEF AgentCancels
  <2>2. r \in DOMAIN byKey => byKey[r] \in DOMAIN byID /\ byID[byKey[r]].for = r
    BY KeyHolder DEF Inductive
  <2> QED BY <1>0, <2>1, <2>2 DEF FoundKnown, TakesOwn, DropsOwn
<1>2. CASE TakeCancelled
  <2>1. /\ run.op = "cancel" /\ run'.op # "cancel"
        /\ UNCHANGED <<askedUp, withdrawn>>
        /\ removed' = removed \/ (run.id \in DOMAIN byID
                                  /\ removed' = removed \cup {byID[run.id].for})
    BY <1>2 DEF TakeCancelled
  <2> QED BY <2>1 DEF FoundKnown, TakesOwn, DropsOwn
<1>3. CASE ReplyToChild \/ SendCancel \/ WriteCancel
  BY <1>3 DEF ReplyToChild, SendCancel, WriteCancel, FoundKnown, TakesOwn, DropsOwn
<1>4. ASSUME NEW u \in Up, ChildCancels(u) PROVE FoundKnown' /\ TakesOwn /\ DropsOwn
  BY <1>4, ChildCancelsOwn
<1>5. ASSUME NEW u \in Up, forwardChildRequest(u)
      PROVE  FoundKnown' /\ TakesOwn /\ DropsOwn
  <2>1. /\ UNCHANGED <<run, askedUp, withdrawn, removed>>
        /\ Register([kind |-> "up", for |-> u, to |-> Owner[u]])
    BY <1>5 DEF forwardChildRequest
  <2>2. [kind |-> "up", for |-> u, to |-> Owner[u]] \in Entry
    BY EntryKinds, MuxAssumption
  <2>3. FoundKnown'
    BY <2>1, <2>2, HeldID DEF TableMoves
  <2> QED BY <2>1, <2>3 DEF TakesOwn, DropsOwn
<1>6. ASSUME NEW w \in agentHas, AgentResponds(w)
      PROVE  FoundKnown' /\ TakesOwn /\ DropsOwn
  <2>1. UNCHANGED <<askedUp, removed>> /\ run'.op # "cancel"
    BY <1>6 DEF AgentResponds
  <2> QED BY <2>1 DEF FoundKnown, TakesOwn, DropsOwn
<1>7. CASE /\ \A r \in Req : ~ AgentCancels(r)
           /\ ~ RunLoop
           /\ \A u \in Up : ~ ChildCancels(u) /\ ~ forwardChildRequest(u)
           /\ \A w \in agentHas : ~ AgentResponds(w)
  <2>1. /\ UNCHANGED <<run, agentHas, askedUp, withdrawn, asked, removed>>
        /\ TableMoves
    BY <1>7, OtherStep
  <2>2. FoundKnown'
    BY <2>1, HeldID
  <2> QED BY <2>1, <2>2 DEF TakesOwn, DropsOwn
<1> QED BY <1>1, <1>2, <1>3, <1>4, <1>5, <1>6, <1>7 DEF RunLoop

\* Whatever ids the agent and the children use, a cancel whose request is in the
\* table frees the slot of that request and of no other, though the table goes
\* through answers, drains and registrations between the cancel's two critical
\* sections.
THEOREM CancelsAreExact == Spec => FoundCancelIsExact
<1>1. Init => FoundKnown
  BY DEF Init, FoundKnown
<1>2. TypeOK /\ TypeOK' /\ Inductive /\ FoundKnown /\ [Next]_vars => FoundKnown'
  BY CancelStep
<1>3. TypeOK /\ TypeOK' /\ Inductive /\ FoundKnown /\ [Next]_vars
      => [/\ run.op = "cancel" /\ run.found =>
                removed' \subseteq removed \cup {run.for}
          /\ \A u \in askedUp' \ askedUp :
                u \in DOMAIN byKey => withdrawn' \subseteq withdrawn \cup {u}]_vars
  BY CancelStep DEF TakesOwn, DropsOwn
<1> QED
  BY <1>1, <1>2, <1>3, TypeCorrect, InductiveHolds, PTL DEF Spec, FoundCancelIsExact

-----------------------------------------------------------------------------
(* How many mux ids there can be.                                          *)

\* A first id for a goroutine is one slot more.
LEMMA SlotAdded ==
  ASSUME TypeOK, NEW r \in Req, NEW c \in Child, NEW i \in Nat, i # 0,
         muxID[r][c] = 0, IsFiniteSet(Slots),
         muxID' = [muxID EXCEPT ![r] = [muxID[r] EXCEPT ![c] = i]]
  PROVE  Cardinality(Slots') = Cardinality(Slots) + 1
<1>1. Slots' = Slots \cup {<<r, c>>}
  <2>1. ASSUME NEW p \in Req \X Child
        PROVE  p \in Slots' <=> p \in Slots \/ p = <<r, c>>
    <3>1. PICK q \in Req, d \in Child : p = <<q, d>>
      OBVIOUS
    <3>2. CASE q = r /\ d = c
      <4>1. muxID'[r][c] = i
        BY DEF TypeOK
      <4>2. p = <<r, c>> /\ p[1] = r /\ p[2] = c
        BY <3>1, <3>2
      <4> QED BY <4>1, <4>2 DEF Slots
    <3>3. CASE q # r \/ d # c
      BY <3>1, <3>3, MuxIDMove DEF Slots
    <3> QED BY <3>2, <3>3
  <2>2. Slots' \subseteq Req \X Child /\ Slots \subseteq Req \X Child
    BY DEF Slots
  <2> QED BY <2>1, <2>2
<1>2. <<r, c>> \notin Slots
  BY DEF Slots
<1> QED BY <1>1, <1>2, FS_AddElement

\* The steps that give out no id.
LEMMA QuietCount ==
  ASSUME TypeOK, Inductive, Counted, UNCHANGED <<muxID, nextID, up, catalog>>,
         \A r \in Req : pc'[r] \in {"idle", "waiting", "checked"} =>
                          pc[r] \in {"idle", "waiting", "checked"},
         \A r \in Req, c \in Child : leg'[r][c] \in {"none", "todo"} =>
           leg[r][c] \in {"none", "todo"} \/ pc[r] = "waiting"
  PROVE  Counted'
<1>1. Allocated'
  <2>1. Slots' = Slots
    BY DEF Slots
  <2> QED BY <2>1 DEF Counted, Allocated
<1>2. NotYet'
  BY DEF Counted, NotYet
<1> QED BY <1>1, <1>2 DEF Counted

LEMMA RegisterCount ==
  ASSUME TypeOK, Inductive, Counted, IsFiniteSet(Slots), IsFiniteSet(up),
         NEW r \in Req, NEW c \in Child, NEW e, Register(e),
         muxID' = [muxID EXCEPT ![r] = [muxID[r] EXCEPT ![c] = nextID']],
         muxID[r][c] = 0, up' = up, catalog' = catalog,
         \/ /\ pc[r] = "checked" /\ c = Tool[r] /\ leg' = leg
            /\ pc' = [pc EXCEPT ![r] = "registered"]
         \/ /\ leg[r][c] = "todo" /\ pc' = pc /\ LegGoes(r, c, "registered")
  PROVE  Counted'
<1>1. nextID' = nextID + 1 /\ nextID \in Nat
  BY DEF Register, TypeOK
<1>2. Allocated'
  <2>1. Cardinality(Slots') = Cardinality(Slots) + 1
    <3>1. nextID' \in Nat /\ nextID' # 0
      BY <1>1
    <3> QED BY <3>1, SlotAdded
  <2>2. /\ Cardinality(Slots) \in Nat
        /\ nextID = (IF catalog = "ready" THEN InitCalls ELSE 0)
                      + Cardinality(Slots) + Cardinality(up)
    BY FS_CardinalityType DEF Counted, Allocated
  <2>3. IsFiniteSet(up) => Cardinality(up) \in Nat
    BY FS_CardinalityType
  <2> QED BY <1>1, <2>1, <2>2, <2>3, InitCallsAssumption DEF Allocated
<1>3. NotYet'
  <2> SUFFICES ASSUME NEW q \in Req, NEW d \in Child,
                      \/ pc'[q] \in {"idle", "waiting", "checked"}
                      \/ Tool[q] = "hook" /\ leg'[q][d] \in {"none", "todo"}
               PROVE  muxID'[q][d] = 0
    BY DEF NotYet
  <2>1. CASE q = r /\ d = c
    <3>1. CASE leg[r][c] = "todo" /\ LegGoes(r, c, "registered") /\ pc' = pc
      <4>1. leg'[r][c] = "registered" /\ pc[r] \in {"fanning", "done"}
        BY <3>1, LegMove DEF Inductive, Legs
      <4> QED BY <2>1, <3>1, <4>1
    <3>2. CASE pc[r] = "checked" /\ pc' = [pc EXCEPT ![r] = "registered"]
      <4>1. Tool[r] # "hook" /\ pc'[r] = "registered"
        BY <3>2, MuxAssumption DEF Inductive, Goroutines, IsCall, TypeOK
      <4> QED BY <2>1, <4>1
    <3> QED BY <3>1, <3>2
  <2>2. CASE ~ (q = r /\ d = c)
    <3>1. muxID'[q][d] = muxID[q][d]
      BY <2>2, <1>1, MuxIDMove
    <3>2. leg'[q][d] = leg[q][d]
      BY <2>2, LegMove
    <3>3. pc'[q] = pc[q] \/ (pc[q] = "checked" /\ pc'[q] = "registered")
      BY DEF TypeOK
    <3> QED BY <3>1, <3>2, <3>3 DEF Counted, NotYet
  <2> QED BY <2>1, <2>2
<1> QED BY <1>2, <1>3 DEF Counted

LEMMA CountStep ==
  ASSUME TypeOK, Inductive, Counted, [Next]_vars,
         IsFiniteSet(Req), IsFiniteSet(Child), IsFiniteSet(Up)
  PROVE  Counted'
<1> USE DEF procVars, goVars, tableVars, upVars, seenVars, canVars
<1>0. /\ IsFiniteSet(Slots) /\ IsFiniteSet(up)
      /\ Cardinality(Slots) \in Nat /\ Cardinality(up) \in Nat
  <2>1. IsFiniteSet(Req \X Child)
    BY FS_Product
  <2>2. Slots \in SUBSET (Req \X Child) /\ up \in SUBSET Up
    BY DEF Slots, TypeOK
  <2> QED BY <2>1, <2>2, FS_Subset, FS_CardinalityType
<1>1. CASE CatalogReady
  <2>1. Slots' = Slots
    BY <1>1 DEF CatalogReady, Slots
  <2>2. /\ catalog = "pending" /\ catalog' = "ready" /\ up' = up
        /\ nextID' = nextID + InitCalls
    BY <1>1 DEF CatalogReady
  <2>3. NotYet'
    BY <1>1 DEF CatalogReady, Counted, NotYet
  <2>4. Allocated'
    BY <1>0, <2>1, <2>2, InitCallsAssumption DEF Counted, Allocated
  <2> QED BY <2>3, <2>4 DEF Counted
<1>2. CASE CatalogFailed
  <2>1. Slots' = Slots
    BY <1>2 DEF CatalogFailed, Slots
  <2>2. Allocated' /\ NotYet'
    BY <1>2, <2>1 DEF CatalogFailed, Counted, Allocated, NotYet
  <2> QED BY <2>2 DEF Counted
<1>3. ASSUME NEW r \in Req, RegisterCall(r) PROVE Counted'
  <2>1. Tool[r] \in Child
    BY <1>3 DEF RegisterCall, Inductive, Goroutines, IsCall
  <2>2. muxID[r][Tool[r]] = 0
    BY <1>3, <2>1 DEF RegisterCall, Counted, NotYet
  <2> QED BY <1>0, <1>3, <2>1, <2>2, RegisterCount DEF RegisterCall
<1>4. ASSUME NEW r \in Req, NEW c \in Child, RegisterLeg(r, c) PROVE Counted'
  <2>1. muxID[r][c] = 0
    BY <1>4 DEF RegisterLeg, Counted, NotYet, Inductive, Legs
  <2> QED BY <1>0, <1>4, <2>1, RegisterCount DEF RegisterLeg
<1>5. ASSUME NEW u \in Up, forwardChildRequest(u) PROVE Counted'
  <2>1. /\ up' = up \cup {u} /\ u \notin up /\ nextID' = nextID + 1
        /\ UNCHANGED <<muxID, catalog, pc, leg>>
    BY <1>5 DEF forwardChildRequest, Register
  <2>2. Cardinality(up') = Cardinality(up) + 1
    BY <1>0, <2>1, FS_AddElement
  <2>3. Slots' = Slots
    BY <2>1 DEF Slots
  <2>4. Allocated'
    BY <1>0, <2>1, <2>2, <2>3, InitCallsAssumption DEF Counted, Allocated
  <2>5. NotYet'
    BY <2>1 DEF Counted, NotYet
  <2> QED BY <2>4, <2>5 DEF Counted
<1>6. ASSUME NEW r \in Req, AgentRequest(r) \/ Goroutine(r), ~ RegisterCall(r)
      PROVE  Counted'
  <2>1. UNCHANGED <<muxID, nextID, up, catalog>>
    BY <1>6 DEF AgentRequest, Goroutine, AnswerLocally, RefuseDead, CheckAlive,
       SendCall, WriteCall, FailCall, FanOut, FanOutDone, Finish
  <2>2. \A q \in Req : pc'[q] \in {"idle", "waiting", "checked"} =>
                         pc[q] \in {"idle", "waiting", "checked"}
    BY <1>6 DEF AgentRequest, Goroutine, AnswerLocally, RefuseDead, CheckAlive,
       SendCall, WriteCall, FailCall, FanOut, FanOutDone, Finish, TypeOK
  <2>3. \A q \in Req, c \in Child : leg'[q][c] \in {"none", "todo"} =>
           leg[q][c] \in {"none", "todo"} \/ pc[q] = "waiting"
    <3>1. CASE FanOut(r)
      <4>1. \A q \in Req : q # r => leg'[q] = leg[q]
        BY <3>1 DEF FanOut, TypeOK
      <4>2. pc[r] = "waiting"
        BY <3>1 DEF FanOut
      <4> QED BY <4>1, <4>2
    <3>2. CASE ~ FanOut(r)
      <4>1. leg' = leg
        BY <1>6, <3>2 DEF AgentRequest, Goroutine, AnswerLocally, RefuseDead,
           CheckAlive, SendCall, WriteCall, FailCall, FanOutDone, Finish
      <4> QED BY <4>1
    <3> QED BY <3>1, <3>2
  <2> QED BY <2>1, <2>2, <2>3, QuietCount
<1>7. ASSUME NEW r \in Req, NEW c \in Child, Leg(r, c), ~ RegisterLeg(r, c)
      PROVE  Counted'
  <2>1. UNCHANGED <<muxID, nextID, up, catalog, pc>>
    BY <1>7 DEF Leg, SendLeg, WriteLeg, AbandonLeg, LegReceives
  <2>2. PICK s \in {"writing", "waiting", "failing", "error", "ok"} : LegGoes(r, c, s)
    BY <1>7 DEF Leg, SendLeg, WriteLeg, AbandonLeg, LegReceives
  <2>3. \A q \in Req, d \in Child : leg'[q][d] \in {"none", "todo"} =>
           leg[q][d] \in {"none", "todo"}
    <3> SUFFICES ASSUME NEW q \in Req, NEW d \in Child,
                        leg'[q][d] \in {"none", "todo"}
                 PROVE  leg'[q][d] = leg[q][d]
      OBVIOUS
    <3> QED BY <2>2, LegMove
  <2> QED BY <2>1, <2>3, QuietCount
<1>8. ASSUME UNCHANGED <<muxID, nextID, up, catalog, pc, leg>> PROVE Counted'
  BY <1>8, QuietCount
<1>9. ASSUME NEW c \in Child,
             \/ ChildExits(c) \/ ChildStalls(c) \/ ReadFails(c) \/ ReadLoopEnds(c)
             \/ \E w \in work[c], is \in Outcome : ChildResponds(c, w, is)
      PROVE  Counted'
  BY <1>8, <1>9 DEF ChildExits, ChildStalls, ReadFails, ReadLoopEnds, ReadsEOF,
     drainChildInflight, ChildResponds
<1>10. ASSUME \/ RunLoop \/ \E r \in Req : AgentCancels(r)
              \/ \E u \in Up : ChildCancels(u)
              \/ \E w \in agentHas : AgentResponds(w)
              \/ UNCHANGED vars
       PROVE  Counted'
  BY <1>8, <1>10 DEF RunLoop, ReplyToChild, TakeCancelled, SendCancel, WriteCancel,
     AgentCancels, ChildCancels, AgentResponds, vars
<1> QED BY <1>1, <1>2, <1>3, <1>4, <1>5, <1>6, <1>7, <1>9, <1>10 DEF Next

\* Every mux id belongs to initChildren, to a call, to a leg of a hook or to an
\* upstream request, and none of them ever takes a second one.
THEOREM IdsCounted ==
  ASSUME IsFiniteSet(Req), IsFiniteSet(Child), IsFiniteSet(Up)
  PROVE  Spec => []Allocated
<1>1. Init => Counted
  <2> SUFFICES ASSUME Init PROVE Counted
    OBVIOUS
  <2>1. Slots = {} /\ up = {} /\ nextID = 0 /\ catalog = "pending"
    BY DEF Init, Slots
  <2>2. NotYet
    BY DEF Init, NotYet
  <2> QED BY <2>1, <2>2, FS_EmptySet DEF Counted, Allocated
<1>2. TypeOK /\ Inductive /\ Counted /\ [Next]_vars => Counted'
  BY CountStep
<1>3. Counted => Allocated
  BY DEF Counted
<1> QED BY <1>1, <1>2, <1>3, TypeCorrect, InductiveHolds, PTL DEF Spec
=============================================================================
