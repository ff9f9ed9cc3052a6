----------------------------- MODULE MuxProofs -----------------------------
(***************************************************************************)
(* Proofs about the multiplexer, for any number of children and requests.  *)
(***************************************************************************)
EXTENDS Mux, TLAPS

-----------------------------------------------------------------------------
(* Go maps. *)

\* What an assignment to a map entry leaves in the map.
LEMMA PutMap ==
  ASSUME NEW m, NEW k, NEW v
  PROVE  /\ DOMAIN Put(m, k, v) = DOMAIN m \cup {k}
         /\ Put(m, k, v)[k] = v
         /\ \A x \in DOMAIN m : x # k => Put(m, k, v)[x] = m[x]
BY DEF Put

\* What a delete leaves in the map.
LEMMA DeleteMap ==
  ASSUME NEW m, NEW ks
  PROVE  /\ DOMAIN Delete(m, ks) = DOMAIN m \ ks
         /\ \A x \in DOMAIN m \ ks : Delete(m, ks)[x] = m[x]
BY DEF Delete

\* An assignment of a value of the map's type keeps the map's type.
LEMMA PutType ==
  ASSUME NEW D, NEW S, NEW m \in [D -> S], NEW k, NEW v \in S
  PROVE  Put(m, k, v) \in [DOMAIN Put(m, k, v) -> S]
BY DEF Put

\* So does a delete.
LEMMA DeleteType ==
  ASSUME NEW D, NEW S, NEW m \in [D -> S], NEW ks
  PROVE  Delete(m, ks) \in [DOMAIN Delete(m, ks) -> S]
BY DEF Delete

-----------------------------------------------------------------------------
(* Type correctness. *)

\* The maps' part of TypeOK.
TableOK ==
  /\ nextID \in Nat
  /\ DOMAIN byID \subseteq 1..nextID
  /\ byID \in [DOMAIN byID -> Entry]
  /\ DOMAIN byKey \subseteq Req \cup Up
  /\ byKey \in [DOMAIN byKey -> 1..nextID]

\* Taking entries out of the table keeps its type.
LEMMA RemoveType ==
  ASSUME TableOK, NEW ids, NEW ks, nextID' = nextID,
         byID' = Delete(byID, ids), byKey' = Delete(byKey, ks)
  PROVE  TableOK'
<1>1. byID' \in [DOMAIN byID' -> Entry] /\ DOMAIN byID' \subseteq DOMAIN byID
  BY DeleteType, DeleteMap DEF TableOK
<1>2. byKey' \in [DOMAIN byKey' -> 1..nextID] /\ DOMAIN byKey' \subseteq DOMAIN byKey
  BY DeleteType, DeleteMap DEF TableOK
<1> QED BY <1>1, <1>2 DEF TableOK

\* A leg has no key: its entry leaves inflightByID alone.
LEMMA RemoveLegType ==
  ASSUME TableOK, NEW ids, nextID' = nextID,
         byID' = Delete(byID, ids), byKey' = byKey
  PROVE  TableOK'
<1>1. byID' \in [DOMAIN byID' -> Entry] /\ DOMAIN byID' \subseteq DOMAIN byID
  BY DeleteType, DeleteMap DEF TableOK
<1> QED BY <1>1 DEF TableOK

\* Forgetting slots keeps the table's type.
LEMMA ForgetType ==
  ASSUME TableOK, NEW ids, Forget(ids), nextID' = nextID
  PROVE  TableOK'
BY RemoveType DEF Forget

\* What an entry is made of.
LEMMA EntryFor ==
  ASSUME NEW e \in Entry
  PROVE  e.for \in Req \cup Up /\ e.to \in Child
BY DEF Entry

\* An entry with a toChild is a request of the agent.
LEMMA EntryOfRequest ==
  ASSUME NEW e \in Entry, e.kind # "up"
  PROVE  e.for \in Req
BY DEF Entry

\* So does registering an entry.
LEMMA RegisterType ==
  ASSUME TableOK, NEW e \in Entry, Register(e)
  PROVE  TableOK'
<1>1. nextID' \in Nat /\ nextID' = nextID + 1
  BY DEF TableOK, Register
<1>2. byID' \in [DOMAIN byID' -> Entry] /\ DOMAIN byID' = DOMAIN byID \cup {nextID'}
  BY PutType, PutMap DEF TableOK, Register
<1>3. byKey \in [DOMAIN byKey -> 1..nextID']
  BY <1>1 DEF TableOK
<1>4. CASE e.kind = "leg"
  BY <1>1, <1>2, <1>3, <1>4 DEF TableOK, Register
<1>5. CASE e.kind # "leg"
  <2>1. nextID' \in 1..nextID'
    BY <1>1 DEF TableOK
  <2>2. byKey' = Put(byKey, e.for, nextID')
    BY <1>5 DEF Register
  <2>3. byKey' \in [DOMAIN byKey' -> 1..nextID']
    BY <1>3, <2>1, <2>2, PutType
  <2>4. DOMAIN byKey' \subseteq Req \cup Up
    <3>1. e.for \in Req \cup Up
      BY EntryFor
    <3>2. DOMAIN byKey' = DOMAIN byKey \cup {e.for}
      BY <2>2 DEF Put
    <3>3. DOMAIN byKey \subseteq Req \cup Up
      BY DEF TableOK
    <3> QED BY <3>1, <3>2, <3>3
  <2> QED BY <1>1, <1>2, <2>3, <2>4 DEF TableOK
<1> QED BY <1>4, <1>5

\* The variables the small steps update keep their types.
LEMMA AnswerType ==
  ASSUME replies \in [Req -> Nat], NEW rs, Answer(rs)
  PROVE  replies' \in [Req -> Nat]
BY DEF Answer

\* A leg that moves to another state keeps the type of leg.
LEMMA LegType ==
  ASSUME leg \in [Req -> [Child -> LegState]], NEW r \in Req, NEW c \in Child,
         NEW s \in LegState, LegGoes(r, c, s)
  PROVE  leg' \in [Req -> [Child -> LegState]]
BY DEF LegGoes

\* So does handing a request to a child for work.
LEMMA HandType ==
  ASSUME NEW S, work \in [Child -> SUBSET S], NEW c \in Child, NEW w \in S,
         Hand(c, w)
  PROVE  work' \in [Child -> SUBSET S]
BY DEF Hand

\* So does putting an answer in a replyCh for box.
LEMMA PutReplyType ==
  ASSUME box \in [Req -> [Child -> SUBSET Reply]], NEW r \in Req, NEW c \in Child,
         NEW m \in Reply, PutReply(r, c, m)
  PROVE  box' \in [Req -> [Child -> SUBSET Reply]]
BY DEF PutReply

\* Only a call to a child's tool gets past the lookup in p.routes.
OnlyCallsGoOn ==
  \A r \in Req : pc[r] \in {"checked", "registered", "writing", "failing"} => IsCall(r)

TypeInv == TypeOK /\ OnlyCallsGoOn

\* Every step keeps the types.
LEMMA TypeStep ==
  ASSUME TypeInv, [Next]_vars
  PROVE  TypeInv'
<1>t. TypeOK /\ TableOK /\ OnlyCallsGoOn
  BY DEF TypeInv, TypeOK, TableOK
<1> USE MuxAssumption, <1>t
    DEF TypeInv, OnlyCallsGoOn, IsCall, procVars, goVars, upVars, seenVars, canVars, tableVars
<1>1. CASE CatalogReady
  <2>1. TableOK'
    BY <1>1, InitCallsAssumption DEF CatalogReady, TableOK
  <2> QED BY <1>1, <2>1 DEF CatalogReady, TypeOK, TableOK
<1>2. CASE CatalogFailed
  BY <1>2 DEF CatalogFailed, TypeOK
<1>3. ASSUME NEW r \in Req, AgentRequest(r) PROVE TypeInv'
  BY <1>3 DEF AgentRequest, TypeOK
<1>4. ASSUME NEW r \in Req, AnswerLocally(r) \/ RefuseDead(r) PROVE TypeInv'
  <2>1. replies' \in [Req -> Nat]
    BY <1>4, AnswerType DEF AnswerLocally, RefuseDead, Finish, TypeOK
  <2> QED BY <1>4, <2>1 DEF AnswerLocally, RefuseDead, Finish, TypeOK
<1>5. ASSUME NEW r \in Req, CheckAlive(r) PROVE TypeInv'
  BY <1>5 DEF CheckAlive, TypeOK
<1>6. ASSUME NEW r \in Req, RegisterCall(r) PROVE TypeInv'
  <2>1. [kind |-> "call", for |-> r, to |-> Tool[r]] \in Entry
    BY <1>6 DEF RegisterCall, Entry
  <2>2. TableOK'
    BY <1>6, <2>1, RegisterType DEF RegisterCall
  <2> QED BY <1>6, <2>2 DEF RegisterCall, TypeOK, TableOK
<1>7. ASSUME NEW r \in Req, SendCall(r) \/ WriteCall(r) PROVE TypeInv'
  <2>1. CASE SendCall(r)
    BY <2>1 DEF SendCall, TypeOK
  <2>2. CASE WriteCall(r)
    <3>1. [id |-> muxID[r][Tool[r]], of |-> r] \in [id : Nat, of : Req]
      BY <2>2 DEF WriteCall, TypeOK
    <3>2. work' \in [Child -> SUBSET [id : Nat, of : Req]]
      BY <2>2, <3>1, HandType DEF WriteCall, TypeOK
    <3> QED BY <2>2, <3>2 DEF WriteCall, TypeOK
  <2> QED BY <1>7, <2>1, <2>2
<1>8. ASSUME NEW r \in Req, FailCall(r) PROVE TypeInv'
  <2>1. TableOK'
    BY <1>8, RemoveType DEF FailCall, Finish
  <2>2. replies' \in [Req -> Nat]
    BY <1>8, AnswerType DEF FailCall, Finish, TypeOK
  <2> QED BY <1>8, <2>1, <2>2 DEF FailCall, Finish, TypeOK, TableOK
<1>9. ASSUME NEW r \in Req, FanOut(r) PROVE TypeInv'
  <2> DEFINE alive == {c \in Child : ~ isDead(c)}
  <2>1. CASE alive = {}
    <3>1. replies' \in [Req -> Nat]
      BY <1>9, <2>1, AnswerType DEF FanOut, Finish, TypeOK
    <3> QED BY <1>9, <2>1, <3>1 DEF FanOut, Finish, TypeOK
  <2>2. CASE alive # {}
    <3> DEFINE f == [c \in Child |-> IF c \in alive THEN "todo" ELSE "none"]
    <3>0. f \in [Child -> LegState]
      BY DEF LegState
    <3>1. leg' \in [Req -> [Child -> LegState]]
      <4>1. leg' = [leg EXCEPT ![r] = f]
        BY <1>9, <2>2 DEF FanOut
      <4> HIDE DEF f
      <4> QED BY <3>0, <4>1 DEF TypeOK
    <3>2. live' \in [Req -> SUBSET Child]
      <4>1. live' = [live EXCEPT ![r] = alive]
        BY <1>9, <2>2 DEF FanOut
      <4> HIDE DEF alive
      <4>2. alive \in SUBSET Child
        BY DEF alive
      <4> QED BY <4>1, <4>2 DEF TypeOK
    <3>3. pc' = [pc EXCEPT ![r] = "fanning"] /\ UNCHANGED <<catalog, procVars, box,
            muxID, tableVars, run, work, upVars, seenVars, canVars>>
      BY <1>9, <2>2 DEF FanOut
    <3> QED BY <3>1, <3>2, <3>3 DEF TypeOK
  <2> QED BY <2>1, <2>2
<1>10. ASSUME NEW r \in Req, NEW c \in Child, RegisterLeg(r, c) PROVE TypeInv'
  <2>1. [kind |-> "leg", for |-> r, to |-> c] \in Entry
    BY DEF Entry
  <2>2. TableOK'
    BY <1>10, <2>1, RegisterType DEF RegisterLeg
  <2> QED BY <1>10, <2>2 DEF RegisterLeg, LegGoes, LegState, TypeOK, TableOK
<1>11. ASSUME NEW r \in Req, NEW c \in Child, SendLeg(r, c) \/ WriteLeg(r, c)
       PROVE  TypeInv'
  <2>1. [id |-> muxID[r][c], of |-> r] \in [id : Nat, of : Req]
    BY DEF TypeOK
  <2>2. work' \in [Child -> SUBSET [id : Nat, of : Req]]
    BY <1>11, <2>1, HandType DEF SendLeg, WriteLeg, TypeOK
  <2>3. leg' \in [Req -> [Child -> LegState]]
    <3>1. {"writing", "waiting", "failing"} \subseteq LegState
      BY DEF LegState
    <3> QED BY <1>11, <3>1, LegType DEF SendLeg, WriteLeg, TypeOK
  <2> QED BY <1>11, <2>2, <2>3 DEF SendLeg, WriteLeg, TypeOK
<1>12. ASSUME NEW r \in Req, NEW c \in Child, AbandonLeg(r, c) PROVE TypeInv'
  <2>1. TableOK'
    <3>1. byID' = Delete(byID, {muxID[r][c]}) /\ byKey' = byKey /\ nextID' = nextID
      BY <1>12 DEF AbandonLeg
    <3> QED BY <3>1, RemoveLegType
  <2> QED BY <1>12, <2>1 DEF AbandonLeg, LegGoes, LegState, TypeOK, TableOK
<1>13. ASSUME NEW r \in Req, NEW c \in Child, LegReceives(r, c) PROVE TypeInv'
  BY <1>13 DEF LegReceives, LegGoes, LegState, TypeOK
<1>14. ASSUME NEW r \in Req, FanOutDone(r) PROVE TypeInv'
  <2>1. results' \subseteq [to : Req, by : Child, of : Req, shown : BOOLEAN]
    <3>1. \A c \in live[r] : \A m \in box[r][c] : m \in Reply
      BY DEF TypeOK
    <3>2. \A m \in Reply : Result(r, m) \in [to : Req, by : Child, of : Req, shown : BOOLEAN]
      BY DEF Result, Shown, Reply
    <3>3. results \subseteq [to : Req, by : Child, of : Req, shown : BOOLEAN]
      BY DEF TypeOK
    <3>4. \A x \in results' : x \in results
            \/ \E c \in live[r] : \E m \in box[r][c] : x = Result(r, m)
      BY <1>14 DEF FanOutDone
    <3> QED BY <3>1, <3>2, <3>3, <3>4
  <2> QED BY <1>14, <2>1 DEF FanOutDone, Finish, Answer, TypeOK
<1>15. ASSUME NEW c \in Child, NEW w \in work[c], NEW is \in Outcome,
              ChildResponds(c, w, is)
       PROVE  TypeInv'
  <2>1. TableOK'
    <3>1. CASE w.id \in DOMAIN byID
      BY <1>15, <3>1, ForgetType DEF ChildResponds
    <3>2. CASE w.id \notin DOMAIN byID
      BY <1>15, <3>2 DEF ChildResponds, TableOK
    <3> QED BY <3>1, <3>2
  <2>2. w \in [id : Nat, of : Req]
    BY DEF TypeOK
  <2>3. /\ box' \in [Req -> [Child -> SUBSET Reply]]
        /\ replies' \in [Req -> Nat]
        /\ results' \subseteq [to : Req, by : Child, of : Req, shown : BOOLEAN]
    <3> DEFINE m == [is |-> is, by |-> c, of |-> w.of]
    <3>1. m \in Reply
      BY <2>2 DEF Reply
    <3>2. CASE w.id \notin DOMAIN byID
      BY <1>15, <3>2 DEF ChildResponds, TypeOK
    <3>3. CASE w.id \in DOMAIN byID
      <4>1. byID[w.id] \in Entry /\ Deliver(byID[w.id], m)
        BY <1>15, <3>3 DEF ChildResponds, TypeOK
      <4>2. CASE byID[w.id].kind = "call"
        <5>1. byID[w.id].for \in Req
          BY <4>1, <4>2, EntryOfRequest
        <5>2. replies' \in [Req -> Nat] /\ box' = box
          BY <4>1, <4>2, AnswerType DEF Deliver, TypeOK
        <5>3. Result(byID[w.id].for, m) \in [to : Req, by : Child, of : Req, shown : BOOLEAN]
          BY <2>2, <5>1 DEF Result, Shown
        <5>4. results' \subseteq [to : Req, by : Child, of : Req, shown : BOOLEAN]
          BY <4>1, <4>2, <5>3 DEF Deliver, TypeOK
        <5> QED BY <5>2, <5>4 DEF TypeOK
      <4>3. CASE byID[w.id].kind = "leg"
        <5>1. byID[w.id].for \in Req /\ byID[w.id].to \in Child
          BY <4>1, <4>3, EntryOfRequest, EntryFor
        <5>2. box' \in [Req -> [Child -> SUBSET Reply]]
          BY <4>1, <4>3, <3>1, <5>1, PutReplyType DEF Deliver, TypeOK
        <5> QED BY <4>1, <4>3, <5>2 DEF Deliver, TypeOK
      <4>4. CASE byID[w.id].kind \notin {"call", "leg"}
        BY <4>1, <4>4 DEF Deliver, TypeOK
      <4> QED BY <4>2, <4>3, <4>4
    <3> QED BY <3>2, <3>3
  <2>4. work' \in [Child -> SUBSET [id : Nat, of : Req]]
    BY <1>15 DEF ChildResponds, TypeOK
  <2> QED BY <1>15, <2>1, <2>3, <2>4 DEF ChildResponds, TypeOK, TableOK
<1>16. ASSUME NEW c \in Child,
              ChildExits(c) \/ ChildStalls(c) \/ ReadsEOF(c) \/ ReadFails(c)
       PROVE  TypeInv'
  <2>1. stalled' \subseteq Child
    BY <1>16 DEF ChildExits, ChildStalls, ReadsEOF, ReadFails, TypeOK
  <2>2. child' \in [Child -> {"reading", "dead", "drained"}] /\ running' \subseteq Child
    BY <1>16 DEF ChildExits, ChildStalls, ReadsEOF, ReadFails, TypeOK
  <2> QED
    BY <1>16, <2>1, <2>2 DEF ChildExits, ChildStalls, ReadsEOF, ReadFails, TypeOK
<1>17. ASSUME NEW c \in Child, drainChildInflight(c) PROVE TypeInv'
  <2>1. TableOK'
    BY <1>17, ForgetType DEF drainChildInflight
  <2>2. box' \in [Req -> [Child -> SUBSET Reply]]
    BY <1>17 DEF drainChildInflight, Reply, Outcome, TypeOK
  <2>3. replies' \in [Req -> Nat]
    BY <1>17, AnswerType DEF drainChildInflight, TypeOK
  <2> QED BY <1>17, <2>1, <2>2, <2>3 DEF drainChildInflight, TypeOK, TableOK
<1>18. ASSUME NEW u \in Up, forwardChildRequest(u) PROVE TypeInv'
  <2>1. [kind |-> "up", for |-> u, to |-> Owner[u]] \in Entry
    BY DEF Entry
  <2>2. TableOK'
    BY <1>18, <2>1, RegisterType DEF forwardChildRequest
  <2> QED BY <1>18, <2>2 DEF forwardChildRequest, TypeOK, TableOK
<1>19. ASSUME NEW u \in Up, ChildCancels(u) PROVE TypeInv'
  BY <1>19 DEF ChildCancels, TypeOK
<1>20. ASSUME NEW w \in agentHas, AgentResponds(w) PROVE TypeInv'
  <2>1. TableOK'
    <3>1. CASE w.id \in DOMAIN byID
      BY <1>20, <3>1, ForgetType DEF AgentResponds
    <3>2. CASE w.id \notin DOMAIN byID
      BY <1>20, <3>2 DEF AgentResponds, TableOK
    <3> QED BY <3>1, <3>2
  <2>2. run' \in RunState
    <3>1. w.up \in Up
      BY DEF TypeOK
    <3>2. CASE w.id \in DOMAIN byID
      <4>1. byID[w.id].to \in Child
        BY <3>2, EntryFor DEF TypeOK
      <4> QED BY <1>20, <3>1, <3>2, <4>1 DEF AgentResponds, RunState
    <3>3. CASE w.id \notin DOMAIN byID
      BY <1>20, <3>3 DEF AgentResponds, TypeOK
    <3> QED BY <3>2, <3>3
  <2> QED BY <1>20, <2>1, <2>2 DEF AgentResponds, TypeOK, TableOK
<1>21. CASE ReplyToChild
  BY <1>21 DEF ReplyToChild, RunState, TypeOK
<1>22. ASSUME NEW r \in Req, AgentCancels(r) PROVE TypeInv'
  <2>1. run' \in RunState
    BY <1>22 DEF AgentCancels, RunState, TypeOK
  <2> QED BY <1>22, <2>1 DEF AgentCancels, TypeOK
<1>23. CASE TakeCancelled
  <2>1. TableOK'
    <3>1. CASE run.id \in DOMAIN byID
      BY <1>23, <3>1, ForgetType DEF TakeCancelled
    <3>2. CASE run.id \notin DOMAIN byID
      BY <1>23, <3>2 DEF TakeCancelled, TableOK
    <3> QED BY <3>1, <3>2
  <2>2. run' \in RunState /\ removed' \subseteq Req \cup Up
    BY <1>23 DEF TakeCancelled, RunState, Entry, TypeOK
  <2> QED BY <1>23, <2>1, <2>2 DEF TakeCancelled, TypeOK, TableOK
<1>24. CASE SendCancel \/ WriteCancel
  <2>1. CASE SendCancel
    BY <2>1 DEF SendCancel, RunState, TypeOK
  <2>2. CASE WriteCancel
    <3>1. work' \in [Child -> SUBSET [id : Nat, of : Req]]
      BY <2>2 DEF WriteCancel, RunState, TypeOK
    <3> QED BY <2>2, <3>1 DEF WriteCancel, RunState, TypeOK
  <2> QED BY <1>24, <2>1, <2>2
<1>25. CASE UNCHANGED vars
  BY <1>25 DEF vars, TypeOK
<1> QED
  BY <1>1, <1>2, <1>3, <1>4, <1>5, <1>6, <1>7, <1>8, <1>9, <1>10, <1>11, <1>12,
     <1>13, <1>14, <1>15, <1>16, <1>17, <1>18, <1>19, <1>20, <1>21, <1>22, <1>23,
     <1>24, <1>25
  DEF Next, Goroutine, Leg, RunLoop, ReadLoopEnds

\* The type invariant of the multiplexer, for every reachable state.
THEOREM TypeCorrect == Spec => []TypeOK
<1>1. Init => TypeInv
  BY MuxAssumption
  DEF Init, TypeInv, TypeOK, OnlyCallsGoOn, NoKeys, LegState, RunState
<1>2. TypeInv /\ [Next]_vars => TypeInv'
  BY TypeStep
<1>3. TypeInv => TypeOK
  BY DEF TypeInv
<1> QED BY <1>1, <1>2, <1>3, PTL DEF Spec
=============================================================================
