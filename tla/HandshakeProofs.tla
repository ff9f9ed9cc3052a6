--------------------------- MODULE HandshakeProofs ---------------------------
(***************************************************************************)
(* Proofs about the handshakes of bzmux, for any servers, tool lists and   *)
(* inventories: no slot outlives its handshake, no child its failed start, *)
(* and what is merged is what was reported.                                *)
(***************************************************************************)
EXTENDS Handshake, FiniteSetTheorems, WellFoundedInduction, TLAPS

-----------------------------------------------------------------------------
(* Type correctness. *)

Steps == ({"register", "send", "wait"} \X Call)
            \cup {<<"spawn", "">>, <<"note", "">>, <<"over", "">>}

\* TypeOK's part about the goroutines and what they report.
GoOK ==
  /\ mode \in {"live", "selftest", "verify", "direct"}
  /\ go \in [Server -> Steps]
  /\ tools \in [Server -> Export \cup {<<>>}]
  /\ dead \subseteq Server /\ late \subseteq Server
  /\ arrived \in Seq([of : Server, ok : BOOLEAN])

\* TypeOK's part about the children and their read loops.
ChildOK ==
  /\ child \in [Server -> {"none", "alive", "exited"}]
  /\ reader \in [Server -> {"reading", "drain", "over"}]
  /\ work \in [Server -> SUBSET Call]
  /\ table \subseteq Server \X Call
  /\ box \in [Server -> [Call -> SUBSET Message]]

\* TypeOK's part about the collector.
OutOK ==
  /\ killed \subseteq Server
  /\ verdict \in {"none", "ready", "failed"}
  /\ exited \in BOOLEAN

LEMMA TypeParts == TypeOK <=> GoOK /\ ChildOK /\ OutOK
BY Zenon DEF TypeOK, GoOK, ChildOK, OutOK, Steps

LEMMA UsedServers == Used \subseteq Server /\ Order[1] \in Server
<1>1. Order \in Seq(Server) /\ Order # <<>>
  BY HandshakeAssumption
<1>2. Order[1] \in Server
  BY <1>1
<1> QED BY <1>2 DEF Used

LEMMA StepsAre ==
  /\ <<"spawn", "">> \in Steps /\ <<"note", "">> \in Steps /\ <<"over", "">> \in Steps
  /\ \A c \in Call : <<"register", c>> \in Steps /\ <<"send", c>> \in Steps
                     /\ <<"wait", c>> \in Steps
  /\ "initialize" \in Call /\ "tools/list" \in Call
BY DEF Steps, Call

LEMMA Apart ==
  /\ <<"over", "">> # <<"spawn", "">> /\ <<"note", "">> # <<"over", "">>
  /\ <<"note", "">> # <<"spawn", "">>
  /\ \A c : /\ <<"register", c>> # <<"over", "">> /\ <<"register", c>> # <<"spawn", "">>
           /\ <<"send", c>> # <<"over", "">> /\ <<"send", c>> # <<"spawn", "">>
           /\ <<"wait", c>> # <<"over", "">> /\ <<"wait", c>> # <<"spawn", "">>
OBVIOUS

LEMMA Appending ==
  ASSUME NEW S, NEW q \in Seq(S), NEW x \in S
  PROVE  Append(q, x) \in Seq(S) /\ Len(Append(q, x)) = Len(q) + 1
OBVIOUS

LEMMA EmptySeq == ASSUME NEW S PROVE <<>> \in Seq(S)
OBVIOUS

LEMMA InitTypes == Init => TypeOK
<1> SUFFICES ASSUME Init PROVE TypeOK
  OBVIOUS
<1>1. GoOK
  <2>1. go \in [Server -> Steps]
    BY StepsAre DEF Init
  <2>2. arrived \in Seq([of : Server, ok : BOOLEAN])
    BY EmptySeq DEF Init
  <2>3. tools \in [Server -> Export \cup {<<>>}]
    BY DEF Init
  <2> QED BY <2>1, <2>2, <2>3 DEF Init, GoOK
<1>2. ChildOK
  BY DEF Init, ChildOK
<1>3. OutOK
  BY DEF Init, OutOK
<1> QED BY <1>1, <1>2, <1>3, TypeParts

LEMMA ArrivesTypes ==
  ASSUME GoOK, NEW s \in Server, NEW ok \in BOOLEAN, Arrives(s, ok)
  PROVE  /\ go' \in [Server -> Steps]
         /\ arrived' \in Seq([of : Server, ok : BOOLEAN])
<1>1. go' \in [Server -> Steps]
  BY StepsAre DEF GoOK, Arrives, Goes
<1>2. [of |-> s, ok |-> ok] \in [of : Server, ok : BOOLEAN]
  OBVIOUS
<1>3. arrived' \in Seq([of : Server, ok : BOOLEAN])
  BY <1>2, Appending, Zenon DEF GoOK, Arrives
<1> QED BY <1>1, <1>3

LEMMA NextGo == ASSUME TypeOK, Next PROVE GoOK'
<1>t. GoOK /\ ChildOK
  BY TypeParts
<1> USE DEF GoOK, childVars, outVars
<1>f. ASSUME NEW s \in Server, Fails(s)
      PROVE  /\ go' \in [Server -> Steps] /\ dead' \subseteq Server
             /\ arrived' \in Seq([of : Server, ok : BOOLEAN])
  BY <1>f, <1>t, ArrivesTypes DEF Fails
<1>1. ASSUME NEW s \in Server, Spawn(s) PROVE GoOK'
  BY <1>1, <1>t, ArrivesTypes, StepsAre DEF Spawn, Goes
<1>2. ASSUME NEW s \in Server, NEW c \in Call, Register(s, c) PROVE GoOK'
  BY <1>2, <1>t, StepsAre DEF Register, Goes
<1>3. ASSUME NEW s \in Server, NEW c \in Call, Send(s, c) PROVE GoOK'
  <2>1. CASE Goes(s, "wait", c) /\ UNCHANGED <<dead, table, arrived>>
    BY <1>3, <2>1, <1>t, StepsAre DEF Send, Goes
  <2>2. CASE Fails(s)
    BY <1>3, <2>2, <1>t, <1>f DEF Send
  <2> QED BY <1>3, <2>1, <2>2 DEF Send
<1>4. ASSUME NEW s \in Server, NEW c \in Call, GiveUp(s, c) PROVE GoOK'
  BY <1>4, <1>t, <1>f DEF GiveUp
<1>5. ASSUME NEW s \in Server, NEW c \in Call, Reply(s, c) PROVE GoOK'
  <2>1. PICK m \in box[s][c] :
           \/ Goes(s, "note", "") /\ UNCHANGED <<dead, tools, arrived>>
           \/ tools' = [tools EXCEPT ![s] = m.tools] /\ Arrives(s, TRUE)
              /\ UNCHANGED dead
           \/ Fails(s) /\ UNCHANGED tools
    BY <1>5 DEF Reply
  <2>2. m.tools \in Export \cup {<<>>}
    <3>1. box[s][c] \subseteq Message
      BY <1>t DEF ChildOK
    <3> QED BY <2>1, <3>1 DEF Message
  <2>3. UNCHANGED <<mode, late>>
    BY <1>5 DEF Reply
  <2>4. CASE Goes(s, "note", "") /\ UNCHANGED <<dead, tools, arrived>>
    BY <2>3, <2>4, <1>t, StepsAre DEF Goes
  <2>5. CASE tools' = [tools EXCEPT ![s] = m.tools] /\ Arrives(s, TRUE) /\ UNCHANGED dead
    BY <2>2, <2>3, <2>5, <1>t, ArrivesTypes
  <2>6. CASE Fails(s) /\ UNCHANGED tools
    BY <2>3, <2>6, <1>t, <1>f
  <2> QED BY <2>1, <2>4, <2>5, <2>6
<1>6. ASSUME NEW s \in Server, Note(s) PROVE GoOK'
  <2>1. CASE Goes(s, "register", "tools/list") /\ UNCHANGED <<dead, arrived>>
    BY <1>6, <2>1, <1>t, StepsAre DEF Note, Goes
  <2>2. CASE Fails(s)
    BY <1>6, <2>2, <1>t, <1>f DEF Note
  <2> QED BY <1>6, <2>1, <2>2 DEF Note
<1>7. ASSUME NEW s \in Server, Timer(s) PROVE GoOK'
  BY <1>7, <1>t, UsedServers DEF Timer
<1>8. ASSUME NEW s \in Server, NEW c \in Call, ChildAnswers(s, c) PROVE GoOK'
  BY <1>8, <1>t DEF ChildAnswers
<1>9. ASSUME NEW s \in Server, ChildExits(s) \/ ReadEnds(s) \/ drainChildInflight(s)
      PROVE  GoOK'
  BY <1>9, <1>t DEF ChildExits, ReadEnds, drainChildInflight
<1>10. CASE Collector
  BY <1>10, <1>t DEF Collector, Decide, Exit
<1> QED BY <1>1, <1>2, <1>3, <1>4, <1>5, <1>6, <1>7, <1>8, <1>9, <1>10
   DEF Next, Goroutine

LEMMA NextChild == ASSUME TypeOK, Next PROVE ChildOK'
<1>t. GoOK /\ ChildOK
  BY TypeParts
<1> USE DEF ChildOK, childVars, outVars
<1>1. ASSUME NEW s \in Server, Spawn(s) \/ Note(s) \/ Timer(s) PROVE ChildOK'
  BY <1>1, <1>t DEF Spawn, Note, Timer
<1>2. ASSUME NEW s \in Server, NEW c \in Call, Register(s, c) \/ GiveUp(s, c)
             \/ Reply(s, c)
      PROVE  ChildOK'
  <2>1. UNCHANGED <<child, reader, work, box>>
    BY <1>2 DEF Register, GiveUp, Reply
  <2>2. table' \subseteq table \cup {<<s, c>>}
    BY <1>2 DEF Register, GiveUp, Reply
  <2> QED BY <1>t, <2>1, <2>2
<1>3. ASSUME NEW s \in Server, NEW c \in Call, Send(s, c) PROVE ChildOK'
  BY <1>3, <1>t DEF Send
<1>4. ASSUME NEW s \in Server, NEW c \in Call, ChildAnswers(s, c) PROVE ChildOK'
  <2>1. PICK m \in Answers(c) : routeResponse(s, c, m)
    BY <1>4 DEF ChildAnswers
  <2>2. m \in Message
    <3>1. m = [ok |-> FALSE, tools |-> <<>>]
          \/ m \in [ok : {TRUE}, tools : {<<>>}] \/ m \in [ok : {TRUE}, tools : Export]
      BY <2>1 DEF Answers
    <3>2. m \in [ok : {TRUE}, tools : {<<>>}] \cup [ok : {TRUE}, tools : Export]
            => m \in Message
      BY DEF Message
    <3>3. [ok |-> FALSE, tools |-> <<>>] \in Message
      BY DEF Message
    <3> QED BY <3>1, <3>2, <3>3
  <2>3. UNCHANGED <<child, reader, work>>
    BY <1>4 DEF ChildAnswers
  <2> QED BY <1>t, <2>1, <2>2, <2>3 DEF routeResponse, Put
<1>5. ASSUME NEW s \in Server, ChildExits(s) \/ ReadEnds(s) PROVE ChildOK'
  BY <1>5, <1>t DEF ChildExits, ReadEnds
<1>6. ASSUME NEW s \in Server, drainChildInflight(s) PROVE ChildOK'
  <2>1. {[ok |-> FALSE, tools |-> <<>>]} \subseteq Message
    BY DEF Message
  <2> QED BY <1>6, <1>t, <2>1 DEF drainChildInflight
<1>7. CASE Collector
  BY <1>7, <1>t DEF Collector, Decide, Exit
<1> QED BY <1>1, <1>2, <1>3, <1>4, <1>5, <1>6, <1>7 DEF Next, Goroutine

LEMMA NextOut == ASSUME TypeOK, Next PROVE OutOK'
<1>t. OutOK
  BY TypeParts
<1> USE DEF OutOK, outVars
<1>s. Started \subseteq Server
  BY UsedServers DEF Started
<1>1. CASE Decide
  <2>1. verdict' \in {"none", "ready", "failed"} /\ exited' = exited
    BY <1>1 DEF Decide
  <2>2. killed' \subseteq Server
    BY <1>1, <1>s, <1>t DEF Decide, Doomed
  <2> QED BY <1>t, <2>1, <2>2
<1>2. CASE Exit
  <2>1. verdict' = verdict /\ exited' = TRUE
    BY <1>2 DEF Exit
  <2>2. killed' \subseteq Server
    BY <1>2, <1>s, <1>t DEF Exit
  <2> QED BY <1>t, <2>1, <2>2
<1>3. CASE UNCHANGED <<verdict, killed, exited>>
  BY <1>3, <1>t
<1>4. ASSUME NEW s \in Server, Goroutine(s) \/ Timer(s) \/ ReadEnds(s)
             \/ drainChildInflight(s) \/ ChildExits(s)
             \/ \E c \in Call : ChildAnswers(s, c)
      PROVE  UNCHANGED <<verdict, killed, exited>>
  BY <1>4 DEF Goroutine, Spawn, Note, Register, Send, GiveUp, Reply, Timer, ReadEnds,
     drainChildInflight, ChildExits, ChildAnswers
<1> QED BY <1>1, <1>2, <1>3, <1>4 DEF Next, Collector

LEMMA TypesKept == ASSUME TypeOK, [Next]_vars PROVE TypeOK'
<1>1. CASE Next
  BY <1>1, NextGo, NextChild, NextOut, TypeParts DEF TypeOK, GoOK, ChildOK, OutOK, Steps
<1>2. CASE UNCHANGED vars
  BY <1>2 DEF vars, childVars, outVars, TypeOK
<1> QED BY <1>1, <1>2

\* Every reachable state of the handshakes is well typed.
THEOREM HandshakeTypes == Spec => []TypeOK
BY InitTypes, TypesKept, PTL DEF Spec

-----------------------------------------------------------------------------
(* The inductive invariant. *)

\* Where the goroutine of s has not registered its call c yet.
Before(c) ==
  IF c = "initialize" THEN {<<"spawn", "">>, <<"register", c>>}
  ELSE {<<"spawn", "">>, <<"note", "">>, <<"register", c>>}
         \cup {"register", "send", "wait"} \X {"initialize"}

\* A slot belongs to a goroutine that is about to send or waits.
Slots ==
  \A s \in Server, c \in Call :
    <<s, c>> \in table => go[s] \in {<<"send", c>>, <<"wait", c>>}

\* A reply is there only for a call that was registered, and its slot is gone.
Boxes ==
  \A s \in Server, c \in Call :
    box[s][c] # {} => <<s, c>> \notin table /\ go[s] \notin Before(c)

Over == {s \in Server : At(s, "over", "")}

\* Every goroutine that ended reported once, and only those of Used run.
Counted ==
  /\ Len(arrived) = Cardinality(Over)
  /\ \A s \in Server \ Used : At(s, "spawn", "")

\* The decision comes after the last report, and kills whatever was started.
Settled ==
  /\ verdict # "none" => Over = Used
  /\ exited => verdict # "none"
  /\ NoneLeftBehind

IInv == TypeOK /\ Slots /\ Boxes /\ Counted /\ Settled

LEMMA ServersFinite == IsFiniteSet(Server) /\ IsFiniteSet(Used)
<1>1. Order \in [1..Len(Order) -> Server] /\ Len(Order) \in Nat
  BY HandshakeAssumption
<1>2. IsFiniteSet(1..Len(Order))
  BY <1>1, FS_Interval
<1>3. Order \in Surjection(1..Len(Order), Server)
  BY <1>1 DEF Surjection, Server, ToSet
<1>4. IsFiniteSet(Server)
  BY <1>2, <1>3, FS_Surjection
<1> QED BY <1>4, UsedServers, FS_Subset

LEMMA InitInvariant == Init => IInv
<1> SUFFICES ASSUME Init PROVE IInv
  OBVIOUS
<1>1. Slots /\ Boxes
  BY DEF Init, Slots, Boxes
<1>2. Counted
  <2>1. Over = {}
    BY DEF Init, Over, At
  <2> QED BY <2>1, FS_EmptySet DEF Init, Counted, At
<1>3. Settled
  BY DEF Init, Settled, NoneLeftBehind
<1> QED BY <1>1, <1>2, <1>3, InitTypes DEF IInv

-----------------------------------------------------------------------------
(* The table. *)

\* A step that moves the goroutine of s, leaves the replies alone and takes no
\* slot but that of the call it registers.
LEMMA Moves ==
  ASSUME TypeOK, Slots, Boxes, NEW s \in Server, NEW to \in Steps,
         go' = [go EXCEPT ![s] = to], box' = box,
         \/ table' \subseteq table
         \/ \E c \in Call : to = <<"send", c>> /\ table' = table \cup {<<s, c>>}
                            /\ box[s][c] = {},
         \A c \in Call : <<s, c>> \in table' => to \in {<<"send", c>>, <<"wait", c>>},
         \A c \in Call : to \in Before(c) => go[s] \in Before(c)
  PROVE  Slots' /\ Boxes'
<1>t. go \in [Server -> Steps]
  BY TypeParts DEF GoOK
<1>1. Slots'
  BY <1>t DEF Slots
<1>2. Boxes'
  BY <1>t DEF Boxes
<1> QED BY <1>1, <1>2

\* Where the steps are, seen from one call.
LEMMA Places ==
  ASSUME NEW c \in Call
  PROVE  /\ <<"spawn", "">> \in Before(c) /\ <<"register", c>> \in Before(c)
         /\ <<"send", c>> \notin Before(c) /\ <<"wait", c>> \notin Before(c)
         /\ \A d \in Call : <<"send", d>> \in Before(c) => <<"register", d>> \in Before(c)
         /\ \A d \in Call : <<"wait", d>> \in Before(c) => <<"send", d>> \in Before(c)
         /\ <<"register", "tools/list">> \in Before(c) => <<"note", "">> \in Before(c)
<1>1. CASE c = "initialize"
  BY <1>1 DEF Before, Call
<1>2. CASE c = "tools/list"
  BY <1>2 DEF Before, Call
<1> QED BY <1>1, <1>2 DEF Call

\* Where a goroutine has no slot.
LEMMA NoSlots ==
  ASSUME Slots, NEW s \in Server, NEW c \in Call,
         go[s] \notin {<<"send", c>>, <<"wait", c>>}
  PROVE  <<s, c>> \notin table
BY DEF Slots

LEMMA OverIsLast == \A c \in Call : <<"over", "">> \notin Before(c)
BY DEF Before, Call

LEMMA TableKept == ASSUME TypeOK, Slots, Boxes, [Next]_vars PROVE Slots' /\ Boxes'
<1>t. GoOK /\ ChildOK
  BY TypeParts
<1>1. ASSUME NEW s \in Server, Spawn(s) PROVE Slots' /\ Boxes'
  <2>1. PICK to \in {<<"register", "initialize">>, <<"over", "">>} :
          go' = [go EXCEPT ![s] = to]
    BY <1>1 DEF Spawn, Goes, Arrives
  <2>2. go[s] = <<"spawn", "">> /\ UNCHANGED <<table, box>>
    BY <1>1 DEF Spawn, At
  <2>3. \A c \in Call : <<s, c>> \notin table /\ go[s] \in Before(c)
    BY <2>2, NoSlots, Places
  <2> QED BY <2>1, <2>2, <2>3, StepsAre, Moves
<1>2. ASSUME NEW s \in Server, NEW c \in Call, Register(s, c) PROVE Slots' /\ Boxes'
  <2>1. go[s] = <<"register", c>> /\ go' = [go EXCEPT ![s] = <<"send", c>>]
        /\ table' = table \cup {<<s, c>>} /\ box' = box
    BY <1>2 DEF Register, At, Goes
  <2>2. box[s][c] = {}
    BY <2>1, Places DEF Boxes
  <2>3. \A d \in Call : <<s, d>> \notin table
    BY <2>1 DEF Slots
  <2>4. \A d \in Call : <<s, d>> \in table' => d = c
    BY <2>1, <2>3
  <2>5. \A d \in Call : <<"send", c>> \in Before(d) => go[s] \in Before(d)
    BY <2>1, Places
  <2>6. <<"send", c>> \in Steps
    BY StepsAre
  <2> QED BY <2>1, <2>2, <2>4, <2>5, <2>6, Moves
<1>3. ASSUME NEW s \in Server, NEW c \in Call, Send(s, c) PROVE Slots' /\ Boxes'
  <2>1. go[s] = <<"send", c>> /\ box' = box
    BY <1>3 DEF Send, At
  <2>2. \A d \in Call : <<s, d>> \in table => d = c
    BY <2>1 DEF Slots
  <2>3. \A d \in Call : <<"wait", c>> \in Before(d) => <<"send", c>> \in Before(d)
    BY Places
  <2>4. CASE table' = table /\ go' = [go EXCEPT ![s] = <<"wait", c>>]
    BY <2>1, <2>2, <2>3, <2>4, StepsAre, Moves
  <2>5. CASE table' = table \ {<<s, c>>} /\ go' = [go EXCEPT ![s] = <<"over", "">>]
    BY <2>1, <2>2, <2>5, StepsAre, OverIsLast, Moves
  <2> QED BY <1>3, <2>4, <2>5 DEF Send, Goes, Fails, Arrives
<1>4. ASSUME NEW s \in Server, NEW c \in Call, GiveUp(s, c) PROVE Slots' /\ Boxes'
  <2>1. go[s] = <<"wait", c>> /\ box' = box /\ table' = table \ {<<s, c>>}
        /\ go' = [go EXCEPT ![s] = <<"over", "">>]
    BY <1>4 DEF GiveUp, At, Goes, Fails, Arrives
  <2>2. \A d \in Call : <<s, d>> \notin table'
    <3> SUFFICES ASSUME NEW d \in Call, <<s, d>> \in table' PROVE FALSE
      OBVIOUS
    <3>1. <<s, d>> \in table /\ d # c
      BY <2>1
    <3>2. go[s] \in {<<"send", d>>, <<"wait", d>>}
      BY <3>1 DEF Slots
    <3>3. <<"wait", c>> \in {<<"send", d>>, <<"wait", d>>}
      BY <2>1, <3>2
    <3> QED BY <3>1, <3>3
  <2> QED BY <2>1, <2>2, StepsAre, OverIsLast, Moves
<1>5. ASSUME NEW s \in Server, NEW c \in Call, Reply(s, c) PROVE Slots' /\ Boxes'
  <2>1. go[s] = <<"wait", c>> /\ UNCHANGED <<box, table>> /\ box[s][c] # {}
    BY <1>5 DEF Reply, At
  <2>2. \A d \in Call : <<s, d>> \notin table
    BY <2>1 DEF Slots, Boxes
  <2>3. CASE go' = [go EXCEPT ![s] = <<"over", "">>]
    BY <2>1, <2>2, <2>3, StepsAre, OverIsLast, Moves
  <2>4. CASE c = "initialize" /\ go' = [go EXCEPT ![s] = <<"note", "">>]
    <3>1. \A d \in Call : <<"note", "">> \in Before(d) => <<"wait", c>> \in Before(d)
      BY <2>4 DEF Before, Call
    <3> QED BY <2>1, <2>2, <2>4, <3>1, StepsAre, Moves
  <2> QED BY <1>5, <2>3, <2>4 DEF Reply, Goes, Fails, Arrives
<1>6. ASSUME NEW s \in Server, Note(s) PROVE Slots' /\ Boxes'
  <2>1. PICK to \in {<<"register", "tools/list">>, <<"over", "">>} :
          go' = [go EXCEPT ![s] = to]
    BY <1>6 DEF Note, Goes, Fails, Arrives
  <2>2. go[s] = <<"note", "">> /\ UNCHANGED <<table, box>>
    BY <1>6 DEF Note, At, childVars
  <2>3. \A c \in Call : <<s, c>> \notin table /\ (to \in Before(c) => go[s] \in Before(c))
    <3> SUFFICES ASSUME NEW c \in Call
                 PROVE  <<s, c>> \notin table /\ (to \in Before(c) => go[s] \in Before(c))
      OBVIOUS
    <3>1. <<s, c>> \notin table
      <4>1. <<s, c>> \in table => <<"note", "">> \in {<<"send", c>>, <<"wait", c>>}
        BY <2>2 DEF Slots
      <4> QED BY <4>1
    <3>2. to \in Before(c) => <<"note", "">> \in Before(c)
      BY <2>1, Places, OverIsLast
    <3> QED BY <2>2, <3>1, <3>2
  <2> QED BY <2>1, <2>2, <2>3, StepsAre, Moves
<1>7. ASSUME NEW s \in Server, NEW c \in Call, ChildAnswers(s, c) PROVE Slots' /\ Boxes'
  <2>1. PICK m \in Answers(c) : routeResponse(s, c, m)
    BY <1>7 DEF ChildAnswers
  <2>2. go' = go
    BY <1>7 DEF ChildAnswers
  <2>3. CASE <<s, c>> \in table
    <3>1. table' = table \ {<<s, c>>} /\ box' = Put(s, c, m)
      BY <2>1, <2>3 DEF routeResponse
    <3>2. go[s] \in {<<"send", c>>, <<"wait", c>>}
      BY <2>3 DEF Slots
    <3>3. go[s] \notin Before(c)
      BY <3>2, Places
    <3>4. \A r \in Server, d \in Call :
            box'[r][d] # {} => box[r][d] # {} \/ (r = s /\ d = c)
      <4>1. box' = box \/ box' = [box EXCEPT ![s][c] = {m}]
        BY <3>1 DEF Put
      <4>2. \A r \in Server : r # s => box'[r] = box[r]
        BY <4>1, <1>t DEF ChildOK
      <4>3. \A d \in Call : d # c => box'[s][d] = box[s][d]
        BY <4>1, <1>t DEF ChildOK
      <4> QED BY <4>2, <4>3 DEF Call
    <3> QED BY <2>2, <3>1, <3>3, <3>4 DEF Slots, Boxes
  <2>4. CASE <<s, c>> \notin table
    BY <2>1, <2>2, <2>4 DEF routeResponse, Slots, Boxes
  <2> QED BY <2>3, <2>4
<1>8. ASSUME NEW s \in Server, drainChildInflight(s) PROVE Slots' /\ Boxes'
  <2>1. table' = table \ SlotsOf(s) /\ go' = go
    BY <1>8 DEF drainChildInflight
  <2>2. \A r \in Server, d \in Call : box'[r][d] # {} =>
          box[r][d] # {} \/ (r = s /\ <<s, d>> \in table)
    <3>1. box' = [box EXCEPT ![s] = [d \in Call |->
             IF <<s, d>> \in table /\ box[s][d] = {}
               THEN {[ok |-> FALSE, tools |-> <<>>]} ELSE box[s][d]]]
      BY <1>8 DEF drainChildInflight
    <3>2. \A r \in Server : r # s => box'[r] = box[r]
      BY <3>1, <1>t DEF ChildOK
    <3>3. \A d \in Call : box'[s][d] # {} => box[s][d] # {} \/ <<s, d>> \in table
      BY <3>1, <1>t DEF ChildOK
    <3>4. TAKE r \in Server, d \in Call
    <3>5. CASE r = s
      BY <3>5, <3>3 DEF Call
    <3>6. CASE r # s
      BY <3>6, <3>2 DEF Call
    <3> QED BY <3>5, <3>6
  <2>3. \A d \in Call : <<s, d>> \in table => go[s] \notin Before(d)
    BY Places DEF Slots
  <2>4. Slots'
    BY <2>1 DEF Slots
  <2>5. Boxes'
    BY <2>1, <2>2, <2>3 DEF Boxes, SlotsOf
  <2> QED BY <2>4, <2>5
<1>9. CASE UNCHANGED <<go, table, box>>
  BY <1>9 DEF Slots, Boxes
<1>10. ASSUME NEW s \in Server, Timer(s) \/ ReadEnds(s) \/ ChildExits(s) \/ Collector
              \/ UNCHANGED vars
       PROVE  UNCHANGED <<go, table, box>>
  BY <1>10 DEF Timer, ReadEnds, ChildExits, Collector, Decide, Exit, vars
<1> QED BY <1>1, <1>2, <1>3, <1>4, <1>5, <1>6, <1>7, <1>8, <1>9, <1>10, UsedServers
   DEF Next, Goroutine

-----------------------------------------------------------------------------
(* The reports, and the decision. *)

LEMMA ModeStays == ASSUME [Next]_vars PROVE mode' = mode /\ Used' = Used
<1>1. ASSUME NEW s \in Server, Goroutine(s) \/ Timer(s) \/ ReadEnds(s)
             \/ drainChildInflight(s) \/ ChildExits(s)
             \/ \E c \in Call : ChildAnswers(s, c)
      PROVE  mode' = mode
  BY <1>1 DEF Goroutine, Spawn, Note, Register, Send, GiveUp, Reply, Timer, ReadEnds,
     drainChildInflight, ChildExits, ChildAnswers
<1>2. Decide => mode' = mode
  BY DEF Decide
<1>3. Exit \/ UNCHANGED vars => mode' = mode
  BY DEF Exit, vars
<1>4. mode' = mode
  BY <1>1, <1>2, <1>3 DEF Next, Collector
<1> QED BY <1>4 DEF Used

\* A goroutine of Used makes one step, and reports when it is over.
GoStep(s) ==
  /\ go[s] # <<"over", "">> /\ (s \in Used \/ go[s] # <<"spawn", "">>)
  /\ \/ \E ok \in BOOLEAN : Arrives(s, ok)
     \/ \E to \in Steps : to # <<"over", "">> /\ go' = [go EXCEPT ![s] = to]
                          /\ arrived' = arrived

LEMMA GoroutineStep ==
  ASSUME NEW s \in Server, Goroutine(s)
  PROVE  GoStep(s) /\ UNCHANGED <<verdict, killed, exited>>
<1> DEFINE Runs == go[s] # <<"over", "">> /\ (s \in Used \/ go[s] # <<"spawn", "">>)
<1>c. \A c \in Call : go[s] \in {<<"register", c>>, <<"send", c>>, <<"wait", c>>} => Runs
  BY Apart
<1>n. go[s] = <<"note", "">> => Runs
  BY Apart
<1>f. Fails(s) => \E ok \in BOOLEAN : Arrives(s, ok)
  BY DEF Fails
<1>g. ASSUME NEW p, NEW c, <<p, c>> \in Steps, p # "over", Goes(s, p, c),
             arrived' = arrived, Runs
      PROVE  GoStep(s)
  BY <1>g DEF GoStep, Goes
<1>a. ASSUME NEW ok \in BOOLEAN, Arrives(s, ok), Runs PROVE GoStep(s)
  BY <1>a DEF GoStep
<1> HIDE DEF Runs
<1>1. ASSUME Spawn(s) PROVE GoStep(s)
  <2>1. Runs
    BY <1>1, Apart DEF Spawn, At, Runs
  <2> QED BY <1>1, <2>1, <1>g, <1>a, StepsAre DEF Spawn
<1>2. ASSUME Note(s) PROVE GoStep(s)
  <2>1. Runs
    BY <1>2, <1>n DEF Note, At
  <2> QED BY <1>2, <2>1, <1>f, <1>g, <1>a, StepsAre DEF Note
<1>3. ASSUME NEW c \in Call, Register(s, c) \/ Send(s, c) \/ GiveUp(s, c) \/ Reply(s, c)
      PROVE  GoStep(s)
  <2>1. Runs
    BY <1>3, <1>c DEF Register, Send, GiveUp, Reply, At
  <2>2. \/ (\E ok \in BOOLEAN : Arrives(s, ok))
        \/ (Goes(s, "send", c) \/ Goes(s, "wait", c) \/ Goes(s, "note", ""))
           /\ arrived' = arrived
    BY <1>3, <1>f DEF Register, Send, GiveUp, Reply
  <2> QED BY <2>1, <2>2, <1>g, <1>a, StepsAre
<1>7. UNCHANGED <<verdict, killed, exited>>
  BY DEF Goroutine, Spawn, Note, Register, Send, GiveUp, Reply, outVars
<1> QED BY <1>1, <1>2, <1>3, <1>7 DEF Goroutine

\* The other steps leave the goroutines alone, and start no child.
LEMMA OtherStep ==
  ASSUME TypeOK, [Next]_vars, \A s \in Server : ~ Goroutine(s)
  PROVE  /\ UNCHANGED <<go, arrived>>
         /\ \A s \in Server : child[s] = "none" => child'[s] = "none"
<1>t. ChildOK
  BY TypeParts
<1>1. ASSUME NEW s \in Server, Timer(s) \/ ReadEnds(s) \/ drainChildInflight(s)
             \/ (\E c \in Call : ChildAnswers(s, c)) \/ Collector \/ UNCHANGED vars
      PROVE  UNCHANGED <<go, arrived, child>>
  BY <1>1 DEF Timer, ReadEnds, drainChildInflight, ChildAnswers, Collector, Decide,
     Exit, vars, childVars
<1>2. ASSUME NEW s \in Server, ChildExits(s)
      PROVE  /\ UNCHANGED <<go, arrived>>
             /\ \A r \in Server : child[r] = "none" => child'[r] = "none"
  BY <1>2, <1>t DEF ChildExits, ChildOK
<1> QED BY <1>1, <1>2, UsedServers DEF Next

LEMMA CountedKept == ASSUME TypeOK, Counted, [Next]_vars PROVE Counted'
<1>t. GoOK
  BY TypeParts
<1>1. Used' = Used
  BY ModeStays
<1>2. CASE UNCHANGED <<go, arrived>>
  <2>1. Over' = Over
    BY <1>2 DEF Over, At
  <2> QED BY <1>1, <1>2, <2>1 DEF Counted, At
<1>3. ASSUME NEW s \in Server, GoStep(s) PROVE Counted'
  <2>1. \A r \in Server \ Used : At(r, "spawn", "")'
    <3>1. s \in Used
      BY <1>3 DEF GoStep, Counted, At
    <3>2. \E to : go' = [go EXCEPT ![s] = to]
      BY <1>3 DEF GoStep, Arrives, Goes
    <3> QED BY <3>1, <3>2, <1>t DEF Counted, At, GoOK
  <2>2. CASE \E ok \in BOOLEAN : Arrives(s, ok)
    <3>1. Over' = Over \cup {s} /\ s \notin Over
      BY <1>3, <2>2, <1>t DEF GoStep, Arrives, Goes, Over, At, GoOK
    <3>2. PICK ok \in BOOLEAN : arrived' = Append(arrived, [of |-> s, ok |-> ok])
      BY <2>2 DEF Arrives
    <3>3. Len(arrived') = Len(arrived) + 1
      <4>1. [of |-> s, ok |-> ok] \in [of : Server, ok : BOOLEAN]
        OBVIOUS
      <4> QED BY <3>2, <4>1, <1>t, Appending, Zenon DEF GoOK
    <3>4. IsFiniteSet(Over)
      BY ServersFinite, FS_Subset DEF Over
    <3>5. Cardinality(Over') = Cardinality(Over) + 1
      BY <3>1, <3>4, FS_AddElement
    <3> QED BY <1>1, <2>1, <3>3, <3>5 DEF Counted
  <2>3. CASE \E to \in Steps : to # <<"over", "">> /\ go' = [go EXCEPT ![s] = to]
                               /\ arrived' = arrived
    <3>1. Over' = Over
      BY <1>3, <2>3, <1>t DEF GoStep, Over, At, GoOK
    <3> QED BY <1>1, <2>1, <2>3, <3>1 DEF Counted
  <2> QED BY <1>3, <2>2, <2>3 DEF GoStep
<1> QED BY <1>2, <1>3, GoroutineStep, OtherStep

LEMMA OverUsed == ASSUME Counted PROVE Over \subseteq Used
<1> SUFFICES ASSUME NEW s \in Over, s \notin Used PROVE FALSE
  OBVIOUS
<1>1. go[s] = <<"over", "">> /\ go[s] = <<"spawn", "">>
  BY DEF Counted, Over, At
<1> QED BY <1>1, Apart

LEMMA AllReported ==
  ASSUME TypeOK, Counted, Len(arrived) = Cardinality(Used) PROVE Over = Used
<1>1. Cardinality(Over) = Cardinality(Used)
  BY DEF Counted
<1> QED BY <1>1, OverUsed, ServersFinite, FS_Subset

LEMMA SettledKept == ASSUME TypeOK, Counted, Settled, [Next]_vars PROVE Settled'
<1>m. mode' = mode /\ Used' = Used
  BY ModeStays
<1>1. ASSUME NEW s \in Server, Goroutine(s) PROVE Settled'
  <2>1. verdict = "none" /\ ~ exited
    <3>1. s \in Used /\ s \notin Over
      BY <1>1, GoroutineStep DEF GoStep, Counted, At, Over
    <3> QED BY <3>1 DEF Settled
  <2> QED BY <1>1, <2>1, GoroutineStep DEF Settled, NoneLeftBehind
<1>2. CASE Decide
  <2>1. Over' = Used'
    <3>1. Over = Used
      BY <1>2, AllReported DEF Decide
    <3> QED BY <1>2, <1>m, <3>1 DEF Decide, Over, At
  <2>2. ~ exited /\ exited' = exited /\ child' = child
    BY <1>2 DEF Decide, Settled, childVars
  <2>3. mode = "live" /\ verdict' = "failed" => killed' = Started
    BY <1>2 DEF Decide, Doomed
  <2>4. Started' = Started
    BY <1>m, <2>2 DEF Started
  <2> QED BY <1>m, <2>1, <2>2, <2>3, <2>4 DEF Settled, NoneLeftBehind
<1>3. CASE Exit
  <2>1. verdict # "none" /\ verdict' = verdict /\ mode # "live" /\ Over' = Over
        /\ Started' = Started
    BY <1>3, <1>m DEF Exit, Over, At, childVars, Started
  <2>2. mode \in {"verify", "direct"} => killed' = Started
    BY <1>3 DEF Exit, Reaps
  <2> QED BY <1>m, <2>1, <2>2 DEF Settled, NoneLeftBehind
<1>4. CASE UNCHANGED <<verdict, killed, exited>> /\ \A s \in Server : ~ Goroutine(s)
  <2>1. Over' = Over
    BY <1>4, OtherStep DEF Over, At
  <2>2. Started' \subseteq Started
    BY <1>m, <1>4, OtherStep, UsedServers DEF Started
  <2> QED BY <1>m, <1>4, <2>1, <2>2 DEF Settled, NoneLeftBehind
<1>5. ASSUME NEW s \in Server, Timer(s) \/ ReadEnds(s) \/ drainChildInflight(s)
             \/ ChildExits(s) \/ (\E c \in Call : ChildAnswers(s, c)) \/ UNCHANGED vars
      PROVE  UNCHANGED <<verdict, killed, exited>>
  BY <1>5 DEF Timer, ReadEnds, drainChildInflight, ChildAnswers, ChildExits, vars, outVars
<1> QED BY <1>1, <1>2, <1>3, <1>4, <1>5, UsedServers DEF Next, Collector

LEMMA Invariant == Spec => []IInv
<1>1. IInv /\ [Next]_vars => IInv'
  BY TypesKept, TableKept, CountedKept, SettledKept DEF IInv
<1> QED BY InitInvariant, <1>1, PTL DEF Spec

-----------------------------------------------------------------------------
\* A handshake that is over, whether it was answered, refused, timed out or cut off
\* by the child's death, has no slot in the in-flight table.
THEOREM SlotsAreFreed == Spec => []NoSlotLeft
<1>1. IInv => NoSlotLeft
  BY Apart DEF IInv, Slots, At, NoSlotLeft
<1> QED BY <1>1, Invariant, PTL

\* A start that fails kills every child it started, also one whose handshake
\* failed; a verification leaves none behind.
THEOREM NoChildSurvives == Spec => []NoneLeftBehind
<1>1. IInv => NoneLeftBehind
  BY DEF IInv, Settled
<1> QED BY <1>1, Invariant, PTL

-----------------------------------------------------------------------------
(* Induction over data, with sets of numbers. *)

\* Sets of natural numbers have a least element.
LEMMA Least ==
  ASSUME NEW T, T \subseteq Nat, T # {}
  PROVE  \E n \in T : \A m \in T : n <= m
<1>1. IsWellFoundedOn(OpToRel(<, Nat), Nat)
  BY NatLessThanWellFounded, Zenon
<1>2. PICK n \in T : \A m \in T : ~ (<<m, n>> \in OpToRel(<, Nat))
  BY <1>1, WFMin, Zenon
<1>3. \A m \in T : ~ (m < n)
  BY <1>2 DEF OpToRel
<1> QED BY <1>3

\* Induction: a set that has 0 and, with each number, the next one has them all.
LEMMA Induct ==
  ASSUME NEW T, 0 \in T, \A n \in T : n \in Nat => n + 1 \in T
  PROVE  Nat \subseteq T
<1> SUFFICES ASSUME Nat \ T # {} PROVE FALSE
  OBVIOUS
<1>1. PICK n \in Nat \ T : \A m \in Nat \ T : n <= m
  BY Least
<1>2. n # 0
  BY <1>1
<1>3. n - 1 \in Nat /\ n - 1 \notin Nat \ T
  BY <1>1, <1>2
<1>4. (n - 1) + 1 = n
  BY <1>1
<1> QED BY <1>1, <1>3, <1>4

-----------------------------------------------------------------------------
(* Flattening. *)

\* f has the flattenings of the first 1 to n sequences of q.
Parts(q, f, n) ==
  f = [i \in 1..n |-> IF i = 1 THEN q[i] ELSE f[i - 1] \o q[i]]

LEMMA PartsExist == ASSUME NEW q, Len(q) \in Nat PROVE \E f : Parts(q, f, Len(q))
<1> DEFINE T == {n \in Nat : \E f : Parts(q, f, n)}
<1>1. 0 \in T
  <2>1. Parts(q, [i \in 1..0 |-> q[i]], 0)
    BY DEF Parts
  <2> QED BY <2>1
<1>2. ASSUME NEW n \in T PROVE n + 1 \in T
  <2>0. n \in Nat
    OBVIOUS
  <2>1. PICK f : Parts(q, f, n)
    OBVIOUS
  <2> DEFINE g == [i \in 1..n+1 |-> IF i <= n THEN f[i]
                                  ELSE IF i = 1 THEN q[i] ELSE f[i - 1] \o q[i]]
  <2>2. ASSUME NEW i \in 1..n+1
        PROVE  g[i] = IF i = 1 THEN q[i] ELSE g[i - 1] \o q[i]
    <3> HIDE DEF T
    <3>1. CASE i = n + 1
      BY <2>0, <3>1
    <3>2. CASE i # n + 1
      <4>1. i \in 1..n /\ (i # 1 => i - 1 \in 1..n)
        BY <2>0, <3>2
      <4>2. f[i] = IF i = 1 THEN q[i] ELSE f[i - 1] \o q[i]
        BY <2>1, <4>1 DEF Parts
      <4> QED BY <2>0, <4>1, <4>2
    <3> QED BY <3>1, <3>2
  <2>3. Parts(q, g, n + 1)
    BY <2>2 DEF Parts
  <2> QED BY <2>0, <2>3
<1> HIDE DEF T
<1>3. Len(q) \in T
  BY <1>1, <1>2, Induct
<1> QED BY <1>3 DEF T

LEMMA Flattens ==
  ASSUME NEW q, Len(q) \in Nat \ {0}
  PROVE  \E f : Parts(q, f, Len(q)) /\ FlattenSeq(q) = f[Len(q)]
<1> DEFINE flatten[i \in 1..Len(q)] == IF i = 1 THEN q[i] ELSE flatten[i-1] \o q[i]
<1>1. Parts(q, flatten, Len(q))
  BY PartsExist DEF Parts
<1>2. FlattenSeq(q) = flatten[Len(q)]
  BY DEF FlattenSeq
<1> QED BY <1>1, <1>2

\* s has t from its place d + 1 on.
Has(s, d, t) ==
  d \in Nat /\ d + Len(t) <= Len(s) /\ \A j \in 1..Len(t) : s[d + j] = t[j]

\* s is made of the first n sequences of q.
Joins(A, s, q, n) ==
  /\ s \in Seq(A)
  /\ \A i \in 1..n : \E d : Has(s, d, q[i])
  /\ \A k \in 1..Len(s) : \E i \in 1..n : \E j \in 1..Len(q[i]) : s[k] = q[i][j]

LEMMA PartsHave ==
  ASSUME NEW A, NEW q \in Seq(Seq(A)), NEW f, Parts(q, f, Len(q))
  PROVE  \A n \in 1..Len(q) : Joins(A, f[n], q, n)
<1> DEFINE P(n) == Joins(A, f[n], q, n)
           T == {n \in Nat : n \in 1..Len(q) => P(n)}
<1> HIDE DEF P
<1>0. /\ Len(q) \in Nat
      /\ 1 \in 1..Len(q) => f[1] = q[1]
      /\ \A i \in 1..Len(q) : i # 1 => f[i] = f[i - 1] \o q[i]
  <2>1. Len(q) \in Nat
    OBVIOUS
  <2>2. \A i \in 1..Len(q) : f[i] = IF i = 1 THEN q[i] ELSE f[i - 1] \o q[i]
    BY DEF Parts
  <2> QED BY <2>1, <2>2
<1>1. 0 \in T
  OBVIOUS
<1>2. ASSUME NEW n \in Nat, n \in 1..Len(q) => P(n), n + 1 \in 1..Len(q) PROVE P(n + 1)
  <2>0. q[n + 1] \in Seq(A)
    BY <1>2
  <2>1. CASE n = 0
    <3>1. f[1] = q[1] /\ q[1] \in Seq(A)
      BY <1>0, <1>2, <2>1
    <3>2. Has(f[1], 0, q[1])
      BY <3>1 DEF Has
    <3>3. P(1)
      BY <3>1, <3>2 DEF P, Joins
    <3> QED BY <2>1, <3>3
  <2>2. CASE n # 0
    <3>1. P(n) /\ n \in 1..Len(q)
      BY <1>0, <1>2, <2>2
    <3>2. f[n + 1] = f[n] \o q[n + 1]
      <4>1. (n + 1) - 1 = n /\ n + 1 # 1
        BY <2>2
      <4> QED BY <1>0, <1>2, <4>1
    <3> DEFINE a == f[n]
               b == q[n + 1]
    <3>3. a \in Seq(A) /\ b \in Seq(A)
      BY <2>0, <3>1 DEF P, Joins
    <3> HIDE DEF a, b
    <3>4. /\ a \o b \in Seq(A) /\ Len(a \o b) = Len(a) + Len(b)
          /\ \A k \in 1..Len(a) : (a \o b)[k] = a[k]
          /\ \A k \in 1..Len(b) : (a \o b)[Len(a) + k] = b[k]
          /\ \A k \in 1..Len(a) + Len(b) : k > Len(a) =>
               k - Len(a) \in 1..Len(b) /\ (a \o b)[k] = b[k - Len(a)]
          /\ Len(a) \in Nat /\ Len(b) \in Nat
      BY <3>3
    <3>5. f[n + 1] \in Seq(A)
      BY <3>2, <3>4 DEF a, b
    <3>6. ASSUME NEW i \in 1..n + 1 PROVE \E d : Has(a \o b, d, q[i])
      <4>1. CASE i = n + 1
        <5>1. Has(a \o b, Len(a), b)
          BY <3>4 DEF Has
        <5> QED BY <4>1, <5>1 DEF b
      <4>2. CASE i # n + 1
        <5>0. i \in 1..n
          BY <4>2, <2>0
        <5>1. PICK d : Has(a, d, q[i])
          BY <5>0, <3>1 DEF a, P, Joins
        <5>2. Len(q[i]) \in Nat
          BY <5>0, <1>0
        <5>3. Has(a \o b, d, q[i])
          BY <3>4, <5>1, <5>2 DEF Has
        <5> QED BY <5>3
      <4> QED BY <4>1, <4>2
    <3>7. ASSUME NEW k \in 1..Len(a \o b)
          PROVE  \E i \in 1..n + 1 : \E j \in 1..Len(q[i]) : (a \o b)[k] = q[i][j]
      <4>1. CASE k <= Len(a)
        <5>1. k \in 1..Len(a) /\ (a \o b)[k] = a[k]
          BY <3>4, <4>1
        <5>2. PICK i \in 1..n : \E j \in 1..Len(q[i]) : a[k] = q[i][j]
          BY <3>1, <5>1 DEF a, P, Joins
        <5>3. i \in 1..n + 1
          BY <2>0
        <5> QED BY <5>1, <5>2, <5>3
      <4>2. CASE k > Len(a)
        <5>1. k - Len(a) \in 1..Len(b) /\ (a \o b)[k] = b[k - Len(a)]
          BY <3>4, <4>2
        <5>2. n + 1 \in 1..n + 1
          BY <2>0
        <5> QED BY <5>1, <5>2 DEF b
      <4> QED BY <4>1, <4>2, <3>4
    <3>8. f[n + 1] = a \o b
      BY <3>2 DEF a, b
    <3> QED BY <3>5, <3>6, <3>7, <3>8 DEF P, Joins
  <2> QED BY <2>1, <2>2
<1>3. \A n \in T : n + 1 \in T
  BY <1>2
<1>4. Nat \subseteq T
  <2> HIDE DEF T
  <2> QED BY <1>1, <1>3, Induct
<1>5. \A n \in 1..Len(q) : P(n)
  BY <1>0, <1>4
<1> QED BY <1>5 DEF P

\* The names of a sequence of entries.
Names(s) == [k \in DOMAIN s |-> s[k].name]

LEMMA NamesConcat ==
  ASSUME NEW E, NEW s \in Seq(E), NEW t \in Seq(E)
  PROVE  Names(s \o t) = Names(s) \o Names(t)
<1> DEFINE N == {e.name : e \in E}
<1>0. s \in Seq(E) /\ t \in Seq(E) /\ \A e \in E : e.name \in N
  OBVIOUS
<1> HIDE DEF N
<1>1. /\ Names(s) = [k \in 1..Len(s) |-> s[k].name] /\ Names(s) \in Seq(N)
      /\ Names(t) = [k \in 1..Len(t) |-> t[k].name] /\ Names(t) \in Seq(N)
      /\ Len(Names(s)) = Len(s) /\ Len(Names(t)) = Len(t)
      /\ Len(s) \in Nat /\ Len(t) \in Nat
  <2>1. \A k \in 1..Len(s) : s[k].name \in N
    BY <1>0
  <2>2. \A k \in 1..Len(t) : t[k].name \in N
    BY <1>0
  <2>3. DOMAIN s = 1..Len(s) /\ DOMAIN t = 1..Len(t) /\ Len(s) \in Nat /\ Len(t) \in Nat
    BY <1>0
  <2>4. /\ Names(s) = [k \in 1..Len(s) |-> s[k].name]
        /\ Names(t) = [k \in 1..Len(t) |-> t[k].name]
    BY <2>3 DEF Names
  <2> QED BY <2>1, <2>2, <2>3, <2>4
<1>2. Names(s \o t) = [k \in 1..Len(s) + Len(t) |-> (s \o t)[k].name]
  BY <1>0 DEF Names
<1>3. ASSUME NEW k \in 1..Len(s) + Len(t)
      PROVE  (s \o t)[k].name = (Names(s) \o Names(t))[k]
  <2>1. CASE k <= Len(s)
    <3>1. (s \o t)[k] = s[k] /\ k \in 1..Len(s)
      BY <1>0, <1>1, <2>1
    <3>2. (Names(s) \o Names(t))[k] = Names(s)[k]
      BY <1>1, <3>1
    <3> QED BY <1>1, <3>1, <3>2
  <2>2. CASE k > Len(s)
    <3>1. (s \o t)[k] = t[k - Len(s)] /\ k - Len(s) \in 1..Len(t)
      BY <1>0, <1>1, <2>2
    <3>2. (Names(s) \o Names(t))[k] = Names(t)[k - Len(s)]
      BY <1>1, <2>2
    <3> QED BY <1>1, <3>1, <3>2
  <2> QED BY <1>1, <2>1, <2>2
<1>4. Names(s) \o Names(t) = [k \in 1..Len(s) + Len(t) |-> (Names(s) \o Names(t))[k]]
  BY <1>1
<1> QED BY <1>1, <1>2, <1>3, <1>4

\* The names of a flattening are the flattening of the names.
LEMMA FlattenNames ==
  ASSUME NEW E, NEW q \in Seq(Seq(E)), q # <<>>
  PROVE  FlattenSeq([i \in DOMAIN q |-> Names(q[i])]) = Names(FlattenSeq(q))
<1> DEFINE p == [i \in DOMAIN q |-> Names(q[i])]
<1>1. Len(q) \in Nat \ {0} /\ DOMAIN q = 1..Len(q) /\ q \in Seq(Seq(E))
  OBVIOUS
<1>2. Len(p) = Len(q)
  BY <1>1
<1>3. PICK f : Parts(q, f, Len(q)) /\ FlattenSeq(q) = f[Len(q)]
  BY <1>1, Flattens
<1>4. PICK g : Parts(p, g, Len(q)) /\ FlattenSeq(p) = g[Len(q)]
  BY <1>1, <1>2, Flattens
<1>f. \A i \in 1..Len(q) : f[i] = IF i = 1 THEN q[i] ELSE f[i - 1] \o q[i]
  BY <1>3 DEF Parts
<1>g. \A i \in 1..Len(q) : g[i] = IF i = 1 THEN p[i] ELSE g[i - 1] \o p[i]
  BY <1>4 DEF Parts
<1>p. \A i \in 1..Len(q) : p[i] = Names(q[i])
  BY <1>1
<1>5. \A i \in 1..Len(q) : f[i] \in Seq(E) /\ q[i] \in Seq(E)
  <2>1. \A i \in 1..Len(q) : Joins(E, f[i], q, i)
    BY <1>1, <1>3, PartsHave
  <2> QED BY <1>1, <2>1 DEF Joins
<1> DEFINE P(n) == g[n] = Names(f[n])
           T == {n \in Nat : n \in 1..Len(q) => P(n)}
<1> HIDE DEF p, P
<1>6. 0 \in T
  OBVIOUS
<1>7. ASSUME NEW n \in Nat, n \in 1..Len(q) => P(n), n + 1 \in 1..Len(q) PROVE P(n + 1)
  <2>1. CASE n = 0
    BY <1>f, <1>g, <1>p, <1>7, <2>1 DEF P
  <2>2. CASE n # 0
    <3>0. n \in 1..Len(q) /\ (n + 1) - 1 = n /\ n + 1 # 1
      BY <1>1, <1>7, <2>2
    <3>1. /\ f[n + 1] = f[n] \o q[n + 1]
          /\ g[n + 1] = g[n] \o Names(q[n + 1])
      BY <1>f, <1>g, <1>p, <1>7, <3>0
    <3>2. g[n] = Names(f[n])
      BY <1>7, <3>0 DEF P
    <3>3. f[n] \in Seq(E) /\ q[n + 1] \in Seq(E)
      BY <1>5, <1>7, <3>0
    <3>4. Names(f[n] \o q[n + 1]) = Names(f[n]) \o Names(q[n + 1])
      <4> DEFINE a == f[n]
                 b == q[n + 1]
      <4>1. a \in Seq(E) /\ b \in Seq(E)
        BY <3>3
      <4> HIDE DEF a, b
      <4>2. Names(a \o b) = Names(a) \o Names(b)
        BY <4>1, NamesConcat
      <4> QED BY <4>2 DEF a, b
    <3> QED BY <3>1, <3>2, <3>4 DEF P
  <2> QED BY <2>1, <2>2
<1>8. Nat \subseteq T
  <2>1. \A n \in T : n + 1 \in T
    <3>1. ASSUME NEW n \in T, n + 1 \in 1..Len(q) PROVE P(n + 1)
      BY <1>7, <3>1
    <3> QED BY <3>1
  <2> HIDE DEF T
  <2> QED BY <1>6, <2>1, Induct
<1>9. P(Len(q))
  BY <1>1, <1>8
<1> QED BY <1>3, <1>4, <1>9 DEF P, p

-----------------------------------------------------------------------------
(* mergeCatalogs. *)

\* A tool and the server that reported it.
Entry == [name : Valid, of : Server]

\* acc has what mergeCatalogs has made of the first 0 to n entries of q.
Loop(q, acc, n) ==
  acc = [k \in 0..n |-> IF k = 0 THEN Empty ELSE Takes(acc[k - 1], q[k])]

LEMMA LoopExists == ASSUME NEW q, Len(q) \in Nat PROVE \E acc : Loop(q, acc, Len(q))
<1> DEFINE T == {n \in Nat : \E acc : Loop(q, acc, n)}
<1>1. 0 \in T
  <2>1. Loop(q, [k \in 0..0 |-> Empty], 0)
    BY DEF Loop
  <2> QED BY <2>1
<1>2. ASSUME NEW n \in T PROVE n + 1 \in T
  <2>0. n \in Nat
    OBVIOUS
  <2>1. PICK f : Loop(q, f, n)
    OBVIOUS
  <2> DEFINE g == [k \in 0..n+1 |-> IF k <= n THEN f[k] ELSE Takes(f[n], q[n + 1])]
  <2>2. ASSUME NEW k \in 0..n+1
        PROVE  g[k] = IF k = 0 THEN Empty ELSE Takes(g[k - 1], q[k])
    <3> HIDE DEF T
    <3>1. CASE k = n + 1
      BY <2>0, <3>1
    <3>2. CASE k # n + 1
      <4>1. k \in 0..n /\ (k # 0 => k - 1 \in 0..n)
        BY <2>0, <3>2
      <4>2. f[k] = IF k = 0 THEN Empty ELSE Takes(f[k - 1], q[k])
        BY <2>1, <4>1 DEF Loop
      <4> QED BY <2>0, <4>1, <4>2
    <3> QED BY <3>1, <3>2
  <2>3. Loop(q, g, n + 1)
    BY <2>2 DEF Loop
  <2> QED BY <2>0, <2>3
<1> HIDE DEF T
<1>3. Len(q) \in T
  BY <1>1, <1>2, Induct
<1> QED BY <1>3 DEF T

LEMMA MergeLoops ==
  ASSUME NEW kids, Len(Entries(kids)) \in Nat
  PROVE  \E acc : /\ Loop(Entries(kids), acc, Len(Entries(kids)))
                  /\ mergeCatalogs(kids) = acc[Len(Entries(kids))]
<1> DEFINE q == Entries(kids)
           merged[k \in 0..Len(q)] == IF k = 0 THEN Empty ELSE Takes(merged[k - 1], q[k])
<1>1. Loop(q, merged, Len(q))
  BY LoopExists DEF Loop
<1>2. mergeCatalogs(kids) = merged[Len(q)]
  BY DEF mergeCatalogs
<1> QED BY <1>1, <1>2

\* What the loop has made of the first n entries, if no name came twice.
Sound(q, acc, n) ==
  /\ acc.clash \in BOOLEAN
  /\ acc = [routes |-> acc.routes, catalog |-> acc.catalog, clash |-> acc.clash]
  /\ ~ acc.clash =>
       /\ acc.catalog \in Seq(Valid) /\ Len(acc.catalog) = n
       /\ \A j \in 1..n : acc.catalog[j] = q[j].name
       /\ DOMAIN acc.routes = {q[j].name : j \in 1..n}
       /\ \A j \in 1..n : acc.routes[q[j].name] = q[j].of
       /\ \A i, j \in 1..n : q[i].name = q[j].name => i = j

\* The loop of mergeCatalogs.
LEMMA LoopSound ==
  ASSUME NEW q \in Seq(Entry), NEW acc, Loop(q, acc, Len(q))
  PROVE  Sound(q, acc[Len(q)], Len(q))
<1>1. Len(q) \in Nat
  OBVIOUS
<1>2. \A k \in 0..Len(q) : acc[k] = IF k = 0 THEN Empty ELSE Takes(acc[k - 1], q[k])
  BY DEF Loop
<1> DEFINE P(n) == Sound(q, acc[n], n)
           T == {n \in Nat : n \in 0..Len(q) => P(n)}
<1> HIDE DEF P
<1>3. 0 \in T
  <2>1. acc[0] = Empty
    BY <1>1, <1>2
  <2>2. Sound(q, Empty, 0)
    BY DEF Sound, Empty, Map!NoKeys
  <2> QED BY <2>1, <2>2 DEF P
<1>4. ASSUME NEW n \in Nat, n \in 0..Len(q) => P(n), n + 1 \in 0..Len(q) PROVE P(n + 1)
  <2>0. n \in 0..Len(q) /\ n + 1 # 0 /\ (n + 1) - 1 = n /\ n + 1 \in 1..Len(q)
    BY <1>1, <1>4
  <2> DEFINE a == acc[n]
             e == q[n + 1]
  <2>1. acc[n + 1] = Takes(a, e)
    BY <1>2, <1>4, <2>0
  <2>2. Sound(q, a, n)
    BY <1>4, <2>0 DEF P
  <2>3. e \in Entry
    BY <2>0
  <2> HIDE DEF a
  <2>4. CASE a.clash \/ e.name \in DOMAIN a.routes
    <3>1. Takes(a, e) = Collision
      BY <2>4 DEF Takes
    <3>2. Sound(q, Collision, n + 1)
      BY DEF Sound, Collision
    <3> QED BY <2>1, <3>1, <3>2 DEF P
  <2>5. CASE ~ (a.clash \/ e.name \in DOMAIN a.routes)
    <3> DEFINE b == Takes(a, e)
    <3>1. b = [routes |-> Map!Put(a.routes, e.name, e.of),
               catalog |-> Append(a.catalog, e.name), clash |-> a.clash]
      <4>1. b = Adds(a, e)
        BY <2>5 DEF Takes
      <4>2. a = [routes |-> a.routes, catalog |-> a.catalog, clash |-> a.clash]
        BY <2>2 DEF Sound
      <4> QED BY <4>1, <4>2 DEF Adds
    <3>2. ~ a.clash /\ b.clash = FALSE
      BY <2>2, <2>5, <3>1 DEF Sound
    <3> HIDE DEF b
    <3>3. /\ a.catalog \in Seq(Valid) /\ Len(a.catalog) = n /\ e.name \in Valid
          /\ \A j \in 1..n : a.catalog[j] = q[j].name
      BY <2>2, <2>3, <3>2 DEF Sound, Entry
    <3>4. /\ b.catalog \in Seq(Valid) /\ Len(b.catalog) = n + 1
          /\ \A j \in 1..n + 1 : b.catalog[j] = q[j].name
      BY <3>1, <3>3
    <3>5. /\ DOMAIN b.routes = DOMAIN a.routes \cup {e.name}
          /\ b.routes[e.name] = e.of
          /\ \A x \in DOMAIN a.routes : x # e.name => b.routes[x] = a.routes[x]
      <4>1. b.routes = Map!Put(a.routes, e.name, e.of)
        BY <3>1
      <4> QED BY <4>1 DEF Map!Put
    <3>6. DOMAIN a.routes = {q[j].name : j \in 1..n}
      BY <2>2, <3>2 DEF Sound
    <3>7. 1..n + 1 = (1..n) \cup {n + 1}
      OBVIOUS
    <3>8. DOMAIN b.routes = {q[j].name : j \in 1..n + 1}
      BY <3>5, <3>6, <3>7
    <3>9. \A j \in 1..n : q[j].name # e.name /\ a.routes[q[j].name] = q[j].of
      BY <2>2, <2>5, <3>2, <3>6 DEF Sound
    <3>10. \A j \in 1..n + 1 : b.routes[q[j].name] = q[j].of
      BY <3>5, <3>6, <3>7, <3>9
    <3>11. \A i, j \in 1..n : q[i].name = q[j].name => i = j
      BY <2>2, <3>2 DEF Sound
    <3>12. \A i, j \in 1..n + 1 : q[i].name = q[j].name => i = j
      BY <3>7, <3>9, <3>11
    <3>13. b = [routes |-> b.routes, catalog |-> b.catalog, clash |-> b.clash]
      BY <3>1
    <3>14. Sound(q, b, n + 1)
      BY <3>2, <3>4, <3>8, <3>10, <3>12, <3>13 DEF Sound
    <3> QED BY <2>1, <3>14 DEF P, b
  <2> QED BY <2>4, <2>5
<1>5. Nat \subseteq T
  <2>1. \A n \in T : n + 1 \in T
    <3>1. ASSUME NEW n \in T, n + 1 \in 0..Len(q) PROVE P(n + 1)
      BY <1>4, <3>1
    <3> QED BY <3>1
  <2> HIDE DEF T
  <2> QED BY <1>3, <2>1, Induct
<1>6. P(Len(q))
  BY <1>1, <1>5
<1> QED BY <1>6 DEF P

\* The lists that the children have reported, in the order of kids.
Reported(kids) == [i \in DOMAIN kids |-> tools[kids[i]]]

\* Every server's list is one of names that may be served.
Parsed == tools \in [Server -> Seq(Valid)]

\* The entry of tool j of server s.
Is(entry, s, j) == entry.name = tools[s][j] /\ entry.of = s

LEMMA EntriesAre ==
  ASSUME Parsed, NEW kids \in Seq(Server), kids # <<>>
  PROVE  /\ Entries(kids) \in Seq(Entry)
         /\ Names(Entries(kids)) = FlattenSeq(Reported(kids))
         /\ \A i \in DOMAIN kids : \E d \in Nat : \A j \in DOMAIN tools[kids[i]] :
              /\ d + j \in 1..Len(Entries(kids))
              /\ Is(Entries(kids)[d + j], kids[i], j)
         /\ \A k \in 1..Len(Entries(kids)) : \E i \in DOMAIN kids :
              \E j \in DOMAIN tools[kids[i]] :
                Is(Entries(kids)[k], kids[i], j)
<1> DEFINE q == [i \in DOMAIN kids |->
                   [j \in DOMAIN tools[kids[i]] |-> [name |-> tools[kids[i]][j], of |-> kids[i]]]]
<1>1. /\ DOMAIN kids = 1..Len(kids) /\ Len(kids) \in Nat \ {0}
      /\ \A i \in 1..Len(kids) : kids[i] \in Server /\ tools[kids[i]] \in Seq(Valid)
  BY DEF Parsed
<1>2. ASSUME NEW i \in 1..Len(kids)
      PROVE  /\ q[i] \in Seq(Entry) /\ Len(q[i]) = Len(tools[kids[i]])
             /\ Names(q[i]) = tools[kids[i]]
             /\ \A j \in 1..Len(tools[kids[i]]) : Is(q[i][j], kids[i], j)
  <2> DEFINE t == tools[kids[i]]
  <2>1. t \in Seq(Valid) /\ kids[i] \in Server
    BY <1>1
  <2>2. q[i] = [j \in DOMAIN t |-> [name |-> t[j], of |-> kids[i]]]
    BY <1>1
  <2> HIDE DEF t, q
  <2>3. /\ Len(t) \in Nat /\ DOMAIN t = 1..Len(t) /\ t = [j \in 1..Len(t) |-> t[j]]
        /\ \A j \in 1..Len(t) : t[j] \in Valid
    BY <2>1
  <2>4. \A j \in 1..Len(t) : [name |-> t[j], of |-> kids[i]] \in Entry
    BY <2>1, <2>3 DEF Entry
  <2>5. q[i] \in Seq(Entry) /\ Len(q[i]) = Len(t)
    BY <2>2, <2>3, <2>4
  <2>6. Names(q[i]) = t
    BY <2>2, <2>3 DEF Names
  <2>7. \A j \in 1..Len(t) : Is(q[i][j], kids[i], j)
    BY <2>2, <2>3 DEF Is, t
  <2> QED BY <2>5, <2>6, <2>7 DEF t
<1>3. Entries(kids) = FlattenSeq(q)
  BY DEF Entries
<1>4. DOMAIN q = 1..Len(kids)
  BY <1>1
<1> HIDE DEF q
<1>5. q \in Seq(Seq(Entry)) /\ Len(q) = Len(kids) /\ q # <<>>
  <2>1. q = [i \in 1..Len(kids) |-> q[i]]
    BY <1>4 DEF q
  <2> QED BY <1>1, <1>2, <2>1
<1>6. Reported(kids) = [i \in DOMAIN q |-> Names(q[i])]
  BY <1>1, <1>2, <1>4 DEF Reported
<1>7. Names(Entries(kids)) = FlattenSeq(Reported(kids))
  BY <1>3, <1>5, <1>6, FlattenNames
<1>8. PICK f : Parts(q, f, Len(q)) /\ FlattenSeq(q) = f[Len(q)]
  BY <1>1, <1>5, Flattens
<1> DEFINE e == f[Len(q)]
<1>9. /\ e \in Seq(Entry)
      /\ \A i \in 1..Len(q) : \E d : Has(e, d, q[i])
      /\ \A k \in 1..Len(e) : \E i \in 1..Len(q) : \E j \in 1..Len(q[i]) : e[k] = q[i][j]
  <2>1. Len(q) \in 1..Len(q)
    BY <1>1, <1>5
  <2>2. q \in Seq(Seq(Entry)) /\ Parts(q, f, Len(q))
    BY <1>5, <1>8
  <2>3. \A n \in 1..Len(q) : Joins(Entry, f[n], q, n)
    BY <2>2, PartsHave
  <2> QED BY <2>1, <2>3 DEF Joins
<1>10. Entries(kids) = e
  BY <1>3, <1>8
<1> HIDE DEF e
<1>11. ASSUME NEW i \in DOMAIN kids
       PROVE  \E d \in Nat : \A j \in DOMAIN tools[kids[i]] :
                /\ d + j \in 1..Len(e)
                /\ Is(e[d + j], kids[i], j)
  <2>1. PICK d : Has(e, d, q[i])
    BY <1>1, <1>5, <1>9
  <2>2. /\ d \in Nat /\ d + Len(tools[kids[i]]) <= Len(e)
        /\ \A j \in 1..Len(tools[kids[i]]) : e[d + j] = q[i][j]
    BY <1>1, <1>2, <2>1 DEF Has
  <2>3. /\ DOMAIN tools[kids[i]] = 1..Len(tools[kids[i]]) /\ Len(tools[kids[i]]) \in Nat
        /\ Len(e) \in Nat
    BY <1>1, <1>9
  <2>4. ASSUME NEW j \in DOMAIN tools[kids[i]]
        PROVE  d + j \in 1..Len(e) /\ Is(e[d + j], kids[i], j)
    <3>1. j \in 1..Len(tools[kids[i]]) /\ i \in 1..Len(kids)
      BY <1>1, <2>3
    <3>2. d + j \in 1..Len(e)
      BY <2>2, <2>3, <3>1
    <3>3. e[d + j] = q[i][j] /\ Is(q[i][j], kids[i], j)
      BY <1>2, <2>2, <3>1
    <3> QED BY <3>2, <3>3
  <2> QED BY <2>2, <2>4
<1>12. ASSUME NEW k \in 1..Len(e)
       PROVE  \E i \in DOMAIN kids : \E j \in DOMAIN tools[kids[i]] :
                Is(e[k], kids[i], j)
  <2>1. PICK i \in 1..Len(q) : \E j \in 1..Len(q[i]) : e[k] = q[i][j]
    BY <1>9
  <2>2. DOMAIN tools[kids[i]] = 1..Len(q[i]) /\ i \in DOMAIN kids
    BY <1>1, <1>2, <1>5
  <2> QED BY <1>1, <1>2, <1>5, <2>1, <2>2
<1> QED BY <1>7, <1>9, <1>10, <1>11, <1>12

LEMMA MergedSound ==
  ASSUME Parsed, NEW kids \in Seq(Server), kids # <<>>, ~ mergeCatalogs(kids).clash
  PROVE  LET m == mergeCatalogs(kids) IN
         /\ m.catalog = FlattenSeq(Reported(kids))
         /\ IsInjective(m.catalog) /\ ToSet(m.catalog) \subseteq Valid
         /\ DOMAIN m.routes = ToSet(m.catalog)
         /\ \A n \in DOMAIN m.routes :
              m.routes[n] \in ToSet(kids) /\ n \in ToSet(tools[m.routes[n]])
         /\ \A s \in ToSet(kids) :
              /\ IsInjective(tools[s])
              /\ \A n \in ToSet(tools[s]) : n \in DOMAIN m.routes /\ m.routes[n] = s
<1> DEFINE m == mergeCatalogs(kids)
           e == Entries(kids)
<1>1. /\ e \in Seq(Entry) /\ Names(e) = FlattenSeq(Reported(kids))
      /\ \A i \in DOMAIN kids : \E d \in Nat : \A j \in DOMAIN tools[kids[i]] :
           d + j \in 1..Len(e) /\ Is(e[d + j], kids[i], j)
      /\ \A k \in 1..Len(e) : \E i \in DOMAIN kids : \E j \in DOMAIN tools[kids[i]] :
           Is(e[k], kids[i], j)
  BY EntriesAre
<1>2. Len(e) \in Nat /\ DOMAIN e = 1..Len(e) /\ \A k \in 1..Len(e) : e[k].name \in Valid
  <2> HIDE DEF e
  <2>1. \A k \in 1..Len(e) : e[k] \in Entry
    BY <1>1
  <2> QED BY <1>1, <2>1 DEF Entry
<1>3. PICK acc : Loop(e, acc, Len(e)) /\ m = acc[Len(e)]
  BY <1>2, MergeLoops
<1>4. Sound(e, m, Len(e)) /\ ~ m.clash
  BY <1>1, <1>3, LoopSound
<1> HIDE DEF m, e
<1>5. /\ m.catalog \in Seq(Valid) /\ Len(m.catalog) = Len(e)
      /\ \A j \in 1..Len(e) : m.catalog[j] = e[j].name
      /\ DOMAIN m.routes = {e[j].name : j \in 1..Len(e)}
      /\ \A j \in 1..Len(e) : m.routes[e[j].name] = e[j].of
      /\ \A i, j \in 1..Len(e) : e[i].name = e[j].name => i = j
  BY <1>4 DEF Sound
<1>6. /\ DOMAIN m.catalog = 1..Len(e)
      /\ m.catalog = [j \in 1..Len(e) |-> e[j].name]
  BY <1>5
<1>7. m.catalog = Names(e)
  BY <1>2, <1>6 DEF Names
<1>8. IsInjective(m.catalog) /\ ToSet(m.catalog) \subseteq Valid
      /\ DOMAIN m.routes = ToSet(m.catalog)
  BY <1>2, <1>5, <1>6 DEF IsInjective, ToSet
<1>9. ASSUME NEW n \in DOMAIN m.routes
      PROVE  m.routes[n] \in ToSet(kids) /\ n \in ToSet(tools[m.routes[n]])
  <2>1. PICK k \in 1..Len(e) : n = e[k].name
    BY <1>5
  <2>2. PICK i \in DOMAIN kids : \E j \in DOMAIN tools[kids[i]] :
          Is(e[k], kids[i], j)
    BY <1>1
  <2>3. PICK j \in DOMAIN tools[kids[i]] : Is(e[k], kids[i], j)
    BY <2>2
  <2>4. m.routes[n] = kids[i] /\ n = tools[kids[i]][j]
    BY <1>5, <2>1, <2>3 DEF Is
  <2> QED BY <2>4 DEF ToSet
<1>10. ASSUME NEW s \in ToSet(kids)
       PROVE  /\ IsInjective(tools[s])
              /\ \A n \in ToSet(tools[s]) : n \in DOMAIN m.routes /\ m.routes[n] = s
  <2>1. PICK i \in DOMAIN kids : s = kids[i]
    BY DEF ToSet
  <2>2. PICK d \in Nat : \A j \in DOMAIN tools[s] :
          d + j \in 1..Len(e) /\ Is(e[d + j], s, j)
    BY <1>1, <2>1
  <2>3. DOMAIN tools[s] = 1..Len(tools[s]) /\ Len(tools[s]) \in Nat
    BY <2>1 DEF Parsed
  <2>4. ASSUME NEW a \in DOMAIN tools[s], NEW b \in DOMAIN tools[s], tools[s][a] = tools[s][b]
        PROVE  a = b
    <3>1. d + a = d + b
      BY <1>5, <2>2, <2>4 DEF Is
    <3> QED BY <2>3, <3>1
  <2>5. ASSUME NEW n \in ToSet(tools[s]) PROVE n \in DOMAIN m.routes /\ m.routes[n] = s
    <3>1. PICK j \in DOMAIN tools[s] : n = tools[s][j]
      BY DEF ToSet
    <3> QED BY <1>5, <2>2, <3>1 DEF Is
  <2> QED BY <2>4, <2>5 DEF IsInjective
<1> QED BY <1>1, <1>7, <1>8, <1>9, <1>10 DEF m

-----------------------------------------------------------------------------
(* sort.Slice. *)

LEMMA OrderIs ==
  /\ Len(Order) \in Nat \ {0} /\ DOMAIN Order = 1..Len(Order)
  /\ Order \in [1..Len(Order) -> Server] /\ ToSet(Order) = Server
  /\ \A i \in 1..Len(Order) : configOrder[Order[i]] = i
  /\ Cardinality(Server) = Len(Order)
<1>1. /\ Len(Order) \in Nat \ {0} /\ DOMAIN Order = 1..Len(Order)
      /\ Order \in [1..Len(Order) -> Server] /\ ToSet(Order) = Server
  BY HandshakeAssumption DEF Server
<1>2. \A i, j \in 1..Len(Order) : Order[i] = Order[j] => i = j
  BY <1>1, HandshakeAssumption DEF IsInjective
<1>3. ASSUME NEW i \in 1..Len(Order) PROVE configOrder[Order[i]] = i
  <2>1. configOrder[Order[i]] = CHOOSE j \in DOMAIN Order : Order[j] = Order[i]
    BY <1>1 DEF configOrder
  <2>2. \E j \in DOMAIN Order : Order[j] = Order[i]
    BY <1>1
  <2> QED BY <1>1, <1>2, <2>1, <2>2
<1>4. Cardinality(Server) = Len(Order)
  <2>1. Order \in Bijection(1..Len(Order), Server)
    BY <1>1, <1>2 DEF Bijection, Injection, Surjection, IsInjective, ToSet
  <2>2. IsFiniteSet(1..Len(Order)) /\ Cardinality(1..Len(Order)) = Len(Order)
    BY <1>1, FS_Interval
  <2>3. ExistsBijection(1..Len(Order), Server)
    BY <2>1 DEF ExistsBijection
  <2> QED BY <2>2, <2>3, FS_Bijection
<1> QED BY <1>1, <1>3, <1>4

\* Sorting the servers by configOrder is what Order is.
LEMMA SortedIsOrder ==
  ASSUME NEW kids, DOMAIN kids = 1..Len(Order), ToSet(kids) = Server
  PROVE  Sorted(kids) = Order
<1> DEFINE n == Len(Order)
           Fits(q) == /\ ToSet(q) = ToSet(kids)
                      /\ \A i, j \in DOMAIN q : i < j => configOrder[q[i]] < configOrder[q[j]]
<1>1. n \in Nat /\ DOMAIN Order = 1..n /\ Order \in [1..n -> Server]
      /\ ToSet(Order) = Server /\ \A i \in 1..n : configOrder[Order[i]] = i
  BY OrderIs
<1>2. Order \in [DOMAIN kids -> ToSet(kids)] /\ Fits(Order)
  BY <1>1
<1>3. ASSUME NEW q \in [DOMAIN kids -> ToSet(kids)], Fits(q) PROVE q = Order
  <2> SUFFICES ASSUME q # Order PROVE FALSE
    OBVIOUS
  <2>1. q \in [1..n -> Server] /\ {q[i] : i \in 1..n} = Server
        /\ \A i, j \in 1..n : i < j => configOrder[q[i]] < configOrder[q[j]]
    BY <1>3 DEF ToSet
  <2> DEFINE T == {i \in 1..n : q[i] # Order[i]}
  <2>2. T # {} /\ T \subseteq Nat
    BY <1>1, <2>1
  <2>3. PICK i \in T : \A j \in T : i <= j
    <3> HIDE DEF T
    <3> QED BY <2>2, Least
  <2>4. i \in 1..n /\ q[i] # Order[i] /\ i \in Nat
        /\ \A j \in 1..n : j < i => q[j] = Order[j]
    BY <1>1, <2>3
  <2>5. PICK k \in 1..n : q[k] = Order[i]
    BY <1>1, <2>1, <2>4
  <2>6. k > i
    <3>1. k # i
      BY <2>4, <2>5
    <3>2. ~ (k < i)
      <4>1. CASE k < i
        <5>1. Order[k] = Order[i]
          BY <2>4, <2>5, <4>1
        <5>2. k = i
          BY <1>1, <2>4, <5>1
        <5> QED BY <3>1, <5>2
      <4> QED BY <4>1
    <3> QED BY <2>4, <3>1, <3>2
  <2>7. configOrder[q[i]] < i
    BY <1>1, <2>1, <2>4, <2>5, <2>6
  <2>8. PICK p \in 1..n : q[i] = Order[p]
    <3>1. q[i] \in Server /\ Server = {Order[p] : p \in 1..n}
      BY <1>1, <2>1, <2>4 DEF ToSet
    <3> QED BY <3>1
  <2>9. p < i
    BY <1>1, <2>7, <2>8
  <2>10. q[p] = q[i]
    BY <2>4, <2>8, <2>9
  <2>11. configOrder[q[p]] < configOrder[q[i]]
    BY <2>1, <2>4, <2>9
  <2>12. configOrder[q[i]] = p
    BY <1>1, <2>8
  <2> QED BY <2>10, <2>11, <2>12
<1> HIDE DEF Fits
<1>4. Sorted(kids) = CHOOSE q \in [DOMAIN kids -> ToSet(kids)] : Fits(q)
  BY DEF Sorted, Fits
<1> QED BY <1>2, <1>3, <1>4

-----------------------------------------------------------------------------
(* The collector. *)

\* What has arrived is of the servers that are over, and a list that was taken
\* has names that may be served.
Listed ==
  /\ ToSet(Arrival) = Over
  /\ \A s \in Server : ToSet(tools[s]) \subseteq Valid

Merges == CatalogSound /\ VerifiedIsServable

LEMMA ParsedTools == ASSUME TypeOK, Listed PROVE Parsed
<1>1. ASSUME NEW x \in Export \cup {<<>>}, ToSet(x) \subseteq Valid PROVE x \in Seq(Valid)
  <2>1. CASE x = <<>>
    BY <2>1, EmptySeq
  <2>2. CASE x \in Export
    <3>1. x \in Seq(UNION {ToSet(y) : y \in Export})
      BY <2>2, HandshakeAssumption
    <3>2. Len(x) \in Nat /\ DOMAIN x = 1..Len(x) /\ x = [i \in 1..Len(x) |-> x[i]]
      BY <3>1
    <3>3. \A i \in 1..Len(x) : x[i] \in Valid
      BY <1>1, <3>2 DEF ToSet
    <3> QED BY <3>2, <3>3
  <2> QED BY <2>1, <2>2
<1>2. tools \in [Server -> Export \cup {<<>>}]
  BY DEF TypeOK
<1> QED BY <1>1, <1>2 DEF Listed, Parsed

LEMMA ArrivalIs ==
  ASSUME TypeOK PROVE Arrival \in Seq(Server) /\ Len(Arrival) = Len(arrived)
<1>1. arrived \in Seq([of : Server, ok : BOOLEAN])
  BY DEF TypeOK
<1>2. Len(arrived) \in Nat /\ DOMAIN arrived = 1..Len(arrived)
      /\ \A i \in 1..Len(arrived) : arrived[i].of \in Server
  <2> DEFINE E == [of : Server, ok : BOOLEAN]
  <2>1. arrived \in Seq(E) /\ \A e \in E : e.of \in Server
    BY <1>1
  <2> HIDE DEF E
  <2> QED BY <2>1
<1> QED BY <1>2 DEF Arrival

\* A step of a goroutine changes its server's list only to one that parses.
LEMMA ToolsStep ==
  ASSUME TypeOK, NEW s \in Server, Goroutine(s)
  PROVE  \/ tools' = tools
         \/ \E x : tools' = [tools EXCEPT ![s] = x] /\ ToSet(x) \subseteq Valid
<1>1. ASSUME NEW c \in Call, Reply(s, c)
      PROVE  \/ tools' = tools
             \/ \E x : tools' = [tools EXCEPT ![s] = x] /\ ToSet(x) \subseteq Valid
  BY <1>1 DEF Reply, parseTools
<1>2. ASSUME NEW c \in Call, Register(s, c) \/ Send(s, c) \/ GiveUp(s, c) PROVE tools' = tools
  BY <1>2 DEF Register, Send, GiveUp
<1>3. ASSUME Spawn(s) \/ Note(s) PROVE tools' = tools
  BY <1>3 DEF Spawn, Note
<1> QED BY <1>1, <1>2, <1>3 DEF Goroutine

\* No other step does, and only Decide makes a catalog.
LEMMA OtherTools ==
  ASSUME [Next]_vars, \A s \in Server : ~ Goroutine(s)
  PROVE  /\ tools' = tools
         /\ Decide \/ UNCHANGED <<verdict, catalog, routes>>
<1>1. ASSUME NEW s \in Server, Timer(s) \/ ReadEnds(s) \/ drainChildInflight(s)
             \/ ChildExits(s) \/ (\E c \in Call : ChildAnswers(s, c))
      PROVE  UNCHANGED <<tools, verdict, catalog, routes>>
  BY <1>1 DEF Timer, ReadEnds, drainChildInflight, ChildExits, ChildAnswers, outVars
<1>2. CASE Exit
  BY <1>2 DEF Exit
<1>3. CASE Decide
  BY <1>3 DEF Decide
<1>4. CASE UNCHANGED vars
  BY <1>4 DEF vars, outVars
<1> QED BY <1>1, <1>2, <1>3, <1>4 DEF Next, Collector

LEMMA AppendSet ==
  ASSUME TypeOK, NEW s \in Server, NEW ok \in BOOLEAN, Arrives(s, ok)
  PROVE  ToSet(Arrival)' = ToSet(Arrival) \cup {s}
<1> DEFINE E == [of : Server, ok : BOOLEAN]
           e == [of |-> s, ok |-> ok]
<1>1. arrived \in Seq(E) /\ e \in E /\ arrived' = Append(arrived, e) /\ e.of = s
  BY DEF TypeOK, Arrives
<1> HIDE DEF E, e
<1> DEFINE n == Len(arrived)
<1>2. /\ n \in Nat /\ DOMAIN arrived = 1..n /\ DOMAIN arrived' = 1..n + 1
      /\ arrived'[n + 1] = e /\ \A i \in 1..n : arrived'[i] = arrived[i]
  BY <1>1
<1> HIDE DEF n
<1>3. 1..n + 1 = (1..n) \cup {n + 1}
  BY <1>2
<1>4. ToSet(Arrival) = {arrived[i].of : i \in 1..n}
  BY <1>2 DEF ToSet, Arrival
<1>5. ToSet(Arrival)' = {arrived'[i].of : i \in 1..n + 1}
  BY <1>2 DEF ToSet, Arrival
<1> QED BY <1>1, <1>2, <1>3, <1>4, <1>5

LEMMA ListedKept == ASSUME TypeOK, Listed, [Next]_vars PROVE Listed'
<1>t. GoOK
  BY TypeParts
<1>1. CASE \A s \in Server : ~ Goroutine(s)
  <2>1. UNCHANGED <<go, arrived, tools>>
    BY <1>1, OtherStep, OtherTools
  <2> QED BY <2>1 DEF Listed, Arrival, Over, At
<1>2. ASSUME NEW s \in Server, Goroutine(s) PROVE Listed'
  <2>1. \A r \in Server : ToSet(tools'[r]) \subseteq Valid
    BY <1>2, <1>t, ToolsStep DEF Listed, GoOK
  <2>2. GoStep(s)
    BY <1>2, GoroutineStep
  <2>3. CASE \E ok \in BOOLEAN : Arrives(s, ok)
    <3>1. ToSet(Arrival)' = ToSet(Arrival) \cup {s}
      BY <2>3, AppendSet
    <3>2. Over' = Over \cup {s}
      BY <2>3, <1>t DEF Arrives, Goes, Over, At, GoOK
    <3> QED BY <2>1, <3>1, <3>2 DEF Listed
  <2>4. CASE \E to \in Steps : to # <<"over", "">> /\ go' = [go EXCEPT ![s] = to]
                               /\ arrived' = arrived
    <3>1. Over' = Over
      BY <2>2, <2>4, <1>t DEF GoStep, Over, At, GoOK
    <3>2. Arrival' = Arrival
      BY <2>4 DEF Arrival
    <3> QED BY <2>1, <3>1, <3>2 DEF Listed
  <2> QED BY <2>2, <2>3, <2>4 DEF GoStep
<1> QED BY <1>1, <1>2

\* What initChildren or --verify-mcp makes of the lists when every server has
\* reported.
LEMMA DecideMerges ==
  ASSUME TypeOK, Counted, Listed, Decide PROVE Merges'
<1> DEFINE m == mergeCatalogs(Merged)
<1>1. Over = Used /\ mode' = mode /\ tools' = tools
  BY AllReported DEF Decide
<1>2. CASE ~ Accepts(m)
  BY <1>2 DEF Decide, Merges, CatalogSound, VerifiedIsServable
<1>3. CASE Accepts(m) /\ mode \in {"live", "verify"}
  <2>1. Used = Server /\ ToSet(Arrival) = Server /\ ~ m.clash
    BY <1>1, <1>3 DEF Used, Listed, Accepts
  <2>2. Arrival \in Seq(Server) /\ Len(Arrival) = Len(Order)
    BY <2>1, ArrivalIs, OrderIs DEF Decide
  <2>3. catalog' = m.catalog /\ routes' = m.routes
    BY <1>3 DEF Decide
  <2>4. Parsed
    BY ParsedTools
  <2>5. CASE mode = "live"
    <3>1. Merged = Order
      BY <2>1, <2>2, <2>5, SortedIsOrder DEF Merged
    <3>2. Order \in Seq(Server) /\ Order # <<>>
      BY HandshakeAssumption
    <3>3. /\ m.catalog = FlattenSeq(Reported(Order))
          /\ IsInjective(m.catalog) /\ ToSet(m.catalog) \subseteq Valid
          /\ DOMAIN m.routes = ToSet(m.catalog)
          /\ \A n \in DOMAIN m.routes : n \in ToSet(tools[m.routes[n]])
      BY <2>1, <2>4, <3>1, <3>2, MergedSound
    <3>4. CatalogSound'
      BY <1>1, <2>3, <3>3 DEF CatalogSound, Reported
    <3> QED BY <1>1, <2>5, <3>4 DEF Merges, VerifiedIsServable
  <2>6. CASE mode = "verify"
    <3>1. Merged = Arrival /\ Arrival # <<>>
      BY <2>2, <2>6, OrderIs DEF Merged
    <3>2. \A s \in Server :
             /\ IsInjective(tools[s])
             /\ \A n \in ToSet(tools[s]) : n \in DOMAIN m.routes /\ m.routes[n] = s
      BY <2>1, <2>2, <2>4, <3>1, MergedSound
    <3>3. \A s \in Server : \A n \in Known[s] : \E t \in Server : n \in ToSet(tools[t])
      <4>3. /\ DOMAIN m.routes = ToSet(m.catalog)
            /\ \A n \in DOMAIN m.routes :
                 m.routes[n] \in Server /\ n \in ToSet(tools[m.routes[n]])
        BY <2>1, <2>2, <2>4, <3>1, MergedSound
      <4> HIDE DEF m
      <4>1. (UNION {Known[s] : s \in Server}) \ ToSet(m.catalog) = {}
        BY <1>3, <2>1, <2>6 DEF Accepts, missing, missingExpectedTools
      <4>2. ASSUME NEW s \in Server, NEW n \in Known[s] PROVE n \in ToSet(m.catalog)
        <5>1. n \in UNION {Known[r] : r \in Server}
          OBVIOUS
        <5> QED BY <4>1, <5>1
      <4> QED BY <4>2, <4>3
    <3>4. \A s, t \in Server : s # t => ToSet(tools[s]) \cap ToSet(tools[t]) = {}
      BY <3>2
    <3>5. VerifiedIsServable'
      BY <1>1, <2>6, <3>2, <3>3, <3>4 DEF VerifiedIsServable, Listed
    <3> QED BY <1>1, <2>6, <3>5 DEF Merges, CatalogSound
  <2> QED BY <1>3, <2>5, <2>6
<1>4. CASE Accepts(m) /\ mode \notin {"live", "verify"}
  BY <1>1, <1>4 DEF Accepts, Merges, CatalogSound, VerifiedIsServable
<1> QED BY <1>2, <1>3, <1>4

LEMMA MergesKept ==
  ASSUME TypeOK, Counted, Settled, Listed, Merges, [Next]_vars PROVE Merges'
<1>m. mode' = mode
  BY ModeStays
<1>1. ASSUME NEW s \in Server, Goroutine(s) PROVE Merges'
  <2>1. s \in Used /\ s \notin Over
    BY <1>1, GoroutineStep DEF GoStep, Counted, At, Over
  <2>2. verdict = "none" /\ verdict' = verdict
    BY <1>1, <2>1, GoroutineStep DEF Settled
  <2> QED BY <2>2 DEF Merges, CatalogSound, VerifiedIsServable
<1>2. CASE Decide
  BY <1>2, DecideMerges
<1>3. CASE ~ Decide /\ \A s \in Server : ~ Goroutine(s)
  <2>1. UNCHANGED <<mode, tools, verdict, catalog, routes>>
    BY <1>m, <1>3, OtherTools
  <2> QED BY <2>1 DEF Merges, CatalogSound, VerifiedIsServable
<1> QED BY <1>1, <1>2, <1>3

LEMMA ListedAlways == Spec => [](Listed /\ Merges)
<1>1. Init => Listed /\ Merges
  <2> SUFFICES ASSUME Init PROVE Listed /\ Merges
    OBVIOUS
  <2>1. ToSet(Arrival) = {} /\ \A s \in Server : ToSet(tools[s]) = {}
    <3>1. arrived = <<>> /\ \A s \in Server : tools[s] = <<>>
      BY DEF Init
    <3>2. ToSet(<<>>) = {}
      BY DEF ToSet
    <3>3. Arrival = [i \in {} |-> arrived[i].of]
      BY <3>1 DEF Arrival
    <3>4. ToSet(Arrival) = {}
      BY <3>3 DEF ToSet
    <3> QED BY <3>1, <3>2, <3>4
  <2>2. Over = {}
    BY Apart DEF Init, Over, At
  <2> QED BY <2>1, <2>2 DEF Init, Listed, Merges, CatalogSound, VerifiedIsServable
<1>2. IInv /\ Listed /\ Merges /\ [Next]_vars => Listed' /\ Merges'
  BY ListedKept, MergesKept DEF IInv
<1> QED BY <1>1, <1>2, Invariant, PTL DEF Spec

\* The catalog that the live proxy serves has every tool of every configured server
\* exactly once and in the configured order, with a route to its server, for any
\* number of servers and any lists, whichever handshake was done first.
THEOREM ServedCatalogs == Spec => []CatalogSound
<1>1. Listed /\ Merges => CatalogSound
  BY DEF Merges
<1> QED BY <1>1, ListedAlways, PTL

\* What --verify-mcp passes in mux mode has no two servers with a tool in common, no
\* tool twice, no illegal name, and each expected tool at one of the servers; what
\* it passes in direct mode has a tool, and each that is expected of the command.
THEOREM VerifiedServers == Spec => []VerifiedIsServable
<1>1. Listed /\ Merges => VerifiedIsServable
  BY DEF Merges
<1> QED BY <1>1, ListedAlways, PTL

=============================================================================
