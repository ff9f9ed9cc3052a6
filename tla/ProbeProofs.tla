----------------------------- MODULE ProbeProofs -----------------------------
(***************************************************************************)
(* Proofs about one probed server, for any set of lines, notifications and *)
(* sessions: the read loop never blocks, the session keeps the promise of  *)
(* Calls, and nothing follows the end of a session.                        *)
(***************************************************************************)
EXTENDS Probe, TLAPS

-----------------------------------------------------------------------------
(* Type correctness. *)

\* TypeOK's part about the bridge.
BridgeOK ==
  /\ loop \in {"scan", "drain", "quit", "done"}
  /\ ex \in [Line -> {"none", "begun", "sent", "open", "ok", "failed"}]
  /\ header \in [Line -> Session \cup {None}]
  /\ sessionID \in Session \cup {None}
  /\ cancelled \in BOOLEAN /\ errs \in BOOLEAN
  /\ result \in {"none", "ok", "error"}
  /\ deleted \subseteq Session

\* TypeOK's part about the caller.
CallerOK ==
  /\ at \in ({"register", "write", "wait"} \X Call) \cup {<<"write", "note">>}
              \cup ({"close", "grace", "killed", "over"} \X {"session"})
  /\ outcome \in [Call -> {"none", "result", "error"}]
  /\ verdict \in {"none", "ok", "error"}
  /\ late \in BOOLEAN /\ stdin \in {"open", "eof", "killed"}

\* TypeOK's part about the read loop.
ReaderOK ==
  /\ pending \subseteq Call
  /\ box \in [Call -> SUBSET {"result", "error"}]
  /\ reader \in Frame \cup [op : {"scan", "over"}]
                 \cup [op : {"put", "fail"}, to : SUBSET Call,
                       m : {"result", "error"}]
  /\ readErr \in BOOLEAN /\ stdout \in BOOLEAN

LEMMA TypeParts == TypeOK <=> BridgeOK /\ CallerOK /\ ReaderOK
BY Zenon DEF TypeOK, BridgeOK, CallerOK, ReaderOK

LEMMA InitTypes == Init => TypeOK
<1> SUFFICES ASSUME Init PROVE TypeOK
  OBVIOUS
<1>1. BridgeOK
  BY DEF Init, BridgeInit, BridgeOK
<1>2. CallerOK
  BY DEF Init, CallerOK, Call
<1>3. ReaderOK
  BY DEF Init, ReaderOK, Frame
<1> QED BY <1>1, <1>2, <1>3, TypeParts

-----------------------------------------------------------------------------
(* The steps of the caller. *)

\* The failed write of a call, and the notification's write, which may fail, too.
CallUnread(c) ==
  /\ At(c, "write") /\ Unread
  /\ removePending(c) /\ Ends(c, "error") /\ ToClose
  /\ UNCHANGED <<bridgeVars, verdict, box, readErr, reader, pipeVars, late>>

NotifyOrFail ==
  /\ At("note", "write")
  /\ \/ stdin = "open" /\ Reads("note") /\ at' = <<"register", "list">>
     \/ Unread /\ ToClose /\ UNCHANGED bridgeVars
  /\ UNCHANGED <<verdict, callVars, readErr, reader, pipeVars, late>>

LEMMA CallerSteps ==
  ASSUME CallerOK, ReaderOK, Caller
  PROVE  \/ \E c \in Call : Register(c) \/ Write(c) \/ CallUnread(c) \/ Receive(c)
                            \/ GiveUp(c)
         \/ NotifyOrFail \/ Close \/ Verdict
<1>1. ASSUME NEW c \in Call, WriteFails(c) PROVE CallUnread(c)
  <2>1. outcome' = [outcome EXCEPT ![c] = "error"]
    BY <1>1 DEF WriteFails, CallerOK
  <2> QED BY <1>1, <2>1 DEF WriteFails, CallUnread, Ends
<1>2. CASE WriteFails("note")
  <2>1. outcome' = outcome /\ pending' = pending
    BY <1>2 DEF WriteFails, removePending, CallerOK, ReaderOK, Call
  <2> QED BY <1>2, <2>1 DEF WriteFails, NotifyOrFail, callVars
<1>3. Notify => NotifyOrFail
  BY DEF Notify, NotifyOrFail
<1> QED BY <1>1, <1>2, <1>3 DEF Caller

\* A step of the bridge's own keeps its types.
LEMMA ExchangeTypes ==
  ASSUME BridgeOK, NEW l \in Line,
         Exchange(l) \/ ForwardFails(l) \/ Forwards(l) \/ Reads(l)
  PROVE  BridgeOK'
<1> USE DEF BridgeOK, Fail, loopVars
<1>1. CASE Sends(l)
  BY <1>1 DEF Sends
<1>2. CASE Breaks(l)
  BY <1>2 DEF Breaks
<1>3. CASE BodyEnds(l) \/ Forwards(l)
  BY <1>3 DEF BodyEnds, Forwards
<1>4. ASSUME NEW s \in Session \cup {None}, Responds(l, s) PROVE BridgeOK'
  BY <1>4 DEF Responds
<1>5. CASE ForwardFails(l)
  BY <1>5 DEF ForwardFails
<1>6. CASE Reads(l)
  BY <1>6 DEF Reads
<1> QED BY <1>1, <1>2, <1>3, <1>4, <1>5, <1>6 DEF Exchange

LEMMA LoopTypes == ASSUME BridgeOK, BridgeLoop PROVE BridgeOK'
BY DEF BridgeOK, BridgeLoop, StdinEnds, ReturnsError, closeSession,
   Returns

LEMMA LinesOfCaller == Call \subseteq Line /\ "note" \in Line
BY ProbeAssumption DEF Call, Line

LEMMA NextBridge == ASSUME TypeOK, [Next]_vars PROVE BridgeOK'
<1>t. BridgeOK /\ CallerOK /\ ReaderOK
  BY TypeParts
<1> USE <1>t
<1>1. ASSUME NEW c \in Call, Write(c) PROVE BridgeOK'
  BY <1>1, ExchangeTypes, LinesOfCaller DEF Write
<1>2. CASE NotifyOrFail
  <2>1. CASE Reads("note")
    BY <2>1, ExchangeTypes, LinesOfCaller
  <2>2. CASE UNCHANGED bridgeVars
    BY <2>2 DEF bridgeVars, BridgeOK
  <2> QED BY <1>2, <2>1, <2>2 DEF NotifyOrFail
<1>3. ASSUME NEW l \in Line, BridgeStep(l) PROVE BridgeOK'
  BY <1>3, ExchangeTypes DEF BridgeStep, ReadFrame
<1>4. CASE BridgeLoop
  BY <1>4, LoopTypes
<1>5. CASE Kill \/ Deadline \/ Verdict
  BY <1>5 DEF Kill, Deadline, Verdict, BridgeOK
<1>6. CASE UNCHANGED bridgeVars
  BY <1>6 DEF bridgeVars, BridgeOK
<1>7. ASSUME NEW c \in Call, Register(c) \/ CallUnread(c) \/ Receive(c) \/ GiveUp(c)
      PROVE  UNCHANGED bridgeVars
  BY <1>7 DEF Register, CallUnread, Receive, GiveUp
<1>8. CASE ReadLoop \/ Close \/ UNCHANGED vars
  BY <1>8, <1>6 DEF ReadLoop, Lookup, Put, PutDone, fail, ReaderReturns, Close, vars
<1> QED BY CallerSteps, <1>t, <1>1, <1>2, <1>3, <1>4, <1>5, <1>6, <1>7, <1>8 DEF Next

LEMMA NextCaller == ASSUME TypeOK, [Next]_vars PROVE CallerOK'
<1>t. BridgeOK /\ CallerOK /\ ReaderOK
  BY TypeParts
<1> USE <1>t
<1> USE DEF CallerOK, ToClose, Ends, Succeed
<1>1. ASSUME NEW c \in Call, Register(c) PROVE CallerOK'
  BY <1>1 DEF Register, pipeVars, Call
<1>2. ASSUME NEW c \in Call, Write(c) PROVE CallerOK'
  BY <1>2 DEF Write, callVars, pipeVars
<1>3. ASSUME NEW c \in Call, CallUnread(c) \/ GiveUp(c) PROVE CallerOK'
  BY <1>3 DEF CallUnread, GiveUp, pipeVars, Call
<1>4. ASSUME NEW c \in Call, Receive(c) PROVE CallerOK'
  BY <1>4 DEF Receive, pipeVars, ReaderOK, Call
<1>5. CASE NotifyOrFail \/ Close \/ Kill
  BY <1>5 DEF NotifyOrFail, Close, Kill, callVars, pipeVars, Call
<1>6. CASE Deadline
  BY <1>6 DEF Deadline, callVars, pipeVars, Call
<1>11. CASE Verdict
  <2>1. verdict' \in {"ok", "error"}
    BY <1>11 DEF Verdict
  <2> QED BY <1>11, <2>1 DEF Verdict, callVars, pipeVars
<1>7. CASE ReadLoop
  BY <1>7 DEF ReadLoop, Lookup, Put, PutDone, fail, ReaderReturns, callVars, pipeVars
<1>8. CASE BridgeLoop
  BY <1>8 DEF BridgeLoop, outside, callVars, pipeVars
<1>9. ASSUME NEW l \in Line, BridgeStep(l) PROVE CallerOK'
  BY <1>9 DEF BridgeStep, outside, ForwardFails, ReadFrame, callVars, pipeVars
<1>10. CASE UNCHANGED vars
  BY <1>10 DEF vars, callVars, pipeVars
<1> QED BY CallerSteps, <1>t, <1>1, <1>2, <1>3, <1>4, <1>5, <1>6, <1>7, <1>8, <1>9,
        <1>10, <1>11 DEF Next

LEMMA NextReader == ASSUME TypeOK, [Next]_vars PROVE ReaderOK'
<1>t. BridgeOK /\ CallerOK /\ ReaderOK
  BY TypeParts
<1> USE <1>t
<1> USE DEF ReaderOK
<1>1. ASSUME NEW c \in Call, Register(c) \/ CallUnread(c) \/ GiveUp(c)
             \/ Receive(c) \/ Write(c)
      PROVE  ReaderOK'
  BY <1>1 DEF Register, CallUnread, GiveUp, Receive, Write, removePending, callVars,
     pipeVars
<1>2. CASE NotifyOrFail \/ Close \/ Kill \/ Verdict \/ Deadline
  BY <1>2 DEF NotifyOrFail, Close, Kill, Verdict, Deadline, callVars, pipeVars
<1>3. CASE Lookup
  BY <1>3 DEF Lookup, removePending, Frame, pipeVars
<1>4. CASE Put
  BY <1>4 DEF Put, Frame, pipeVars
<1>5. CASE PutDone \/ ReaderReturns
  <2>1. reader' \in [op : {"scan", "over"}]
    BY <1>5 DEF PutDone, ReaderReturns
  <2>2. stdout' \in BOOLEAN
    BY <1>5, Zenon DEF PutDone, ReaderReturns, pipeVars
  <2> QED BY <1>5, <2>1, <2>2 DEF PutDone, ReaderReturns, callVars
<1>9. CASE fail
  <2>1. reader' \in [op : {"put", "fail"}, to : SUBSET Call, m : {"result", "error"}]
    BY <1>9 DEF fail
  <2> QED BY <1>9, <2>1 DEF fail, pipeVars
<1>6. CASE BridgeLoop
  BY <1>6 DEF BridgeLoop, outside, callVars, pipeVars
<1>7. ASSUME NEW l \in Line, BridgeStep(l) PROVE ReaderOK'
  BY <1>7 DEF BridgeStep, outside, ForwardFails, ReadFrame, callVars, pipeVars
<1>8. CASE UNCHANGED vars
  BY <1>8 DEF vars, callVars, pipeVars
<1> QED BY CallerSteps, <1>t, <1>1, <1>2, <1>3, <1>4, <1>5, <1>6, <1>7, <1>8, <1>9
   DEF Next,
   ReadLoop

LEMMA ProbeTypesStep == ASSUME TypeOK, [Next]_vars PROVE TypeOK'
BY NextBridge, NextCaller, NextReader, TypeParts DEF TypeOK, BridgeOK, CallerOK,
   ReaderOK

\* Every reachable state of a probe is well typed.
THEOREM ProbeTypes == Spec => []TypeOK
<1>1. TypeOK /\ [Next]_vars => TypeOK'
  BY ProbeTypesStep
<1> QED BY InitTypes, <1>1, PTL DEF Spec

-----------------------------------------------------------------------------
(* The inductive invariant. *)

Steps(c) == {"register", "write", "wait"} \X {c}

\* Where the caller has not registered c yet.
Earlier(c) ==
  IF c = "init" THEN {<<"register", "init">>}
  ELSE Steps("init") \cup {<<"write", "note">>, <<"register", "list">>}

Sending == reader.op \in {"put", "fail"}

\* A channel that somebody may still send to is empty, and has one sender.
Channels ==
  /\ \A c \in pending : box[c] = {}
  /\ Sending => \A c \in reader.to : box[c] = {} /\ c \notin pending
  /\ \A c \in Call : at \in Earlier(c) =>
       c \notin pending /\ box[c] = {} /\ (Sending => c \notin reader.to)

\* A call has no outcome before its end, and "list" follows an answered "init".
Order ==
  /\ \A c \in Call : at \in Earlier(c) \cup Steps(c) => outcome[c] = "none"
  /\ at \in Steps("list") \cup {<<"write", "note">>} => outcome["init"] = "result"
  /\ outcome["list"] = "result" => outcome["init"] = "result"

\* A call is answered only after its line was read.
Answers ==
  \A c \in Call : At(c, "wait") \/ outcome[c] = "result" => ex[c] # "none"

\* What the bridge's loop knows of the exchanges, and the probe of the loop.
Exchanges ==
  /\ loop = "done" => \A l \in Line : ~ Busy(l)
  /\ loop \in {"scan", "drain"} /\ ~ errs => \A l \in Line : ex[l] # "failed"
  /\ result = "ok" => loop = "done" /\ \A l \in Line : ex[l] # "failed"
  /\ deleted # {} => result = "ok"

Verdicts ==
  /\ Closing("killed") => stdin = "killed"
  /\ verdict # "none" => Closing("over")
  /\ verdict = "ok" => /\ outcome["list"] = "result"
                       /\ result = "ok" \/ stdin = "killed"

\* The handshake's exchange is over before another line is read.
Handshaken ==
  (\E l \in Request : ex[l] # "none") =>
    ~ Busy("init") /\ at \notin {<<"register", "init">>, <<"write", "init">>}

-----------------------------------------------------------------------------
(* The invariant's start. *)

IInv == TypeOK /\ Channels /\ Order /\ Answers /\ Exchanges /\ Verdicts /\ Handshaken

LEMMA InitInvariant == Init => IInv
<1> SUFFICES ASSUME Init PROVE IInv
  OBVIOUS
<1>1. Channels
  BY DEF Init, Channels, Sending
<1>2. Order /\ Answers
  BY DEF Init, Order, Answers, Steps, Earlier, At, Call
<1>3. Exchanges /\ Verdicts
  BY DEF Init, BridgeInit, Exchanges, Verdicts, Busy, Closing
<1>4. Handshaken
  BY DEF Init, BridgeInit, Handshaken, Line
<1> QED BY <1>1, <1>2, <1>3, <1>4, InitTypes DEF IInv

-----------------------------------------------------------------------------
(* What the steps do, in facts. *)

\* A step of the exchange of l.
OneLine(l) ==
  /\ Busy(l) /\ ex'[l] # "none" /\ \A k \in Line \ {l} : ex'[k] = ex[k]
  /\ loop' \in {loop, "quit"} /\ (errs => errs')
  /\ ex'[l] = "failed" => errs' \/ loop' = "quit"
  /\ UNCHANGED <<result, deleted>>

\* The bridge reads l.
ReadLine(l) ==
  /\ Scanning /\ ex[l] = "none" /\ ex'[l] = "begun"
  /\ \A k \in Line \ {l} : ex'[k] = ex[k]
  /\ UNCHANGED <<loop, errs, result, deleted>>

LEMMA LineStep ==
  ASSUME BridgeOK, NEW l \in Line, BridgeStep(l)
  PROVE  OneLine(l) /\ UNCHANGED <<at, verdict, outcome, stdin>>
<1> USE DEF BridgeOK, OneLine, Busy, Fail, loopVars
<1>1. ASSUME Sends(l) PROVE OneLine(l)
  BY <1>1 DEF Sends
<1>2. ASSUME Breaks(l) PROVE OneLine(l)
  BY <1>2 DEF Breaks
<1>3. ASSUME BodyEnds(l) \/ Forwards(l) PROVE OneLine(l)
  BY <1>3 DEF BodyEnds, Forwards
<1>4. ASSUME NEW s \in Session \cup {None}, Responds(l, s) PROVE OneLine(l)
  BY <1>4 DEF Responds
<1>5. ASSUME ForwardFails(l) PROVE OneLine(l)
  BY <1>5 DEF ForwardFails
<1>6. OneLine(l)
  BY <1>1, <1>2, <1>3, <1>4, <1>5 DEF BridgeStep, Exchange, ReadFrame
<1>7. UNCHANGED <<at, verdict, outcome, stdin>>
  BY DEF BridgeStep, outside, ForwardFails, ReadFrame, callVars, pipeVars
<1> QED BY <1>6, <1>7

LEMMA ReadStep ==
  ASSUME BridgeOK, NEW l \in Line, Reads(l) PROVE ReadLine(l)
BY DEF BridgeOK, Reads, ReadLine, loopVars

LEMMA LoopStep ==
  ASSUME BridgeLoop
  PROVE  /\ UNCHANGED <<ex, errs, at, verdict, outcome, stdin>>
         /\ \/ loop' = "drain" /\ loop = "scan" /\ UNCHANGED <<result, deleted>>
            \/ loop' = "quit" /\ loop = "scan" /\ UNCHANGED <<result, deleted>>
            \/ loop' = "done" /\ (\A l \in Line : ~ Busy(l)) /\ result' = "error"
               /\ deleted' = deleted /\ (loop = "quit" \/ loop = "drain")
            \/ loop' = "done" /\ Drained /\ ~ errs /\ result' = "ok"
BY DEF BridgeLoop, StdinEnds, ReturnsError, closeSession, Returns,
   Drained, Scanning, outside, callVars, pipeVars

-----------------------------------------------------------------------------
(* Every step keeps the invariant. *)

LEMMA ChannelsKept == ASSUME TypeOK, Channels, [Next]_vars PROVE Channels'
<1> USE DEF Channels, Sending
<1>t. BridgeOK /\ CallerOK /\ ReaderOK
  BY TypeParts
<1>1. ASSUME NEW c \in Call, Register(c) PROVE Channels'
  <2>1. c \in Call /\ at \in Earlier(c)
    BY <1>1 DEF Register, At, Earlier, Call
  <2>2. \A d \in Call : at' \in Earlier(d) => at \in Earlier(d) /\ d # c
    BY <1>1 DEF Register, At, Earlier, Steps, ToClose, Call
  <2>3. pending' \in {pending, pending \cup {c}} /\ UNCHANGED <<box, reader>>
    BY <1>1 DEF Register
  <2> QED BY <2>1, <2>2, <2>3
<1>2. ASSUME NEW c \in Call, Write(c) \/ CallUnread(c) \/ GiveUp(c) PROVE Channels'
  <2>1. \A d \in Call : at' \in Earlier(d) => at \in Earlier(d)
    BY <1>2 DEF Write, CallUnread, GiveUp, At, Earlier, Steps, ToClose, Call
  <2>2. pending' \subseteq pending /\ UNCHANGED <<box, reader>>
    BY <1>2 DEF Write, CallUnread, GiveUp, removePending, callVars
  <2> QED BY <2>1, <2>2
<1>3. ASSUME NEW c \in Call, Receive(c) PROVE Channels'
  BY <1>3, <1>t DEF Receive, At, Earlier, Steps, ToClose, Succeed, Call, ReaderOK
<1>4. CASE NotifyOrFail
  BY <1>4, <1>t DEF NotifyOrFail, At, Earlier, Steps, ToClose, callVars, Call
<1>5. CASE Close \/ Kill \/ Verdict \/ Deadline
  BY <1>5 DEF Close, Kill, Verdict, Deadline, Earlier, Steps, callVars, Call
<1>6. CASE Lookup
  BY <1>6, <1>t DEF Lookup, removePending, ReaderOK, Frame
<1>7. CASE Put
  BY <1>7, <1>t DEF Put, ReaderOK
<1>8. CASE fail
  BY <1>8, <1>t DEF fail, ReaderOK
<1>9. CASE PutDone \/ ReaderReturns
  BY <1>9 DEF PutDone, ReaderReturns, callVars
<1>10. CASE BridgeLoop
  BY <1>10 DEF BridgeLoop, outside, callVars
<1>11. ASSUME NEW l \in Line, BridgeStep(l) PROVE Channels'
  <2>1. CASE (Exchange(l) /\ UNCHANGED outside) \/ ForwardFails(l)
    BY <2>1 DEF outside, ForwardFails, callVars
  <2>2. ASSUME NEW f \in Frame, ReadFrame(l, f) PROVE Channels'
    BY <2>2 DEF ReadFrame, Frame, callVars
  <2> QED BY <1>11, <2>1, <2>2 DEF BridgeStep
<1>12. CASE UNCHANGED vars
  BY <1>12 DEF vars, callVars
<1> QED BY CallerSteps, <1>t, <1>1, <1>2, <1>3, <1>4, <1>5, <1>6, <1>7, <1>8, <1>9,
        <1>10, <1>11, <1>12
   DEF Next, ReadLoop

\* The steps of others than the caller leave its variables alone.
LEMMA NotTheCaller ==
  ASSUME BridgeOK,
         \/ ReadLoop \/ BridgeLoop \/ Deadline \/ UNCHANGED vars
         \/ \E l \in Line : BridgeStep(l)
  PROVE  UNCHANGED <<at, verdict, outcome, stdin>>
<1>1. CASE ReadLoop
  BY <1>1 DEF ReadLoop, Lookup, Put, PutDone, fail, ReaderReturns, callVars, pipeVars
<1>2. CASE BridgeLoop
  BY <1>2 DEF BridgeLoop, outside, callVars, pipeVars
<1>3. CASE Deadline \/ UNCHANGED vars
  BY <1>3 DEF Deadline, vars, callVars, pipeVars
<1> QED BY <1>1, <1>2, <1>3, LineStep

LEMMA OrderKept == ASSUME TypeOK, Order, [Next]_vars PROVE Order'
<1> USE DEF Order, Earlier, Steps, Call
<1>t. BridgeOK /\ CallerOK /\ ReaderOK
  BY TypeParts
<1>1. ASSUME NEW c \in Call, Register(c) PROVE Order'
  BY <1>1, <1>t DEF Register, At, ToClose, Ends, CallerOK
<1>2. ASSUME NEW c \in Call, Write(c) PROVE Order'
  BY <1>2, <1>t DEF Write, At, callVars
<1>3. ASSUME NEW c \in Call, CallUnread(c) \/ GiveUp(c) PROVE Order'
  BY <1>3, <1>t DEF CallUnread, GiveUp, At, ToClose, Ends, CallerOK
<1>4. ASSUME NEW c \in Call, Receive(c) PROVE Order'
  <2>1. PICK m \in box[c] : Ends(c, m) /\ ((m = "result" /\ Succeed(c)) \/ ToClose)
    BY <1>4 DEF Receive
  <2> QED BY <1>4, <2>1, <1>t DEF Receive, At, ToClose, Ends, Succeed, CallerOK
<1>5. CASE NotifyOrFail
  BY <1>5, <1>t DEF NotifyOrFail, At, ToClose, callVars
<1>6. CASE Close \/ Kill \/ Verdict
  BY <1>6 DEF Close, Kill, Verdict, callVars
<1>7. CASE UNCHANGED <<at, outcome>>
  BY <1>7
<1> QED BY CallerSteps, <1>t, <1>1, <1>2, <1>3, <1>4, <1>5, <1>6, <1>7,
        NotTheCaller, TypeParts
   DEF Next

Bare == UNCHANGED <<loop, ex, errs, result, deleted>>

\* Only the caller makes the bridge read, and nothing else touches an exchange.
LEMMA BridgeEffects ==
  ASSUME TypeOK, [Next]_vars
  PROVE  \/ Bare
         \/ \E c \in Call : At(c, "write") /\ ReadLine(c) /\ at' = <<"wait", c>>
                            /\ UNCHANGED <<outcome, verdict>>
         \/ At("note", "write") /\ ReadLine("note") /\ at' = <<"register", "list">>
            /\ UNCHANGED <<outcome, verdict>>
         \/ (\E l \in Line : OneLine(l)) /\ UNCHANGED <<at, verdict, outcome, stdin>>
         \/ BridgeLoop
<1>t. BridgeOK /\ CallerOK /\ ReaderOK
  BY TypeParts
<1> USE <1>t
<1>1. ASSUME NEW c \in Call, Write(c)
      PROVE  At(c, "write") /\ ReadLine(c) /\ at' = <<"wait", c>>
             /\ UNCHANGED <<outcome, verdict>>
  BY <1>1, ReadStep, LinesOfCaller DEF Write, callVars
<1>2. CASE NotifyOrFail
  <2>1. CASE UNCHANGED bridgeVars
    BY <2>1 DEF bridgeVars, Bare
  <2>2. CASE Reads("note") /\ at' = <<"register", "list">>
    BY <1>2, <2>2, ReadStep, LinesOfCaller DEF NotifyOrFail, callVars
  <2> QED BY <1>2, <2>1, <2>2 DEF NotifyOrFail
<1>3. ASSUME NEW c \in Call, Register(c) \/ CallUnread(c) \/ Receive(c) \/ GiveUp(c)
      PROVE  Bare
  BY <1>3 DEF Register, CallUnread, Receive, GiveUp, bridgeVars, Bare
<1>4. CASE Close \/ Kill \/ Verdict \/ Deadline \/ UNCHANGED vars
  BY <1>4 DEF Close, Kill, Verdict, Deadline, vars, bridgeVars, Bare
<1>5. CASE ReadLoop
  BY <1>5 DEF ReadLoop, Lookup, Put, PutDone, fail, ReaderReturns, bridgeVars, Bare
<1>6. ASSUME NEW l \in Line, BridgeStep(l)
      PROVE  OneLine(l) /\ UNCHANGED <<at, verdict, outcome, stdin>>
  BY <1>6, LineStep
<1> QED BY CallerSteps, <1>t, <1>1, <1>2, <1>3, <1>4, <1>5, <1>6 DEF Next

LEMMA ExchangesKept ==
  ASSUME TypeOK, Exchanges, [Next]_vars PROVE Exchanges'
<1> USE DEF Exchanges, Busy, BridgeOK
<1>t. BridgeOK /\ CallerOK /\ ReaderOK
  BY TypeParts
<1>1. CASE Bare
  BY <1>1 DEF Bare
<1>2. ASSUME NEW l \in Line, ReadLine(l) PROVE Exchanges'
  BY <1>2 DEF ReadLine, Scanning
<1>3. ASSUME NEW l \in Line, OneLine(l) PROVE Exchanges'
  BY <1>3 DEF OneLine
<1>4. CASE BridgeLoop
  BY <1>4, LoopStep DEF Drained
<1> QED BY <1>1, <1>2, <1>3, <1>4, BridgeEffects, LinesOfCaller

\* An exchange that has begun stays begun.
LEMMA Begun ==
  ASSUME TypeOK, [Next]_vars
  PROVE  \A l \in Line : ex[l] # "none" => ex'[l] # "none"
BY BridgeEffects, LoopStep, LinesOfCaller, TypeParts DEF Bare, ReadLine, OneLine

\* Only an answered wait makes a result.
LEMMA ResultFromWait ==
  ASSUME TypeOK, [Next]_vars, NEW c \in Call, outcome'[c] = "result"
  PROVE  outcome[c] = "result" \/ At(c, "wait")
<1>t. BridgeOK /\ CallerOK /\ ReaderOK
  BY TypeParts
<1>1. ASSUME NEW d \in Call, Register(d) \/ CallUnread(d) \/ GiveUp(d)
      PROVE  outcome' = [outcome EXCEPT ![d] = "error"] \/ outcome' = outcome
  BY <1>1 DEF Register, CallUnread, GiveUp, Ends
<1>2. ASSUME NEW d \in Call, Receive(d)
      PROVE  At(d, "wait") /\ \E m : outcome' = [outcome EXCEPT ![d] = m]
  BY <1>2 DEF Receive, Ends
<1>3. CASE NotifyOrFail \/ Close \/ Kill \/ Verdict \/ \E d \in Call : Write(d)
  BY <1>3 DEF NotifyOrFail, Close, Kill, Verdict, Write, callVars
<1> QED BY CallerSteps, <1>1, <1>2, <1>3, <1>t, NotTheCaller DEF Next, CallerOK

LEMMA AnswersKept == ASSUME TypeOK, Answers, [Next]_vars PROVE Answers'
<1> SUFFICES ASSUME NEW c \in Call, At(c, "wait")' \/ outcome'[c] = "result"
             PROVE  ex'[c] # "none"
  BY DEF Answers
<1>t. BridgeOK /\ CallerOK /\ ReaderOK
  BY TypeParts
<1>1. CASE outcome'[c] = "result"
  BY <1>1, <1>t, ResultFromWait, Begun, LinesOfCaller DEF Answers
<1>2. CASE At(c, "wait")' /\ At(c, "wait")
  BY <1>2, <1>t, Begun, LinesOfCaller DEF Answers
<1>3. CASE At(c, "wait")' /\ ~ At(c, "wait")
  <2>1. ASSUME NEW d \in Call, Write(d), at' = <<"wait", c>> PROVE ex'[c] # "none"
    <3>1. d = c
      BY <2>1 DEF Write
    <3> QED BY <2>1, <3>1, <1>t, ReadStep, LinesOfCaller DEF Write, ReadLine
  <2>2. ASSUME NEW d \in Call, Register(d) \/ CallUnread(d) \/ Receive(d) \/ GiveUp(d)
        PROVE  at' # <<"wait", c>>
    BY <2>2 DEF Register, CallUnread, Receive, GiveUp, ToClose, Succeed
  <2>3. CASE NotifyOrFail \/ Close \/ Kill \/ Verdict
    BY <2>3, <1>3 DEF NotifyOrFail, Close, Kill, Verdict, ToClose, At
  <2> QED BY CallerSteps, <1>3, <2>1, <2>2, <2>3, <1>t, NotTheCaller DEF Next, At
<1> QED BY <1>1, <1>2, <1>3

\* What Run returned is final.
LEMMA ResultStays ==
  ASSUME TypeOK, Exchanges, [Next]_vars, result = "ok" PROVE result' = "ok"
BY BridgeEffects, LoopStep DEF Exchanges, Bare, ReadLine, OneLine, Drained

LEMMA VerdictsKept ==
  ASSUME TypeOK, Exchanges, Verdicts, [Next]_vars PROVE Verdicts'
<1> USE DEF Verdicts, Closing
<1>t. BridgeOK /\ CallerOK /\ ReaderOK
  BY TypeParts
<1>1. ASSUME NEW c \in Call, Register(c) \/ Write(c) \/ CallUnread(c) \/ Receive(c)
             \/ GiveUp(c) \/ NotifyOrFail
      PROVE  Verdicts'
  <2>1. verdict' = verdict /\ at' # <<"killed", "session">> /\ at # <<"over", "session">>
    BY <1>1 DEF Register, Write, CallUnread, Receive, GiveUp, NotifyOrFail, At, ToClose,
       Succeed
  <2>2. verdict' = "none"
    BY <2>1, <1>t DEF CallerOK
  <2> QED BY <2>1, <2>2
<1>2. CASE Close \/ Kill
  <2>1. verdict = "none" /\ verdict' = "none"
    BY <1>2, <1>t DEF Close, Kill, CallerOK
  <2> QED BY <1>2, <2>1 DEF Close, Kill
<1>3. CASE Verdict
  <2>1. at' = <<"over", "session">> /\ UNCHANGED <<outcome, stdin, result>>
    BY <1>3 DEF Verdict, callVars, pipeVars
  <2>2. verdict' = "ok" => outcome["list"] = "result" /\ CloseOK
    BY <1>3 DEF Verdict
  <2>3. CloseOK => result = "ok" \/ stdin = "killed"
    BY <1>3 DEF CloseOK, Verdict
  <2> QED BY <2>1, <2>2, <2>3
<1>4. CASE UNCHANGED <<at, verdict, outcome, stdin>>
  BY <1>4, <1>t, ResultStays
<1>5. \E c \in Call : TRUE
  BY DEF Call
<1> QED BY CallerSteps, <1>1, <1>2, <1>3, <1>4, <1>5, <1>t, NotTheCaller DEF Next

\* The caller writes "init" first, and never comes back to it.
LEMMA HandshakenKept == ASSUME TypeOK, Handshaken, [Next]_vars PROVE Handshaken'
<1> USE DEF Handshaken, Busy
<1>t. BridgeOK /\ CallerOK /\ ReaderOK
  BY TypeParts
<1>i. "init" \in Line /\ Request \subseteq Line /\ "init" \notin Request
  BY BridgeAssumption DEF Line
<1>1. at \notin {<<"register", "init">>, <<"write", "init">>} =>
        at' \notin {<<"register", "init">>, <<"write", "init">>}
  <2>1. ASSUME NEW c \in Call, Register(c) \/ Write(c) \/ CallUnread(c) \/ Receive(c)
               \/ GiveUp(c)
        PROVE  \/ at' \in {<<"write", "note">>, <<"close", "session">>, <<"wait", c>>}
               \/ at' = <<"write", c>> /\ at = <<"register", c>>
    BY <2>1 DEF Register, Write, CallUnread, Receive, GiveUp, ToClose, Succeed, At
  <2>2. CASE NotifyOrFail \/ Close \/ Kill \/ Verdict
    BY <2>2 DEF NotifyOrFail, Close, Kill, Verdict, ToClose
  <2> QED BY CallerSteps, <2>1, <2>2, <1>t, NotTheCaller DEF Next
<1>2. CASE Bare \/ BridgeLoop
  BY <1>2, <1>1, LoopStep DEF Bare
<1>3. ASSUME NEW c \in Call, At(c, "write"), ReadLine(c), at' = <<"wait", c>>
      PROVE  Handshaken'
  <2>1. CASE c = "init"
    BY <2>1, <1>3, <1>i DEF At, ReadLine
  <2>2. CASE c # "init"
    BY <2>2, <1>3, <1>i, LinesOfCaller DEF At, ReadLine, Scanning
  <2> QED BY <2>1, <2>2
<1>4. CASE ReadLine("note") /\ At("note", "write")
  BY <1>4, <1>1, <1>i, BridgeAssumption, ProbeAssumption DEF ReadLine, Scanning, At
<1>5. ASSUME NEW l \in Line, OneLine(l), at' = at PROVE Handshaken'
  BY <1>5, <1>i DEF OneLine
<1> QED BY <1>2, <1>3, <1>4, <1>5, <1>t, BridgeEffects

LEMMA NextInvariant == IInv /\ [Next]_vars => IInv'
<1> SUFFICES ASSUME IInv, [Next]_vars PROVE IInv'
  OBVIOUS
<1>1. TypeOK /\ BridgeOK
  BY TypeParts DEF IInv
<1>2. TypeOK'
  BY <1>1, ProbeTypesStep
<1> QED BY <1>1, <1>2, ChannelsKept, OrderKept, AnswersKept, ExchangesKept,
        VerdictsKept, HandshakenKept DEF IInv

LEMMA Invariant == Spec => []IInv
BY InitInvariant, NextInvariant, PTL DEF Spec

-----------------------------------------------------------------------------
(* What a probe keeps. *)

\* The read loop never blocks on the channel of a call (session.go:45).
THEOREM NeverBlocked == Spec => []NoBlockedReader
<1>1. IInv => NoBlockedReader
  BY DEF IInv, Channels, Sending, NoBlockedReader
<1> QED BY <1>1, Invariant, PTL

\* No exchange is under way or follows once the session is deleted.
THEOREM DeleteIsLast == Spec => []NothingAfterDelete
<1>1. IInv => NothingAfterDelete
  <2> SUFFICES ASSUME IInv, deleted # {}, NEW l \in Line PROVE ex[l] \in {"none", "ok"}
    BY DEF NothingAfterDelete
  <2>1. ~ Busy(l) /\ ex[l] # "failed"
    BY DEF IInv, Exchanges
  <2> QED BY <2>1, TypeParts DEF IInv, BridgeOK, Busy
<1> QED BY <1>1, Invariant, PTL

\* A probe that succeeds has both answers, and lost no exchange unless it had to
\* kill the bridge.
THEOREM SuccessHasAnswers == Spec => []SuccessIsWhole
<1>1. IInv => SuccessIsWhole
  BY LinesOfCaller DEF IInv, Verdicts, Order, Answers, Exchanges, SuccessIsWhole, Call
<1> QED BY <1>1, Invariant, PTL

\* Requests after the handshake carry the server's session.
THEOREM SessionIsCarried == Spec => SessionCarried
<1>1. IInv /\ [Next]_vars =>
        [\A l \in Request :
           ex[l] = "begun" /\ ex'[l] = "sent" /\ sessionID # None
             => header'[l] = sessionID /\ ~ Busy("init")]_vars
  <2> SUFFICES ASSUME IInv, [Next]_vars, NEW l \in Request, ex[l] = "begun",
                      ex'[l] = "sent"
               PROVE  header'[l] = sessionID /\ ~ Busy("init")
    OBVIOUS
  <2>t. BridgeOK /\ CallerOK /\ ReaderOK /\ l \in Line
    BY TypeParts DEF IInv, Line
  <2>1. ~ Busy("init")
    BY DEF IInv, Handshaken
  <2>2. PICK k \in Line : BridgeStep(k)
    <3>1. ASSUME NEW c \in Line, ReadLine(c) PROVE ex'[l] # "sent"
      BY <3>1, <2>t DEF ReadLine
    <3>2. CASE Bare \/ BridgeLoop
      BY <3>2, LoopStep DEF Bare
    <3>3. CASE ReadLoop \/ Kill \/ Deadline \/ UNCHANGED vars
      BY <3>3 DEF ReadLoop, Lookup, Put, PutDone, fail, ReaderReturns, Kill, Deadline,
         vars, bridgeVars
    <3>4. CASE Caller
      <4>1. ASSUME NEW c \in Line, Reads(c) PROVE ex'[l] # "sent"
        BY <4>1, <3>1, <2>t, ReadStep
      <4>2. CASE NotifyOrFail \/ \E c \in Call : Write(c)
        BY <4>2, <4>1, LinesOfCaller DEF NotifyOrFail, Write, bridgeVars
      <4>3. CASE Close \/ Verdict
        BY <4>3 DEF Close, Verdict, bridgeVars
      <4>4. ASSUME NEW c \in Call, Register(c) \/ CallUnread(c) \/ Receive(c) \/ GiveUp(c)
            PROVE  ex'[l] # "sent"
        BY <4>4 DEF Register, CallUnread, Receive, GiveUp, bridgeVars
      <4> QED BY <3>4, <4>2, <4>3, <4>4, <2>t, CallerSteps
    <3> QED BY <3>2, <3>3, <3>4 DEF Next
  <2>3. Sends(l)
    <3>1. CASE k # l
      BY <3>1, <2>2, <2>t, LineStep DEF OneLine
    <3>2. CASE k = l
      BY <3>2, <2>2, <2>t DEF BridgeStep, Exchange, Breaks, BodyEnds, Responds, Fail,
         ForwardFails, ReadFrame, Forwards, BridgeOK
    <3> QED BY <3>1, <3>2
  <2> QED BY <2>1, <2>3, <2>t DEF Sends, BridgeOK
<1> QED BY <1>1, Invariant, PTL DEF Spec, SessionCarried

-----------------------------------------------------------------------------
(* The session implements Calls. *)

LEMMA PromiseInit == Init => Promise!Init
BY DEF Init, Promise!Init, CallState, Call

\* A call whose caller's place and outcome stay is left alone.
LEMMA Stutters ==
  ASSUME \A c \in Call : /\ outcome'[c] = outcome[c]
                         /\ outcome[c] = "none" =>
                              (at' \in Steps(c) <=> at \in Steps(c))
  PROVE  CallState' = CallState
BY DEF CallState, Steps

\* A call that ends with o, while the others are left alone.
LEMMA EndsOne ==
  ASSUME NEW c \in Call, NEW o \in {"result", "error"}, at \in Steps(c),
         outcome[c] = "none", Ends(c, o),
         outcome \in [Call -> {"none", "result", "error"}],
         \A d \in Call : at' \notin Steps(d)
  PROVE  Promise!Goes({c}, {"open", "withdrawn"}, o) /\ Promise!Goes({c}, {"open"}, o)
<1>1. CallState[c] = "open"
  BY DEF CallState, Steps
<1>2. CallState' = [d \in Call |-> IF d \in {c} THEN o ELSE CallState[d]]
  BY DEF CallState, Steps, Ends, Call
<1> QED BY <1>1, <1>2 DEF Promise!Goes

LEMMA PromiseStep ==
  ASSUME IInv, [Next]_vars PROVE [Promise!Next]_CallState
<1>t. BridgeOK /\ CallerOK /\ ReaderOK /\ Order
  BY TypeParts DEF IInv
<1>1. ASSUME NEW c \in Call, Register(c), at' = <<"write", c>>
      PROVE  CallState' = CallState
  <2>1. outcome' = outcome
    BY <1>1, <1>t DEF Register, ToClose
  <2>2. \A d \in Call : at' \in Steps(d) <=> at \in Steps(d)
    BY <1>1 DEF Register, At, Steps
  <2> QED BY <2>1, <2>2, Stutters
<1>2. ASSUME NEW c \in Call, NEW o \in {"result", "error"}, at \in Steps(c), Ends(c, o),
             at' \in {<<"write", "note">>, <<"close", "session">>}
      PROVE  Promise!Next
  <2>1. outcome[c] = "none" /\ \A d \in Call : at' \notin Steps(d)
    BY <1>2, <1>t DEF Order, Steps, Call
  <2>2. Promise!Goes({c}, {"open", "withdrawn"}, o) /\ Promise!Goes({c}, {"open"}, o)
    BY <1>2, <2>1, <1>t, EndsOne DEF CallerOK
  <2> QED BY <2>2 DEF Promise!Next, Promise!Succeed, Promise!Fail
<1>3. ASSUME NEW c \in Call, Register(c) \/ CallUnread(c) \/ GiveUp(c) \/ Receive(c)
      PROVE  [Promise!Next]_CallState
  <2>1. at \in Steps(c)
    BY <1>3 DEF Register, CallUnread, GiveUp, Receive, At, Steps
  <2>2. CASE Register(c) /\ at' = <<"write", c>>
    BY <2>2, <1>1
  <2>3. CASE Ends(c, "error") /\ ToClose
    BY <2>1, <2>3, <1>2 DEF ToClose
  <2>4. CASE Receive(c)
    <3>1. PICK m \in box[c] : Ends(c, m) /\ (Succeed(c) \/ ToClose)
      BY <2>4 DEF Receive
    <3>2. m \in {"result", "error"}
      BY <1>t, <3>1 DEF ReaderOK
    <3> QED BY <2>1, <3>1, <3>2, <1>2 DEF Succeed, ToClose
  <2> QED BY <1>3, <2>2, <2>3, <2>4 DEF Register, CallUnread, GiveUp
<1>4. ASSUME NEW c \in Call, Write(c) PROVE CallState' = CallState
  BY <1>4, Stutters DEF Write, At, Steps, callVars, Call
<1>5. CASE NotifyOrFail
  <2>1. CASE at' = <<"register", "list">>
    <3>1. CallState["list"] = "idle"
      BY <1>5, <1>t DEF NotifyOrFail, At, Order, Earlier, Steps, CallState, Call
    <3>2. CallState' = [c \in Call |-> IF c \in {"list"} THEN "open" ELSE CallState[c]]
      BY <1>5, <2>1, <1>t DEF NotifyOrFail, At, Order, Earlier, Steps, CallState,
         Call, callVars
    <3> QED BY <3>1, <3>2 DEF Promise!Next, Promise!Ask, Promise!Goes, Call
  <2>2. CASE ToClose
    <3>1. \A d \in Call : at' \notin Steps(d) /\ at \notin Steps(d)
      BY <1>5, <2>2 DEF NotifyOrFail, ToClose, At, Steps, Call
    <3> QED BY <1>5, <3>1, Stutters DEF NotifyOrFail, callVars
  <2> QED BY <1>5, <2>1, <2>2 DEF NotifyOrFail
<1>6. CASE Close \/ Kill \/ Verdict
  BY <1>6, Stutters DEF Close, Kill, Verdict, Closing, Steps, callVars
<1>7. CASE UNCHANGED <<at, outcome>>
  BY <1>7, Stutters
<1> QED BY CallerSteps, <1>3, <1>4, <1>5, <1>6, <1>7, <1>t, NotTheCaller DEF Next

\* The session of a probe implements the promise of Calls.
THEOREM ProbeImplementsCalls == Spec => ProbeKeepsPromise
BY PromiseInit, PromiseStep, Invariant, PTL DEF Spec, ProbeKeepsPromise, Promise!Spec

=============================================================================
