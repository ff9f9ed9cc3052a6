------------------------------- MODULE Probe -------------------------------
(***************************************************************************)
(* One server of `mcp probe`: mcpops.Probe initializes it through           *)
(* mcpprobe.Adapter, lists its tools and closes the session.  The session   *)
(* (mcpprobe/session.go) talks to the bridge of module Bridge, which runs   *)
(* in the same process, through two io.Pipes: a write and the read of it    *)
(* are one step.                                                            *)
(*                                                                          *)
(* Threads: the caller (at), the session's read loop (reader), the bridge   *)
(* with its exchanges.  The timers may fire at any time.                    *)
(***************************************************************************)
EXTENDS Bridge

Call == {"init", "list"}

ASSUME ProbeAssumption == {"note", "list"} \subseteq Request

VARIABLES
  at,       \* the caller
  outcome,  \* of each call: none, result, error
  verdict,  \* of the probe: none, ok, error
  pending,  \* calls in the session's pending map
  box,      \* each call's channel, capacity one
  readErr,  \* readErr is set, and done closed
  reader,   \* the read loop
  stdin,    \* the write end of the bridge's stdin
  stdout,   \* the read end of the bridge's stdout is open
  late      \* the probe's context is done

callVars == <<outcome, pending, box>>
pipeVars == <<stdin, stdout>>
vars == <<bridgeVars, at, verdict, callVars, readErr, reader, pipeVars, late>>

-----------------------------------------------------------------------------
\* What a frame from the server is to the read loop: an answer, a message for
\* nobody, or the end of the session.
Frame == [op : {"got"}, id : Call, answer : {"result", "error"}]
           \cup [op : {"skip", "bad"}]

Init ==
  /\ BridgeInit
  /\ at = <<"register", "init">>
  /\ outcome = [c \in Call |-> "none"]
  /\ verdict = "none"
  /\ pending = {}
  /\ box = [c \in Call |-> {}]
  /\ readErr = FALSE
  /\ reader = [op |-> "scan"]
  /\ stdin = "open"
  /\ stdout = TRUE
  /\ late = FALSE

At(c, s) == at = <<s, c>>
Closing(s) == at = <<s, "session">>

\* Mutant: a session that failed is initialized again.
CallAgain == at' = <<"register", "init">>

ToClose == at' = <<"close", "session">>

\* Mutant: a call that gives up leaves its channel in the map.
LeavePending(c) == UNCHANGED pending

removePending(c) == pending' = pending \ {c}

\* The caller goes on after the call c; a failed one makes it close.
Succeed(c) ==
  at' = IF c = "init" THEN <<"write", "note">> ELSE <<"close", "session">>

Ends(c, o) == outcome' = [outcome EXCEPT ![c] = o]

-----------------------------------------------------------------------------
(* session.call *)

Register(c) ==
  /\ At(c, "register")
  /\ \/ /\ ~ late /\ ~ readErr
        /\ pending' = pending \cup {c}
        /\ at' = <<"write", c>>
        /\ UNCHANGED outcome
     \/ /\ late \/ readErr
        /\ Ends(c, "error")
        /\ ToClose
        /\ UNCHANGED pending
  /\ UNCHANGED <<bridgeVars, verdict, box, readErr, reader, pipeVars, late>>

\* The write goes through when the bridge reads.
Write(c) ==
  /\ At(c, "write")
  /\ stdin = "open"
  /\ Reads(c)
  /\ at' = <<"wait", c>>
  /\ UNCHANGED <<verdict, callVars, readErr, reader, pipeVars, late>>

\* Mutant: the bridge's end of its stdin is not closed when Run returns.
UnreadForEver == FALSE

\* Nobody will read: Run returned, and its goroutine closed the pipe.
Unread == loop = "done"

WriteFails(l) ==
  /\ At(l, "write")
  /\ Unread
  /\ removePending(l)
  /\ outcome' = [c \in Call |-> IF c = l THEN "error" ELSE outcome[c]]
  /\ ToClose
  /\ UNCHANGED <<bridgeVars, verdict, box, readErr, reader, pipeVars, late>>

\* A result may still be one that Adapter or Probe refuses: a protocol version
\* nobody offered, a tool without a name or twice the same.
Receive(c) ==
  /\ At(c, "wait")
  /\ \E m \in box[c] :
       /\ Ends(c, m)
       /\ \/ m = "result" /\ Succeed(c)
          \/ ToClose
  /\ UNCHANGED <<bridgeVars, verdict, pending, box, readErr, reader, pipeVars,
                 late>>

GiveUp(c) ==
  /\ At(c, "wait")
  /\ late \/ readErr
  /\ removePending(c)
  /\ Ends(c, "error")
  /\ ToClose
  /\ UNCHANGED <<bridgeVars, verdict, box, readErr, reader, pipeVars, late>>

\* notifications/initialized.
Notify ==
  /\ At("note", "write")
  /\ stdin = "open"
  /\ Reads("note")
  /\ at' = <<"register", "list">>
  /\ UNCHANGED <<verdict, callVars, readErr, reader, pipeVars, late>>

-----------------------------------------------------------------------------
(* session.readLoop *)

\* An exchange's line and the read loop's Scan.
ReadFrame(l, f) ==
  /\ reader.op = "scan" /\ stdout
  /\ Forwards(l)
  /\ reader' = IF f.op = "skip" THEN reader ELSE f
  /\ UNCHANGED <<at, verdict, callVars, readErr, pipeVars, late>>

\* The line finds the read end closed.
ForwardFails(l) ==
  /\ ex[l] = "open"
  /\ ~ stdout
  /\ Fail(l)
  /\ UNCHANGED <<header, sessionID, result, deleted, at, verdict, callVars,
                 readErr, reader, pipeVars, late>>

Lookup ==
  /\ reader.op = "got"
  /\ reader' = IF reader.id \in pending
                 THEN [op |-> "put", to |-> {reader.id}, m |-> reader.answer]
                 ELSE [op |-> "scan"]
  /\ removePending(reader.id)
  /\ UNCHANGED <<bridgeVars, at, verdict, outcome, box, readErr, pipeVars, late>>

\* Sends to the channels, which have room for one.
Put ==
  /\ reader.op \in {"put", "fail"}
  /\ \E c \in reader.to :
       /\ box[c] = {}
       /\ box' = [box EXCEPT ![c] = {reader.m}]
       /\ reader' = [reader EXCEPT !.to = reader.to \ {c}]
  /\ UNCHANGED <<bridgeVars, at, verdict, outcome, pending, readErr, pipeVars,
                 late>>

PutDone ==
  /\ reader.op = "put" /\ reader.to = {}
  /\ reader' = [op |-> "scan"]
  /\ UNCHANGED <<bridgeVars, at, verdict, callVars, readErr, pipeVars, late>>

\* fail, for a frame that is not JSON-RPC, or the end of stdout.
fail ==
  /\ \/ reader.op = "bad"
     \/ reader.op = "scan" /\ (loop = "done" \/ ~ stdout)
  /\ readErr' = TRUE
  /\ pending' = {}
  /\ reader' = [op |-> "fail", to |-> pending, m |-> "error"]
  /\ UNCHANGED <<bridgeVars, at, verdict, outcome, box, pipeVars, late>>

\* readLoop returns and closes its end.
ReaderReturns ==
  /\ reader.op = "fail" /\ reader.to = {}
  /\ reader' = [op |-> "over"]
  /\ stdout' = FALSE
  /\ UNCHANGED <<bridgeVars, at, verdict, callVars, readErr, stdin, late>>

-----------------------------------------------------------------------------
(* session.Close, and the end of the probe. *)

Close ==
  /\ Closing("close")
  /\ at' = <<"grace", "session">>
  /\ stdin' = "eof"
  /\ UNCHANGED <<bridgeVars, verdict, callVars, readErr, reader, stdout, late>>

\* Close has ended stdin before: the bridge reads the end of it, not an error
\* (an io.Pipe keeps the first).
Kill ==
  /\ Closing("grace")
  /\ at' = <<"killed", "session">>
  /\ stdin' = "killed"
  /\ stdout' = FALSE
  /\ cancelled' = TRUE
  /\ UNCHANGED <<loop, ex, header, sessionID, errs, result, deleted, verdict,
                 callVars, readErr, reader, late>>

\* Mutant: Close drops what the bridge returned.
CloseErrDropped == loop = "done"

\* What Close returns is nil: the bridge's nil error, or a kill that worked.
CloseOK ==
  IF Closing("grace") THEN result = "ok" ELSE loop = "done"

\* Close comes back when the bridge has, or at the second timeout; the probe's
\* deferred cancel follows.
Verdict ==
  /\ \/ Closing("grace") /\ loop = "done"
     \/ Closing("killed")
  /\ at' = <<"over", "session">>
  /\ late' = TRUE
  /\ cancelled' = TRUE
  /\ \E listed \in BOOLEAN :
       /\ listed => outcome["list"] = "result"
       /\ verdict' = IF listed /\ CloseOK THEN "ok" ELSE "error"
  /\ UNCHANGED <<loop, ex, header, sessionID, errs, result, deleted, callVars,
                 readErr, reader, pipeVars>>

\* The deadline of the probe, which the bridge's context inherits.
Deadline ==
  /\ ~ late
  /\ late' = TRUE
  /\ cancelled' = TRUE
  /\ UNCHANGED <<loop, ex, header, sessionID, errs, result, deleted, at, verdict,
                 callVars, readErr, reader, pipeVars>>

-----------------------------------------------------------------------------
outside == <<at, verdict, callVars, readErr, reader, pipeVars, late>>

BridgeLoop ==
  /\ \/ stdin # "open" /\ StdinEnds
     \/ ReturnsError
     \/ closeSession
  /\ UNCHANGED outside

BridgeStep(l) ==
  \/ Exchange(l) /\ UNCHANGED outside
  \/ ForwardFails(l)
  \/ \E f \in Frame : ReadFrame(l, f)

ReadLoop == Lookup \/ Put \/ PutDone \/ fail \/ ReaderReturns

Caller ==
  \/ \E c \in Call : \/ Register(c) \/ Write(c) \/ Receive(c) \/ GiveUp(c)
  \/ \E l \in Call \cup {"note"} : WriteFails(l)
  \/ Notify \/ Close \/ Verdict

Next ==
  \/ Caller \/ ReadLoop \/ BridgeLoop \/ Kill \/ Deadline
  \/ \E l \in Line : BridgeStep(l)

Spec == Init /\ [][Next]_vars

\* The scheduler runs every goroutine that can run, and timers fire: those of
\* Close, the HTTP client's for each exchange, and the probe's.  Nothing is asked
\* of the server.
Fairness ==
  /\ WF_vars(Caller) /\ WF_vars(ReadLoop) /\ WF_vars(BridgeLoop)
  /\ WF_vars(Kill) /\ WF_vars(Deadline)
  /\ \A l \in Line : /\ WF_vars(Sends(l) /\ UNCHANGED outside)
                     /\ WF_vars(Breaks(l) /\ UNCHANGED outside)
                     /\ WF_vars(ForwardFails(l))

FairSpec == Spec /\ Fairness

-----------------------------------------------------------------------------
(* What must hold. *)

\* Every variable has its type, and the read loop sends to channels of calls.
TypeOK ==
  /\ loop \in {"scan", "drain", "quit", "done"}
  /\ ex \in [Line -> {"none", "begun", "sent", "open", "ok", "failed"}]
  /\ header \in [Line -> Session \cup {None}]
  /\ sessionID \in Session \cup {None}
  /\ cancelled \in BOOLEAN /\ errs \in BOOLEAN /\ readErr \in BOOLEAN
  /\ late \in BOOLEAN /\ stdout \in BOOLEAN
  /\ result \in {"none", "ok", "error"}
  /\ verdict \in {"none", "ok", "error"}
  /\ deleted \subseteq Session
  /\ at \in ({"register", "write", "wait"} \X Call) \cup {<<"write", "note">>}
              \cup ({"close", "grace", "killed", "over"} \X {"session"})
  /\ outcome \in [Call -> {"none", "result", "error"}]
  /\ pending \subseteq Call
  /\ box \in [Call -> SUBSET {"result", "error"}]
  /\ reader \in Frame \cup [op : {"scan", "over"}]
                 \cup [op : {"put", "fail"}, to : SUBSET Call,
                       m : {"result", "error"}]
  /\ stdin \in {"open", "eof", "killed"}

\* The read loop never blocks on a call's channel, which has room for one value:
\* whatever the server repeats, and whether an answer, the end of the stream or
\* the caller's deadline comes first, nobody sends to a channel twice.
NoBlockedReader ==
  reader.op \in {"put", "fail"} => \A c \in reader.to : box[c] = {}

\* Every request after the handshake carries a session of the server's, if the
\* server gave one out with the handshake.
SessionCarried ==
  [][\A l \in Request :
       ex[l] = "begun" /\ ex'[l] = "sent" /\ sessionID # None
         => header'[l] = sessionID /\ ~ Busy("init")]_vars

\* No request is under way, or follows, once the session has been deleted.
NothingAfterDelete ==
  deleted # {} => \A l \in Line : ex[l] \in {"none", "ok"}

\* A probe that succeeds has an answer of the server to either call, and no
\* exchange of it failed, the notification's included, unless the bridge had
\* to be killed (session.go:338: "a forced kill is expected").
SuccessIsWhole ==
  verdict = "ok" =>
    /\ \A c \in Call : outcome[c] = "result" /\ ex[c] # "none"
    /\ (\E l \in Line : ex[l] = "failed") => stdin = "killed"

\* The probe ends, however the server behaves, and its bridge, its goroutines and
\* its read loop end with it.
ProbeEnds ==
  <>[](Closing("over") /\ loop = "done" /\ reader.op = "over")

\* Each call of the session has one end, and nothing follows it.
CallState ==
  [c \in Call |->
     IF outcome[c] # "none" THEN outcome[c]
     ELSE IF at \in {"register", "write", "wait"} \X {c} THEN "open" ELSE "idle"]

Promise == INSTANCE Calls WITH state <- CallState
ProbeKeepsPromise == Promise!Spec
=============================================================================
