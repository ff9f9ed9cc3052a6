------------------------------- MODULE Bridge -------------------------------
(***************************************************************************)
(* internal/httpmcp/bridge.go: lines of JSON-RPC on stdin, each posted to   *)
(* an MCP endpoint, the answers written to stdout.  The loop of Run reads   *)
(* the lines; "initialize" is exchanged by the loop itself, every other     *)
(* line by a goroutine of its own.  The first exchange that fails cancels   *)
(* the others.                                                              *)
(***************************************************************************)
EXTENDS FiniteSets

CONSTANTS
  Request,  \* the lines that are not "initialize"
  Note,     \* those among them that are notifications
  Session,  \* the Mcp-Session-Id values the server gives out
  None      \* no session

ASSUME BridgeAssumption ==
  /\ "init" \notin Request
  /\ Note \subseteq Request
  /\ None \notin Session

Line == Request \cup {"init"}

VARIABLES
  loop,       \* Run: scanning, waiting for its goroutines, closing, returned
  ex,         \* the exchange of each line
  header,     \* the Mcp-Session-Id that the request of a line carried
  sessionID,
  cancelled,  \* Run's context is done
  errs,       \* the channel errs holds an error
  result,     \* what Run returned
  deleted     \* the sessions for which a DELETE was sent

loopVars   == <<loop, result, deleted>>
bridgeVars == <<loop, ex, header, sessionID, cancelled, errs, result, deleted>>

Busy(l) == ex[l] \in {"begun", "sent", "open"}

BridgeInit ==
  /\ loop = "scan"
  /\ ex = [l \in Line |-> "none"]
  /\ header = [l \in Line |-> None]
  /\ sessionID = None
  /\ cancelled = FALSE
  /\ errs = FALSE
  /\ result = "none"
  /\ deleted = {}

\* Mutant: "initialize" gets a goroutine like any other line.
ScanningAlways == loop = "scan"

\* The loop reads no line while it exchanges "initialize".
Scanning == loop = "scan" /\ ~ Busy("init")

Reads(l) ==
  /\ Scanning
  /\ ex[l] = "none"
  /\ ex' = [ex EXCEPT ![l] = "begun"]
  /\ UNCHANGED <<loopVars, header, sessionID, cancelled, errs>>

-----------------------------------------------------------------------------
(* One exchange. *)

\* The request is built and sent; with a context that is done it is not.
Sends(l) ==
  /\ ex[l] = "begun"
  /\ ~ cancelled
  /\ ex' = [ex EXCEPT ![l] = "sent"]
  /\ header' = [header EXCEPT ![l] = sessionID]
  /\ UNCHANGED <<loopVars, sessionID, cancelled, errs>>

\* The error of a goroutine goes into errs if it is the first, that of
\* "initialize" ends Run.  Both cancel.
Fail(l) ==
  /\ ex' = [ex EXCEPT ![l] = "failed"]
  /\ cancelled' = TRUE
  /\ loop' = IF l = "init" THEN "quit" ELSE loop
  /\ errs' = (errs \/ l # "init")

\* No connection, a deadline, a context that is done, a body that breaks off.
Breaks(l) ==
  /\ \/ ex[l] = "begun" /\ cancelled
     \/ ex[l] \in {"sent", "open"}
  /\ Fail(l)
  /\ UNCHANGED <<header, sessionID, result, deleted>>

\* Response headers.  The session is taken before the status is looked at.
Responds(l, s) ==
  /\ ex[l] = "sent"
  /\ sessionID' = IF s = None THEN sessionID ELSE s
  /\ \/ Fail(l)                              \* status or content type
     \/ /\ ex' = [ex EXCEPT ![l] = "ok"]     \* no body, or nobody waits for it
        /\ UNCHANGED <<loop, cancelled, errs>>
     \/ /\ l \notin Note
        /\ ex' = [ex EXCEPT ![l] = "open"]
        /\ UNCHANGED <<loop, cancelled, errs>>
  /\ UNCHANGED <<header, result, deleted>>

\* A line goes to stdout: the only one of a JSON body, or one of a stream.
Forwards(l) ==
  /\ ex[l] = "open"
  /\ \E s \in {"open", "ok"} : ex' = [ex EXCEPT ![l] = s]
  /\ UNCHANGED <<loopVars, header, sessionID, cancelled, errs>>

BodyEnds(l) ==
  /\ ex[l] = "open"
  /\ ex' = [ex EXCEPT ![l] = "ok"]
  /\ UNCHANGED <<loopVars, header, sessionID, cancelled, errs>>

-----------------------------------------------------------------------------
(* The end of Run. *)

Returns(r) ==
  /\ loop' = "done"
  /\ result' = r
  /\ cancelled' = TRUE
  /\ UNCHANGED <<ex, header, sessionID, errs>>

StdinEnds ==
  /\ Scanning
  /\ loop' = "drain"
  /\ UNCHANGED <<ex, header, sessionID, cancelled, errs, result, deleted>>

\* Mutant: the session is closed without wg.Wait.
DrainedAtOnce == loop = "drain"

Drained == loop = "drain" /\ \A l \in Line : ~ Busy(l)

ReturnsError ==
  /\ \/ Drained /\ errs
     \/ loop = "quit" /\ \A l \in Line : ~ Busy(l)
  /\ Returns("error")
  /\ UNCHANGED deleted

\* closeSession: what becomes of the DELETE is only logged.
closeSession ==
  /\ Drained /\ ~ errs
  /\ Returns("ok")
  /\ deleted' = IF sessionID = None THEN deleted ELSE deleted \cup {sessionID}

Exchange(l) ==
  \/ Sends(l) \/ Breaks(l) \/ BodyEnds(l)
  \/ \E s \in Session \cup {None} : Responds(l, s)
=============================================================================
