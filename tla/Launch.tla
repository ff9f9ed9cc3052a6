------------------------------- MODULE Launch -------------------------------
(***************************************************************************)
(* launch.sh (internal/nest/nest.go) inside one sandbox, run by deploys and *)
(* by the operator's start, possibly at the same time: the lock, the search *)
(* for a live buzz-acp, the stamp in acp.log, the detached agent; before it *)
(* the deploy's kill of an older agent, after it the verification.          *)
(*                                                                          *)
(* Processes: the invocations of the provider (at), the shells that run     *)
(* launch.sh (sh), and what each of them spawns (kid).  An invocation whose *)
(* ssh breaks has failed; its shell goes on.                                *)
(***************************************************************************)
EXTENDS Integers, Sequences, FiniteSets

CONSTANTS
  Deploy,  \* invocations of deploy
  Start,   \* invocations of start
  LaunchId,  \* each deploy's: random, or the sentinel of those who could draw none
  TailLines,  \* how many lines of the log 4 KiB hold
  None     \* no launch.sh yet, or one that is truncated

ASSUME LaunchAssumption ==
  /\ Deploy \cap Start = {}
  /\ None \notin Deploy \cup Start
  /\ TailLines \in Nat

Proc == Deploy \cup Start

VARIABLES
  at,      \* each invocation
  sh,      \* its shell that runs launch.sh, with the deploy that wrote it
  kid,     \* the process that shell spawned
  script,  \* launch.sh: the deploy that wrote it
  log,     \* acp.log
  \* For the properties only:
  missed   \* buzz-acp was looked for while one was about to be executed

vars == <<at, sh, kid, script, log, missed>>

-----------------------------------------------------------------------------
(* The processes. *)

\* pgrep -f finds it: the argv names buzz-acp from the exec of setsid on.
Visible(p) == kid[p] \in {"up", "serving", "drain"}

\* Forked by launch.sh and not yet executed: its argv is the shell's.
Unborn(p) == kid[p] \in {"forked", "closed"}

Running(p) == Visible(p) \/ Unborn(p)

\* Mutant: a process that has its SIGTERM counts as gone.
AliveIfServing == \E p \in Proc : kid[p] \in {"up", "serving"}

buzz_acp_alive == \E p \in Proc : Visible(p)

\* The shell has locked descriptor 9.
Locked(p) == sh[p].at \in {"check", "stamp", "fork", "pid"}

\* Descriptor 9: the shell's, and its child's until 9>&- closes it.
Holds(p) == Locked(p) \/ kid[p] = "forked"

Looks == missed' = (missed \/ \E p \in Proc : Unborn(p))

Init ==
  /\ at = [p \in Proc |-> "idle"]
  /\ sh = [p \in Proc |-> [at |-> "none", of |-> None]]
  /\ kid = [p \in Proc |-> "none"]
  /\ script = None
  /\ log = <<>>
  /\ missed = FALSE

Goes(p, to) == at' = [at EXCEPT ![p] = to]
Shell(p, to) == sh' = [sh EXCEPT ![p].at = to]
ShellEnds(p) == sh' = [sh EXCEPT ![p] = [at |-> "over", of |-> None]]

\* How a failed invocation goes on.
Bad(p) == IF p \in Deploy THEN "teardown" ELSE "failed"

-----------------------------------------------------------------------------
(* The deploy up to its launch: prelaunchKillScript, then launch.sh is written *)
(* with the deploy's launch id.                                              *)

Term == kid' = [p \in Proc |-> IF Visible(p) THEN "drain" ELSE kid[p]]

Kill(d) ==
  /\ at[d] = "idle"
  /\ Term
  /\ Looks
  /\ Goes(d, "wait")
  /\ UNCHANGED <<sh, script, log>>

Gone(d) ==
  /\ at[d] \in {"wait", "killed"}
  /\ ~ buzz_acp_alive
  /\ Looks
  /\ Goes(d, "write")
  /\ UNCHANGED <<sh, kid, script, log>>

\* The agent overran prelaunchKillWaitSeconds.
Escalate(d) ==
  /\ at[d] = "wait"
  /\ buzz_acp_alive
  /\ kid' = [p \in Proc |-> IF Visible(p) THEN "zombie" ELSE kid[p]]
  /\ Looks
  /\ Goes(d, "killed")
  /\ UNCHANGED <<sh, script, log>>

\* BUZZ_PRELAUNCH_STILL_ALIVE
StillAlive(d) ==
  /\ at[d] = "killed"
  /\ buzz_acp_alive
  /\ Goes(d, Bad(d))
  /\ UNCHANGED <<sh, kid, script, log, missed>>

\* cat > launch.sh truncates it first.
Truncate(d) ==
  /\ at[d] = "write"
  /\ script' = None
  /\ Goes(d, "writing")
  /\ UNCHANGED <<sh, kid, log, missed>>

WriteScript(d) ==
  /\ at[d] = "writing"
  /\ script' = d
  /\ Goes(d, "run")
  /\ UNCHANGED <<sh, kid, log, missed>>

-----------------------------------------------------------------------------
(* launch.sh *)

\* An empty launch.sh does nothing, and a missing one is an error of start.
Run(p) ==
  /\ at[p] = IF p \in Deploy THEN "run" ELSE "idle"
  /\ \/ /\ script # None
        /\ sh' = [sh EXCEPT ![p] = [at |-> "lock", of |-> script]]
        /\ Goes(p, "running")
     \/ script = None /\ ShellEnds(p) /\ Goes(p, "running")
     \/ script = None /\ Goes(p, Bad(p)) /\ UNCHANGED sh
  /\ UNCHANGED <<kid, script, log, missed>>

Flock(p) ==
  /\ sh[p].at = "lock"
  /\ IF \E q \in Proc : Holds(q) THEN ShellEnds(p) ELSE Shell(p, "check")
  /\ UNCHANGED <<at, kid, script, log, missed>>

Check(p) ==
  /\ sh[p].at = "check"
  /\ Looks
  /\ IF buzz_acp_alive THEN ShellEnds(p) ELSE Shell(p, "stamp")
  /\ UNCHANGED <<at, kid, script, log>>

Writes(line) == log' = Append(log, line)

Stamp(p) ==
  /\ sh[p].at = "stamp"
  /\ Writes([what |-> "stamp", of |-> sh[p].of])
  /\ Shell(p, "fork")
  /\ UNCHANGED <<at, kid, script, missed>>

Fork(p) ==
  /\ sh[p].at = "fork"
  /\ kid' = [kid EXCEPT ![p] = "forked"]
  /\ Shell(p, "pid")
  /\ UNCHANGED <<at, script, log, missed>>

\* The pidfile, which nothing reads; the shell ends.
PidFile(p) ==
  /\ sh[p].at = "pid"
  /\ ShellEnds(p)
  /\ UNCHANGED <<at, kid, script, log, missed>>

-----------------------------------------------------------------------------
(* The agent. *)

\* 9>&-, then the exec.
KidGoesOn(p) ==
  /\ Unborn(p)
  /\ kid' = [kid EXCEPT ![p] = IF kid[p] = "forked" THEN "closed" ELSE "up"]
  /\ UNCHANGED <<at, sh, script, log, missed>>

KidLogs(p) ==
  /\ kid[p] = "up"
  /\ kid' = [kid EXCEPT ![p] = "serving"]
  /\ \E what \in {"ready", "denied"} : Writes([what |-> what, of |-> None])
  /\ UNCHANGED <<at, sh, script, missed>>

\* It crashes or finishes draining; PID 1 need not reap it.
KidDies(p) ==
  /\ Running(p)
  /\ kid' = [kid EXCEPT ![p] = "zombie"]
  /\ UNCHANGED <<at, sh, script, log, missed>>

-----------------------------------------------------------------------------
(* verifyLaunch, and the end of an invocation. *)

Last(s) == SubSeq(s, IF Len(s) > TailLines THEN Len(s) - TailLines + 1 ELSE 1, Len(s))

Stamps(d) ==
  {i \in DOMAIN log : log[i].what = "stamp" /\ LaunchId[log[i].of] = LaunchId[d]}

\* Mutant: a deploy, too, looks at the whole tail of the log.
RegionOfStart(p) == Last(log)

\* acpLivenessProbeFor: for a deploy, from the last line with its launch id.
Region(p) ==
  IF p \in Start THEN Last(log)
  ELSE IF Stamps(p) = {} THEN <<>>
  ELSE LET i == CHOOSE j \in Stamps(p) : \A k \in Stamps(p) : k <= j
       IN  Last(SubSeq(log, i, Len(log)))

Says(p, what) == \E i \in DOMAIN Region(p) : Region(p)[i].what = what

Verified(p) == buzz_acp_alive /\ Says(p, "ready") /\ ~ Says(p, "denied")

Verify(p) ==
  /\ at[p] = "running" /\ sh[p].at = "over"
  /\ Goes(p, IF Verified(p) THEN "ok" ELSE Bad(p))
  /\ UNCHANGED <<sh, kid, script, log, missed>>

\* The connection breaks.  What was sent to the sandbox goes on there.
Breaks(p) ==
  /\ at[p] \in {"wait", "killed", "write", "writing", "run", "running"}
  /\ Goes(p, Bad(p))
  /\ UNCHANGED <<sh, kid, script, log, missed>>

\* The teardown of a reused sandbox.
Teardown(d) ==
  /\ at[d] = "teardown"
  /\ Term \/ UNCHANGED kid
  /\ Goes(d, "failed")
  /\ UNCHANGED <<sh, script, log, missed>>

\* The sandbox stops, and some start boots it again.
Restart ==
  /\ kid' = [p \in Proc |-> "none"]
  /\ sh' = [p \in Proc |-> [at |-> IF sh[p].at = "none" THEN "none" ELSE "over",
                             of |-> None]]
  /\ at' = [p \in Proc |-> IF at[p] \in {"idle", "ok", "failed"} THEN at[p]
                           ELSE "failed"]
  /\ UNCHANGED <<script, log, missed>>

-----------------------------------------------------------------------------
DeployStep(d) ==
  \/ Kill(d) \/ Gone(d) \/ Escalate(d) \/ StillAlive(d)
  \/ Truncate(d) \/ WriteScript(d) \/ Teardown(d)

ShellStep(p) ==
  Flock(p) \/ Check(p) \/ Stamp(p) \/ Fork(p) \/ PidFile(p)

KidStep(p) == KidGoesOn(p) \/ KidLogs(p) \/ KidDies(p)

Next ==
  \/ \E d \in Deploy : DeployStep(d)
  \/ \E p \in Proc : \/ Run(p) \/ Verify(p) \/ Breaks(p)
                     \/ ShellStep(p) \/ KidStep(p)
  \/ Restart

Spec == Init /\ [][Next]_vars

-----------------------------------------------------------------------------
(* What must hold. *)

\* Every variable has its type, and a process has a shell that spawned it.
TypeOK ==
  /\ at \in [Proc -> {"idle", "wait", "killed", "write", "writing", "run",
                      "running", "ok", "teardown", "failed"}]
  /\ sh \in [Proc -> [at : {"none", "lock", "check", "stamp", "fork", "pid",
                           "over"},
                     of : Deploy \cup {None}]]
  /\ kid \in [Proc -> {"none", "forked", "closed", "up", "serving",
                       "drain", "zombie"}]
  /\ script \in Deploy \cup {None}
  /\ log \in Seq([what : {"stamp"}, of : Deploy]
                   \cup [what : {"ready", "denied"}, of : {None}])
  /\ missed \in BOOLEAN
  /\ \A p \in Proc : kid[p] # "none" => sh[p].at \in {"pid", "over"}

\* Two agents never run side by side, whichever deploys and starts run at once,
\* unless a launch or a kill looked for buzz-acp in the moment between a fork and
\* its exec.
OneAgent == ~ missed => \A p, q \in Proc : Running(p) /\ Running(q) => p = q

\* A deploy succeeds on a readiness line that was logged after a launch with its
\* own launch id, never on an earlier deploy's: only deploys that could draw no
\* random bytes take each other's launches for their own.
ReadinessIsFresh ==
  [][\A d \in Deploy : at[d] = "running" /\ at'[d] = "ok" =>
       \E i, j \in DOMAIN log : /\ i < j
                                /\ log[i].what = "stamp"
                                /\ LaunchId[log[i].of] = LaunchId[d]
                                /\ log[j].what = "ready"]_vars
=============================================================================
