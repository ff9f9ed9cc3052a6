---------------------------- MODULE LaunchProofs ----------------------------
(***************************************************************************)
(* Proofs about launch.sh, for any number of deploys and starts at a time. *)
(***************************************************************************)
EXTENDS Launch, TLAPS, WellFoundedInduction

-----------------------------------------------------------------------------
(* Type correctness. *)

\* TypeOK's part about the shells and the agents.
ProcsOK ==
  /\ sh \in [Proc -> [at : {"none", "lock", "check", "stamp", "fork", "pid",
                           "over"},
                     of : Deploy \cup {None}]]
  /\ kid \in [Proc -> {"none", "forked", "closed", "up", "serving",
                       "drain", "zombie"}]
  /\ \A p \in Proc : kid[p] # "none" => sh[p].at \in {"pid", "over"}

\* TypeOK's part about the invocations and the files.
FilesOK ==
  /\ at \in [Proc -> {"idle", "wait", "killed", "write", "writing", "run",
                      "running", "ok", "teardown", "failed"}]
  /\ script \in Deploy \cup {None}
  /\ log \in Seq([what : {"stamp"}, of : Deploy]
                   \cup [what : {"ready", "denied"}, of : {None}])
  /\ missed \in BOOLEAN

\* An invocation has one shell: it has none before it runs launch.sh, and some
\* deploy wrote what it runs.
Before == {"idle", "wait", "killed", "write", "writing", "run"}
OneShell ==
  \A p \in Proc :
    /\ at[p] \in Before => sh[p].at = "none"
    /\ sh[p].at \notin {"none", "over"} => sh[p].of \in Deploy

Typed == ProcsOK /\ FilesOK /\ OneShell

LEMMA InitTypes == Init => Typed
<1> SUFFICES ASSUME Init PROVE Typed
  OBVIOUS
<1>1. ProcsOK
  BY DEF Init, ProcsOK
<1>2. FilesOK
  <2> DEFINE Line == [what : {"stamp"}, of : Deploy]
                       \cup [what : {"ready", "denied"}, of : {None}]
  <2>1. log \in Seq(Line)
    <3> HIDE DEF Line
    <3> QED BY DEF Init
  <2> QED BY <2>1 DEF Init, FilesOK
<1>3. OneShell
  BY DEF Init, OneShell
<1> QED BY <1>1, <1>2, <1>3 DEF Typed

\* Only launch.sh spawns an agent, and its own shell has passed the stamp then.
LEMMA NextProcs == ASSUME Typed, [Next]_vars PROVE ProcsOK'
<1> USE DEF Typed, ProcsOK
<1>1. ASSUME NEW d \in Deploy, DeployStep(d) PROVE ProcsOK'
  BY <1>1 DEF DeployStep, Kill, Gone, Escalate, StillAlive, Truncate, WriteScript,
     Teardown, Term, Visible, Proc
<1>2. ASSUME NEW p \in Proc, Run(p) PROVE ProcsOK'
  <2>1. kid[p] = "none" /\ kid' = kid
    BY <1>2 DEF Run, OneShell, Before
  <2>2. \/ sh' = sh
        \/ \E r \in [at : {"lock", "over"}, of : Deploy \cup {None}] :
             sh' = [sh EXCEPT ![p] = r]
    BY <1>2 DEF Run, ShellEnds, FilesOK
  <2> QED BY <2>1, <2>2
<1>3. ASSUME NEW p \in Proc, ShellStep(p) PROVE ProcsOK'
  BY <1>3 DEF ShellStep, Flock, Check, Stamp, Fork, PidFile, Shell, ShellEnds
<1>4. ASSUME NEW p \in Proc, KidStep(p) PROVE ProcsOK'
  BY <1>4 DEF KidStep, KidGoesOn, KidLogs, KidDies, Unborn, Running, Visible
<1>5. ASSUME NEW p \in Proc, Verify(p) \/ Breaks(p) PROVE ProcsOK'
  BY <1>5 DEF Verify, Breaks
<1>6. CASE Restart
  BY <1>6 DEF Restart
<1>7. CASE UNCHANGED vars
  BY <1>7 DEF vars
<1> QED BY <1>1, <1>2, <1>3, <1>4, <1>5, <1>6, <1>7 DEF Next

\* A line is a stamp of a deploy's launch or a word of the agent.
LEMMA NextFiles == ASSUME Typed, [Next]_vars PROVE FilesOK'
<1> USE DEF Typed, FilesOK
<1>1. ASSUME NEW d \in Deploy, DeployStep(d) PROVE FilesOK'
  BY <1>1 DEF DeployStep, Kill, Gone, Escalate, StillAlive, Truncate, WriteScript,
     Teardown, Looks, Goes, Bad, Proc
<1>2. ASSUME NEW p \in Proc, Run(p) PROVE FilesOK'
  BY <1>2 DEF Run, Goes, Bad
<1>3. ASSUME NEW p \in Proc, ShellStep(p) PROVE FilesOK'
  <2>1. CASE Stamp(p)
    <3>1. [what |-> "stamp", of |-> sh[p].of] \in [what : {"stamp"}, of : Deploy]
      BY <2>1 DEF Stamp, OneShell
    <3> QED BY <2>1, <3>1 DEF Stamp, Writes
  <2>2. CASE Flock(p) \/ Check(p) \/ Fork(p) \/ PidFile(p)
    BY <2>2 DEF Flock, Check, Fork, PidFile, Looks
  <2> QED BY <1>3, <2>1, <2>2 DEF ShellStep
<1>4. ASSUME NEW p \in Proc, KidStep(p) PROVE FilesOK'
  <2>1. CASE KidLogs(p)
    <3>1. PICK what \in {"ready", "denied"} : Writes([what |-> what, of |-> None])
      BY <2>1 DEF KidLogs
    <3>2. [what |-> what, of |-> None] \in [what : {"ready", "denied"}, of : {None}]
      OBVIOUS
    <3> QED BY <2>1, <3>1, <3>2 DEF KidLogs, Writes
  <2>2. CASE KidGoesOn(p) \/ KidDies(p)
    BY <2>2 DEF KidGoesOn, KidDies
  <2> QED BY <1>4, <2>1, <2>2 DEF KidStep
<1>5. ASSUME NEW p \in Proc, Verify(p) \/ Breaks(p) PROVE FilesOK'
  BY <1>5 DEF Verify, Breaks, Goes, Bad
<1>6. CASE Restart
  BY <1>6 DEF Restart
<1>7. CASE UNCHANGED vars
  BY <1>7 DEF vars
<1> QED BY <1>1, <1>2, <1>3, <1>4, <1>5, <1>6, <1>7 DEF Next

LEMMA NextOneShell == ASSUME Typed, [Next]_vars PROVE OneShell'
<1> USE DEF Typed, FilesOK, ProcsOK, OneShell, Before
<1>1. ASSUME NEW d \in Deploy, DeployStep(d) PROVE OneShell'
  BY <1>1 DEF DeployStep, Kill, Gone, Escalate, StillAlive, Truncate, WriteScript,
     Teardown, Goes, Bad, Proc
<1>2. ASSUME NEW p \in Proc, Run(p) PROVE OneShell'
  BY <1>2 DEF Run, Goes, Bad, ShellEnds
<1>3. ASSUME NEW p \in Proc, ShellStep(p) PROVE OneShell'
  <2>1. at' = at /\ sh[p].at \notin {"none", "over"}
    BY <1>3 DEF ShellStep, Flock, Check, Stamp, Fork, PidFile
  <2>2. \/ sh' = [sh EXCEPT ![p] = [at |-> "over", of |-> None]]
        \/ \E to \in {"check", "stamp", "fork", "pid"} : sh' = [sh EXCEPT ![p].at = to]
    BY <1>3 DEF ShellStep, Flock, Check, Stamp, Fork, PidFile, Shell, ShellEnds
  <2>3. sh[p].of \in Deploy /\ at[p] \notin Before
    BY <2>1
  <2> QED BY <2>1, <2>2, <2>3
<1>4. ASSUME NEW p \in Proc, KidStep(p) PROVE OneShell'
  BY <1>4 DEF KidStep, KidGoesOn, KidLogs, KidDies
<1>5. ASSUME NEW p \in Proc, Verify(p) \/ Breaks(p) PROVE OneShell'
  BY <1>5 DEF Verify, Breaks, Goes, Bad
<1>6. CASE Restart
  BY <1>6 DEF Restart
<1>7. CASE UNCHANGED vars
  BY <1>7 DEF vars
<1> QED BY <1>1, <1>2, <1>3, <1>4, <1>5, <1>6, <1>7 DEF Next

\* Every reachable state is well typed, and each invocation runs launch.sh at
\* most once.
THEOREM LaunchTypes == Spec => []Typed
<1>1. Typed /\ [Next]_vars => Typed'
  BY NextProcs, NextFiles, NextOneShell DEF Typed
<1> QED BY InitTypes, <1>1, PTL DEF Spec

\* TypeOK is what it says without the count of the shells.
THEOREM LaunchTypeCorrect == Spec => []TypeOK
<1>1. Typed => TypeOK
  BY DEF Typed, ProcsOK, FilesOK, TypeOK
<1> QED BY LaunchTypes, <1>1, PTL

-----------------------------------------------------------------------------
(* One agent. *)

\* The lock has one holder, and once it has looked for buzz-acp in vain nobody
\* else can start one before it does.
Single ==
  /\ \A p, q \in Proc : Holds(p) /\ Holds(q) => p = q
  /\ ~ missed => \A p, q \in Proc : sh[p].at \in {"stamp", "fork"} => ~ Running(q)
  /\ OneAgent

\* A step that takes no lock, looks at nothing new and starts no agent.
LEMMA Shrinks ==
  ASSUME Single, missed => missed',
         \A p \in Proc : Holds(p)' => Holds(p),
         \A p \in Proc : Running(p)' => Running(p),
         \A p \in Proc : sh'[p].at \in {"stamp", "fork"} =>
                           sh[p].at \in {"stamp", "fork"}
  PROVE  Single'
<1>1. \A p, q \in Proc : Holds(p)' /\ Holds(q)' => p = q
  BY DEF Single
<1>2. ~ missed' => \A p, q \in Proc : sh'[p].at \in {"stamp", "fork"} => ~ Running(q)'
  BY DEF Single
<1>3. OneAgent'
  <2> SUFFICES ASSUME ~ missed', NEW p \in Proc, NEW q \in Proc,
                      Running(p)', Running(q)'
               PROVE  p = q
    BY DEF OneAgent
  <2> QED BY DEF Single, OneAgent
<1> QED BY <1>1, <1>2, <1>3 DEF Single

\* Whoever takes the lock is the only one to hold it.
LEMMA FlockKeeps == ASSUME Typed, Single, NEW p \in Proc, Flock(p) PROVE Single'
<1>1. CASE \E q \in Proc : Holds(q)
  <2>1. sh' = [sh EXCEPT ![p] = [at |-> "over", of |-> None]] /\ UNCHANGED <<kid, missed>>
    BY <1>1 DEF Flock, ShellEnds
  <2>2. \A q \in Proc : /\ Holds(q)' => Holds(q)
                        /\ Running(q)' => Running(q)
                        /\ sh'[q].at \in {"stamp", "fork"} => sh[q].at \in {"stamp", "fork"}
    BY <2>1 DEF Typed, ProcsOK, Holds, Locked, Running, Visible, Unborn
  <2> QED BY <2>1, <2>2, Shrinks
<1>2. CASE ~ \E q \in Proc : Holds(q)
  <2>1. sh' = [sh EXCEPT ![p].at = "check"] /\ UNCHANGED <<kid, missed>>
    BY <1>2 DEF Flock, Shell
  <2>2. \A q \in Proc : q # p => ~ Holds(q)'
    BY <1>2, <2>1 DEF Typed, ProcsOK, Holds, Locked
  <2>3. \A q \in Proc : /\ Running(q)' <=> Running(q)
                        /\ sh'[q].at \in {"stamp", "fork"} => sh[q].at \in {"stamp", "fork"}
    BY <2>1 DEF Typed, ProcsOK, Running, Visible, Unborn
  <2>4. OneAgent'
    BY <2>1, <2>3 DEF Single, OneAgent
  <2> QED BY <2>1, <2>2, <2>3, <2>4 DEF Single
<1> QED BY <1>1, <1>2

\* Who goes on after the search has seen no agent, and missed none.
LEMMA CheckKeeps == ASSUME Typed, Single, NEW p \in Proc, Check(p) PROVE Single'
<1>1. kid' = kid /\ sh[p].at = "check" /\ (missed => missed')
  BY DEF Check, Looks
<1>2. \A q \in Proc : Holds(q)' => Holds(q)
  BY <1>1 DEF Check, Shell, ShellEnds, Typed, ProcsOK, Holds, Locked
<1>3. \A q \in Proc : Running(q)' <=> Running(q)
  BY <1>1 DEF Running, Visible, Unborn
<1>4. CASE buzz_acp_alive
  <2>1. \A q \in Proc : sh'[q].at \in {"stamp", "fork"} => sh[q].at \in {"stamp", "fork"}
    BY <1>4 DEF Check, ShellEnds, Typed, ProcsOK
  <2> QED BY <1>1, <1>2, <1>3, <2>1, Shrinks
<1>5. CASE ~ buzz_acp_alive
  <2>1. ~ missed' => \A q \in Proc : ~ Running(q)
    BY <1>5 DEF Check, Looks, buzz_acp_alive, Running
  <2>2. OneAgent'
    BY <1>1, <1>3, <2>1 DEF OneAgent
  <2> QED BY <1>2, <1>3, <2>1, <2>2 DEF Single
<1> QED BY <1>4, <1>5

\* The agent that launch.sh forks is the only one.
LEMMA ForkKeeps == ASSUME Typed, Single, NEW p \in Proc, Fork(p) PROVE Single'
<1>1. /\ sh[p].at = "fork" /\ missed' = missed
      /\ kid' = [kid EXCEPT ![p] = "forked"] /\ sh' = [sh EXCEPT ![p].at = "pid"]
  BY DEF Fork, Shell
<1>2. \A q \in Proc : Holds(q)' => Holds(q)
  BY <1>1 DEF Typed, ProcsOK, Holds, Locked
<1>3. \A q \in Proc : q # p => (Running(q)' <=> Running(q))
  BY <1>1 DEF Typed, ProcsOK, Running, Visible, Unborn
<1>4. \A q \in Proc : sh'[q].at \in {"stamp", "fork"} => sh[q].at \in {"stamp", "fork"} /\ q # p
  BY <1>1 DEF Typed, ProcsOK
<1>5. OneAgent'
  BY <1>1, <1>3 DEF Single, OneAgent
<1>6. \A q \in Proc : sh'[q].at \notin {"stamp", "fork"}
  BY <1>1, <1>4 DEF Single, Holds, Locked
<1> QED BY <1>2, <1>5, <1>6 DEF Single

LEMMA NextSingle == ASSUME Typed, Single, [Next]_vars PROVE Single'
<1> USE DEF Typed, ProcsOK
<1> DEFINE Quiet ==
      /\ missed => missed'
      /\ \A p \in Proc : Holds(p)' => Holds(p)
      /\ \A p \in Proc : Running(p)' => Running(p)
      /\ \A p \in Proc : sh'[p].at \in {"stamp", "fork"} =>
                           sh[p].at \in {"stamp", "fork"}
<1>0. Quiet => Single'
  BY Shrinks
<1>1. ASSUME NEW d \in Deploy, DeployStep(d) PROVE Quiet
  <2>1. sh' = sh
    BY <1>1 DEF DeployStep, Kill, Gone, Escalate, StillAlive, Truncate,
       WriteScript, Teardown
  <2>1a. missed => missed'
    <3>1. Looks => (missed => missed')
      BY DEF Looks
    <3> QED BY <1>1, <3>1 DEF DeployStep, Kill, Gone, Escalate, StillAlive, Truncate,
       WriteScript, Teardown
  <2>2. \A p \in Proc : kid'[p] = kid[p] \/ (Visible(p) /\ kid'[p] \in {"drain", "zombie"})
    BY <1>1 DEF DeployStep, Kill, Gone, Escalate, StillAlive, Truncate,
       WriteScript, Teardown, Term
  <2> QED BY <2>1, <2>1a, <2>2 DEF Holds, Locked, Running, Visible, Unborn
<1>2. ASSUME NEW p \in Proc, Run(p) PROVE Quiet
  BY <1>2 DEF Run, ShellEnds, Holds, Locked, Running, Visible, Unborn
<1>3. ASSUME NEW p \in Proc, Stamp(p) \/ PidFile(p) PROVE Quiet
  BY <1>3 DEF Stamp, PidFile, Shell, ShellEnds, Holds, Locked, Running, Visible, Unborn
<1>4. ASSUME NEW p \in Proc, KidStep(p) PROVE Quiet
  BY <1>4 DEF KidStep, KidGoesOn, KidLogs, KidDies, Holds, Locked, Running, Visible, Unborn
<1>5. ASSUME NEW p \in Proc, Verify(p) \/ Breaks(p) PROVE Quiet
  BY <1>5 DEF Verify, Breaks, Holds, Locked, Running, Visible, Unborn
<1>6. CASE Restart
  <2> Quiet
    BY <1>6 DEF Restart, Holds, Locked, Running, Visible, Unborn
  <2> QED BY <1>0
<1>7. CASE UNCHANGED vars
  <2> Quiet
    BY <1>7 DEF vars, Holds, Locked, Running, Visible, Unborn
  <2> QED BY <1>0
<1> HIDE DEF Quiet, Typed, ProcsOK
<1> QED
  BY <1>0, <1>1, <1>2, <1>3, <1>4, <1>5, <1>6, <1>7, FlockKeeps, CheckKeeps, ForkKeeps
  DEF Next, ShellStep

\* Two agents never run side by side, unless a search for buzz-acp fell into the
\* moment between a fork and its exec: with the lock, the search in launch.sh is
\* as good as one step.
THEOREM OnlyOneAgent == Spec => []OneAgent
<1>1. Init => Single
  BY DEF Init, Single, OneAgent, Holds, Locked, Running, Visible, Unborn
<1>2. Typed /\ Single /\ [Next]_vars => Single'
  BY NextSingle
<1>3. Single => OneAgent
  BY DEF Single
<1> QED BY LaunchTypes, <1>1, <1>2, <1>3, PTL DEF Spec

-----------------------------------------------------------------------------
(* Readiness. *)

\* What the end of a sequence has was in the sequence, at its place.
LEMMA LastOf ==
  ASSUME NEW S, NEW s \in Seq(S), NEW k \in DOMAIN Last(s)
  PROVE  \E i \in DOMAIN s : Last(s)[k] = s[i] /\ (i = k \/ i > k)
<1> DEFINE m == IF Len(s) > TailLines THEN Len(s) - TailLines + 1 ELSE 1
<1>1. TailLines \in Nat
  BY LaunchAssumption
<1>2. m \in 1..(Len(s) + 1) /\ Len(s) \in Nat /\ DOMAIN s = 1..Len(s)
  BY <1>1
<1>3. Last(s) = SubSeq(s, m, Len(s))
  BY DEF Last
<1> HIDE DEF m
<1>4. k \in 1..(Len(s) - m + 1)
  BY <1>2, <1>3
<1>5. Last(s)[k] = s[m + k - 1] /\ m + k - 1 \in 1..Len(s) /\ m + k - 1 >= k
  BY <1>2, <1>3, <1>4
<1> QED BY <1>2, <1>4, <1>5

\* A set of places in a sequence has a last one.
LEMMA LastPlace ==
  ASSUME NEW n \in Nat, NEW S \in SUBSET (1..n), S # {}
  PROVE  \E x \in S : \A y \in S : y <= x
<1> DEFINE Less == {ss \in Nat \X Nat : ss[1] < ss[2]}
           T == {n - x : x \in S}
<1>1. IsWellFoundedOn(Less, Nat)
  BY NatLessThanWellFounded DEF OpToRel
<1>2. T \subseteq Nat /\ T # {}
  <2>1. \A x \in S : x \in Nat /\ x <= n
    OBVIOUS
  <2>2. \A x \in S : n - x \in Nat
    BY <2>1
  <2> QED BY <2>2
<1>3. PICK t \in T : \A u \in T : ~ (<<u, t>> \in Less)
  <2> HIDE DEF Less, T
  <2> QED BY <1>1, <1>2, WFMin
<1>4. \A u \in T : ~ (u < t)
  BY <1>2, <1>3
<1>5. PICK x \in S : t = n - x
  OBVIOUS
<1>6. ASSUME NEW y \in S PROVE y <= x
  <2>1. n - y \in T
    OBVIOUS
  <2>2. ~ (n - y < n - x)
    BY <2>1, <1>4, <1>5
  <2> QED BY <2>2
<1> QED BY <1>6

\* In a deploy's region of the log, readiness comes after its own stamp.
LEMMA ReadyInRegion ==
  ASSUME Typed, NEW d \in Deploy, Says(d, "ready")
  PROVE  \E i, j \in DOMAIN log : /\ i < j
                                  /\ log[i].what = "stamp"
                                  /\ LaunchId[log[i].of] = LaunchId[d]
                                  /\ log[j].what = "ready"
<1> DEFINE Line == [what : {"stamp"}, of : Deploy]
                     \cup [what : {"ready", "denied"}, of : {None}]
           i == CHOOSE j \in Stamps(d) : \A k \in Stamps(d) : k <= j
           rest == SubSeq(log, i, Len(log))
<1>1. d \notin Start
  BY LaunchAssumption
<1>2. log \in Seq(Line)
  BY DEF Typed, FilesOK
<1> HIDE DEF Line
<1>3. Stamps(d) # {} /\ Region(d) = Last(rest)
  <2>1. Stamps(d) # {}
    <3> SUFFICES ASSUME Stamps(d) = {} PROVE FALSE
      OBVIOUS
    <3>1. Region(d) = << >>
      BY <1>1 DEF Region
    <3> QED BY <3>1 DEF Says
  <2> QED BY <1>1, <2>1 DEF Region
<1>4. PICK k \in DOMAIN Last(rest) : Last(rest)[k].what = "ready"
  BY <1>3 DEF Says
<1>5. i \in Stamps(d)
  <2>1. Stamps(d) \in SUBSET (1..Len(log)) /\ Len(log) \in Nat
    BY <1>2 DEF Stamps
  <2>2. \E x \in Stamps(d) : \A y \in Stamps(d) : y <= x
    BY <1>3, <2>1, LastPlace
  <2> QED BY <2>2
<1>6. /\ i \in DOMAIN log /\ log[i].what = "stamp"
      /\ LaunchId[log[i].of] = LaunchId[d]
  BY <1>5 DEF Stamps
<1> HIDE DEF i
<1>7. /\ rest \in Seq(Line) /\ DOMAIN rest = 1..(Len(log) - i + 1)
      /\ \A x \in DOMAIN rest : rest[x] = log[i + x - 1]
  BY <1>2, <1>6
<1> HIDE DEF rest
<1>8. PICK x \in DOMAIN rest : Last(rest)[k] = rest[x]
  BY <1>4, <1>7, LastOf
<1>9. log[i + x - 1].what = "ready" /\ i + x - 1 \in DOMAIN log
  BY <1>2, <1>4, <1>6, <1>7, <1>8
<1>10. x # 1
  BY <1>6, <1>9, <1>2
<1>11. i < i + x - 1
  BY <1>2, <1>6, <1>7, <1>10
<1> QED BY <1>6, <1>9, <1>11

\* A deploy succeeds only on readiness that followed a launch with its own launch
\* id, however many deploys share it.
THEOREM FreshReadiness == Spec => ReadinessIsFresh
<1>1. Typed /\ [Next]_vars =>
        [\A d \in Deploy : at[d] = "running" /\ at'[d] = "ok" =>
           \E i, j \in DOMAIN log : /\ i < j
                                    /\ log[i].what = "stamp"
                                    /\ LaunchId[log[i].of] = LaunchId[d]
                                    /\ log[j].what = "ready"]_vars
  <2> SUFFICES ASSUME Typed, Next, NEW d \in Deploy, at[d] = "running", at'[d] = "ok"
               PROVE  \E i, j \in DOMAIN log :
                        /\ i < j
                        /\ log[i].what = "stamp"
                        /\ LaunchId[log[i].of] = LaunchId[d]
                        /\ log[j].what = "ready"
    OBVIOUS
  <2> USE DEF Typed, FilesOK
  <2>1. Says(d, "ready")
    <3>1. ASSUME NEW c \in Deploy, DeployStep(c) PROVE FALSE
      BY <3>1 DEF DeployStep, Kill, Gone, Escalate, StillAlive, Truncate,
         WriteScript, Teardown, Goes, Bad, Proc
    <3>2. ASSUME NEW q \in Proc, Run(q) \/ Breaks(q) PROVE FALSE
      BY <3>2 DEF Run, Breaks, Goes, Bad, Proc
    <3>3. ASSUME NEW q \in Proc, ShellStep(q) \/ KidStep(q) PROVE FALSE
      BY <3>3 DEF ShellStep, Flock, Check, Stamp, Fork, PidFile,
         KidStep, KidGoesOn, KidLogs, KidDies
    <3>4. ~ Restart
      BY DEF Restart, Proc
    <3>5. ASSUME NEW q \in Proc, Verify(q) PROVE Says(d, "ready")
      <4>1. q = d
        BY <3>5 DEF Verify, Goes
      <4>2. Verified(d)
        BY <3>5, <4>1 DEF Verify, Goes, Bad
      <4> QED BY <4>2 DEF Verified
    <3> QED BY <3>1, <3>2, <3>3, <3>4, <3>5 DEF Next
  <2> QED BY <2>1, ReadyInRegion
<1> QED BY LaunchTypes, <1>1, PTL DEF Spec, ReadinessIsFresh
=============================================================================
