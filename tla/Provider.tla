------------------------------ MODULE Provider ------------------------------
(***************************************************************************)
(* Several invocations of the provider beside each other: the desktop's    *)
(* info and deploy requests (internal/provider), the operator's deploy and *)
(* undeploy (cmd/buzz-backend-databricks-lakebox), the choice of a         *)
(* Databricks profile, and agents.json, which they share (internal/state). *)
(* What a deploy does inside its sandbox is Deploy's matter.               *)
(***************************************************************************)
EXTENDS FiniteSets

CONSTANTS
  Proc,      \* the invocations
  Request,   \* what they may be asked for
  Agent,     \* identities (npubs)
  Profile,   \* profiles that name a workspace
  Baked,     \* version.DefaultProfile
  Id,        \* sandbox ids: each workspace gives its own
  Listing,   \* what `databricks auth profiles` may print
  None, Failed

ASSUME ProviderAssumption ==
  /\ Baked \in Profile
  /\ None \notin Profile \cup Id \cup Proc /\ Failed \notin Profile \cup {None}
  /\ \A l \in Listing : \A e \in l : e.name \in Profile \cup {""}
  /\ \A r \in Request :
       /\ r.op \in {"garbage", "info", "deploy", "operate", "undeploy"}
       /\ r.op \in {"deploy", "operate"} =>
            r.agent \in Agent /\ r.profile \in Profile \cup {None}
       /\ r.op \in {"operate", "undeploy"} => r.flag \in Profile

VARIABLES
  at,      \* where each invocation is
  req,     \* its request
  view,    \* the names its discovery found
  aim,     \* the profile it works with; for info, the default it advertises
  id,      \* its sandbox
  fresh,   \* deploys that created their sandbox
  file,    \* agents.json
  loaded,  \* the file an invocation read last
  temp,    \* its temporary file
  box      \* the sandboxes of each profile's workspace

chosen == <<req, view, aim>>
vars == <<at, req, view, aim, id, fresh, file, loaded, temp, box>>

-----------------------------------------------------------------------------
(* Profiles. *)

\* parseProfilesJSON: one bad entry or two hosts for a name spoil the listing;
\* account consoles are skipped.
Discovered(listing) ==
  LET workspaces == {e \in listing : e.host # "account"} IN
    IF \/ \E e \in listing : e.name = "" \/ e.host = ""
       \/ \E e, f \in workspaces : e.name = f.name /\ e.host # f.host
    THEN Failed
    ELSE {e.name : e \in workspaces}

\* Mutant: the first name is as good as any.
FirstIfSeveral(names) ==
  IF names \in {Failed, {}} THEN None
  ELSE IF Baked \in names THEN Baked
  ELSE CHOOSE n \in names : TRUE

\* deterministicProfileDefault, and no enum when nothing was discovered.
deterministicProfileDefault(names) ==
  IF names \in {Failed, {}} THEN None
  ELSE IF Baked \in names THEN Baked
  ELSE IF Cardinality(names) = 1 THEN CHOOSE n \in names : TRUE
  ELSE None

selectProfile(names) ==
  IF names \in {Failed, {}} \/ Baked \in names THEN Baked
  ELSE IF Cardinality(names) = 1 THEN CHOOSE n \in names : TRUE
  ELSE None

-----------------------------------------------------------------------------
(* The state file. *)

Key == Profile \X Agent
Entry == [id : Id, profile : Profile \cup {None}]  \* None: an old entry

KeyOf(p) == <<aim[p], req[p].agent>>

Recorded(f, p) == [f EXCEPT ![KeyOf(p)] = [id |-> id[p], profile |-> aim[p]]]

\* Mutant: ids are taken to be unique across workspaces.
ForgottenEverywhere(f, p) ==
  [k \in Key |-> IF f[k] # None /\ f[k].id = id[p] THEN None ELSE f[k]]

\* ForgetSandbox.
Forgotten(f, p) ==
  [k \in Key |->
    IF f[k] # None /\ f[k].id = id[p] /\ f[k].profile \in {None, aim[p]}
    THEN None ELSE f[k]]

-----------------------------------------------------------------------------
Over == {"idle", "answered", "refused", "crashed"}
Goes(p, to) == at' = [at EXCEPT ![p] = to]

Init ==
  /\ at = [p \in Proc |-> "idle"]
  /\ req = [p \in Proc |-> [op |-> "none"]]
  /\ view = [p \in Proc |-> None]
  /\ aim = [p \in Proc |-> None]
  /\ id = [p \in Proc |-> None]
  /\ fresh = {}
  /\ \E k \in Key, i \in Id :
       \/ file = [j \in Key |-> None] /\ box = [q \in Profile |-> {}]
       \/ /\ file = [j \in Key |->
                      IF j = k THEN [id |-> i, profile |-> None] ELSE None]
          /\ box = [q \in Profile |-> IF q = k[1] THEN {i} ELSE {}]
  /\ loaded = [p \in Proc |-> None]
  /\ temp = [p \in Proc |-> None]

\* main and Run: an unparsable, unknown or invalid request is refused.
Ask(p, r) ==
  /\ at[p] = "idle"
  /\ req' = [req EXCEPT ![p] = r]
  /\ \/ r.op = "garbage" /\ Goes(p, "refused") /\ UNCHANGED aim
     \/ r.op = "info" /\ Goes(p, "discover") /\ UNCHANGED aim
     \/ /\ r.op = "deploy" /\ r.profile = None
        /\ Goes(p, "discover") /\ UNCHANGED aim
     \/ /\ r.op = "deploy" /\ r.profile # None
        /\ Goes(p, "lookup") /\ aim' = [aim EXCEPT ![p] = r.profile]
     \/ /\ r.op = "operate"
        /\ Goes(p, "lookup")
        /\ aim' = [aim EXCEPT ![p] = IF r.profile = None THEN r.flag ELSE r.profile]
     \/ /\ r.op = "undeploy"
        /\ Goes(p, IF r.yes /\ r.id = None THEN "refused" ELSE "resolve")
        /\ aim' = [aim EXCEPT ![p] = r.flag]
  /\ UNCHANGED <<view, id, fresh, file, loaded, temp, box>>

\* DiscoverProfiles within its three seconds, for info and for a deploy that
\* names no profile.
Discover(p) ==
  /\ at[p] = "discover"
  /\ \E names \in {Discovered(l) : l \in Listing} \cup {Failed} :
       /\ view' = [view EXCEPT ![p] = names]
       /\ IF req[p].op = "info"
          THEN /\ Goes(p, "answered")
               /\ aim' = [aim EXCEPT ![p] = deterministicProfileDefault(names)]
          ELSE /\ Goes(p, IF selectProfile(names) = None THEN "refused" ELSE "lookup")
               /\ aim' = [aim EXCEPT ![p] = selectProfile(names)]
  /\ UNCHANGED <<req, id, fresh, file, loaded, temp, box>>

\* Lookup and the status probe: a mapped sandbox that answers is used.
Lookup(p) ==
  /\ at[p] = "lookup"
  /\ \/ Goes(p, "refused") /\ UNCHANGED id
     \/ Goes(p, "create") /\ UNCHANGED id
     \/ /\ file[KeyOf(p)] # None /\ file[KeyOf(p)].id \in box[aim[p]]
        /\ id' = [id EXCEPT ![p] = file[KeyOf(p)].id]
        /\ Goes(p, "load")
  /\ UNCHANGED <<chosen, fresh, file, loaded, temp, box>>

\* SandboxCreate: the workspace gives an id that it has not given before.
Create(p) ==
  /\ at[p] = "create"
  /\ \/ Goes(p, "refused") /\ UNCHANGED <<id, fresh, box>>
     \/ \E i \in Id \ box[aim[p]] :
          /\ id' = [id EXCEPT ![p] = i]
          /\ box' = [box EXCEPT ![aim[p]] = @ \cup {i}]
          /\ fresh' = fresh \cup {p}
          /\ Goes(p, "load")
  /\ UNCHANGED <<chosen, file, loaded, temp>>

\* resolveSandboxID and confirmSandboxID: the id given, or the only sandbox.
Resolve(p) ==
  /\ at[p] = "resolve"
  /\ LET r == req[p] IN
       \/ Goes(p, "refused") /\ UNCHANGED id
       \/ \E i \in Id :
            /\ r.id = i \/ (r.id = None /\ box[aim[p]] = {i})
            /\ r.yes \/ r.answer = i
            /\ id' = [id EXCEPT ![p] = i]
            /\ Goes(p, "delete")
  /\ UNCHANGED <<chosen, fresh, file, loaded, temp, box>>

\* Undeploy: the mapping is dropped only after the sandbox.
Delete(p) ==
  /\ at[p] = "delete"
  /\ \/ Goes(p, "refused") /\ UNCHANGED box
     \/ /\ id[p] \in box[aim[p]]
        /\ box' = [box EXCEPT ![aim[p]] = @ \ {id[p]}]
        /\ Goes(p, "load") \/ Goes(p, "refused")
  /\ UNCHANGED <<chosen, id, fresh, file, loaded, temp>>

Undeploys(p) == req[p].op = "undeploy"
Update(p) == IF Undeploys(p) THEN Forgotten(loaded[p], p) ELSE Recorded(loaded[p], p)

\* What follows the Record or the ForgetSandbox that failed: undeploy reports
\* a residue, a deploy deletes a fresh sandbox.
Unsaved(p) ==
  IF Undeploys(p) THEN Goes(p, "answered") /\ UNCHANGED box
  ELSE /\ Goes(p, "refused")
       /\ \/ UNCHANGED box
          \/ p \in fresh /\ box' = [box EXCEPT ![aim[p]] = @ \ {id[p]}]

Load(p) ==
  /\ at[p] = "load"
  /\ \/ Unsaved(p) /\ UNCHANGED loaded
     \/ /\ loaded' = [loaded EXCEPT ![p] = file]
        /\ Goes(p, IF Undeploys(p) /\ Forgotten(file, p) = file
                   THEN "answered" ELSE "write")
        /\ UNCHANGED box
  /\ UNCHANGED <<chosen, id, fresh, file, temp>>

\* save: the temporary file may get only a part of the data.
Write(p) ==
  /\ at[p] = "write"
  /\ \E t \in {"part", "whole"} : temp' = [temp EXCEPT ![p] = t]
  /\ Goes(p, "rename")
  /\ UNCHANGED <<chosen, id, fresh, file, loaded, box>>

\* Only a whole file is moved into place; the deferred Remove takes another.
Rename(p) ==
  /\ at[p] = "rename"
  /\ \/ /\ temp[p] = "whole"
        /\ file' = Update(p)
        /\ Goes(p, IF Undeploys(p) THEN "answered" ELSE "provision")
        /\ UNCHANGED box
     \/ Unsaved(p) /\ UNCHANGED file
  /\ temp' = [temp EXCEPT ![p] = None]
  /\ UNCHANGED <<chosen, id, fresh, loaded>>

\* The rest of the deploy: a fresh sandbox whose deploy fails is deleted, and
\* its mapping stays.
Provision(p) ==
  /\ at[p] = "provision"
  /\ \/ Goes(p, "answered") /\ UNCHANGED box
     \/ /\ Goes(p, "refused")
        /\ \/ UNCHANGED box
           \/ p \in fresh /\ box' = [box EXCEPT ![aim[p]] = @ \ {id[p]}]
  /\ UNCHANGED <<chosen, id, fresh, file, loaded, temp>>

\* The process is killed: its temporary file stays.
Crash(p) ==
  /\ at[p] \notin Over
  /\ Goes(p, "crashed")
  /\ UNCHANGED <<chosen, id, fresh, file, loaded, temp, box>>

Next ==
  \E p \in Proc :
    \/ \E r \in Request : Ask(p, r)
    \/ Discover(p) \/ Lookup(p) \/ Create(p) \/ Resolve(p) \/ Delete(p)
    \/ Load(p) \/ Write(p) \/ Rename(p) \/ Provision(p) \/ Crash(p)

Spec == Init /\ [][Next]_vars

-----------------------------------------------------------------------------
\* What the form shows is what an empty profile means: for the same discovery,
\* a deploy that names no profile goes to the default that info advertised,
\* and one that info could advertise none for, though profiles were found, is
\* refused (dynamicConfigSchema and handleDeploy, each with its own rule).
AdvertisedIsUsed ==
  \A i, d \in Proc :
    (/\ at[i] = "answered" /\ req[i].op = "info"
     /\ req[d].op = "deploy" /\ view[d] # None /\ view[d] = view[i])
    => /\ aim[i] # None => aim[d] = aim[i]
       /\ aim[i] = None /\ view[i] \notin {Failed, {}} =>
            aim[d] = None /\ at[d] \in {"refused", "crashed"}

\* Another agent's entry changes only when someone wrote the file between an
\* update's read and its rename, which the lock of one process cannot prevent:
\* alone, a deploy touches its own key, and an undeploy the entries of the
\* sandbox it deleted in its workspace; no crash or failed write shows in the
\* file (Record, ForgetSandbox, save).
OwnEntriesOnly ==
  [][\A k \in Key : file'[k] # file[k] =>
       \E p \in Proc :
         /\ at[p] = "rename" /\ at'[p] # "rename"
         /\ \/ loaded[p] # file
            \/ ~ Undeploys(p) /\ k = KeyOf(p) /\ file'[k].id = id[p]
            \/ /\ Undeploys(p) /\ file'[k] = None /\ file[k].id = id[p]
               /\ k[1] = aim[p] \/ file[k].profile = None]_vars
=============================================================================
