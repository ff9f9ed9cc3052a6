--------------------------- MODULE ProviderProofs ---------------------------
(***************************************************************************)
(* Proofs about the provider's invocations, for any number of them, of     *)
(* agents and of profiles.                                                 *)
(***************************************************************************)
EXTENDS Provider, TLAPS

-----------------------------------------------------------------------------
(* Types and phases. *)

\* An entry is filed under the profile it names.
Files ==
  {f \in [Key -> Entry \cup {None}] :
     \A k \in Key : f[k] # None => f[k].profile \in {None, k[1]}}

Saving == {"load", "write", "rename"}
Working == Saving \cup {"lookup", "create", "provision", "resolve", "delete"}

TypeOK ==
  /\ at \in [Proc -> Working \cup Over \cup {"discover"}]
  /\ req \in [Proc -> Request \cup {[op |-> "none"]}]
  /\ view \in [Proc -> (SUBSET Profile) \cup {None, Failed}]
  /\ aim \in [Proc -> Profile \cup {None}]
  /\ id \in [Proc -> Id \cup {None}]
  /\ file \in Files
  /\ loaded \in [Proc -> Files \cup {None}]

\* What an invocation has by the time it needs it.
Phase(p) ==
  /\ at[p] \in Working => aim[p] \in Profile
  /\ at[p] \in Working => req[p].op \in {"deploy", "operate", "undeploy"}
  /\ at[p] \in {"lookup", "create", "provision"} => req[p].op # "undeploy"
  /\ at[p] \in Saving \cup {"delete"} => id[p] \in Id
  /\ at[p] \in {"write", "rename"} => loaded[p] \in Files

\* How an answer about profiles comes about.
Aimed(p) ==
  /\ at[p] = "idle" => req[p].op = "none"
  /\ at[p] \in {"idle", "discover"} => view[p] = None
  /\ at[p] = "discover" => req[p].op \in {"info", "deploy"}
  /\ req[p].op = "info" => at[p] \in {"discover", "answered", "crashed"}
  /\ req[p].op = "info" /\ at[p] = "answered" =>
       aim[p] = deterministicProfileDefault(view[p])
  /\ req[p].op = "deploy" /\ view[p] # None =>
       /\ aim[p] = selectProfile(view[p])
       /\ aim[p] = None => at[p] \in {"refused", "crashed"}

Inv == TypeOK /\ \A p \in Proc : Phase(p) /\ Aimed(p)

-----------------------------------------------------------------------------
(* The rules for profiles. *)

\* Discovery finds names of profiles.
LEMMA DiscoveredType ==
  ASSUME NEW l \in Listing
  PROVE  Discovered(l) \in (SUBSET Profile) \cup {Failed}
<1>1. CASE Discovered(l) = Failed
  BY <1>1
<1>2. CASE Discovered(l) # Failed
  <2>1. /\ ~ \E e \in l : e.name = "" \/ e.host = ""
        /\ Discovered(l) = {e.name : e \in {x \in l : x.host # "account"}}
    BY <1>2 DEF Discovered
  <2>2. \A e \in l : e.name \in Profile
    BY <2>1, ProviderAssumption
  <2> QED BY <2>1, <2>2
<1> QED BY <1>1, <1>2

\* Both rules pick among the names, or the baked default.
LEMMA RulesType ==
  ASSUME NEW names \in (SUBSET Profile) \cup {Failed}
  PROVE  /\ deterministicProfileDefault(names) \in Profile \cup {None}
         /\ selectProfile(names) \in Profile \cup {None}
<1>1. CASE names \in {Failed, {}}
  BY <1>1, ProviderAssumption DEF deterministicProfileDefault, selectProfile
<1>2. CASE names \notin {Failed, {}}
  <2>1. names \subseteq Profile /\ names # {}
    BY <1>2
  <2>2. (CHOOSE n \in names : TRUE) \in Profile
    BY <2>1
  <2> QED
    BY <1>2, <2>2, ProviderAssumption DEF deterministicProfileDefault, selectProfile
<1> QED BY <1>1, <1>2

\* What the info response advertises is what a deploy selects; where it has
\* nothing to advertise although there are profiles, a deploy selects none.
LEMMA RulesAgree ==
  ASSUME NEW names
  PROVE  /\ deterministicProfileDefault(names) # None =>
              selectProfile(names) = deterministicProfileDefault(names)
         /\ deterministicProfileDefault(names) = None /\ names \notin {Failed, {}} =>
              selectProfile(names) = None
BY DEF deterministicProfileDefault, selectProfile

-----------------------------------------------------------------------------
(* The invariant. *)

\* An update leaves every entry under the profile it names.
LEMMA UpdateType ==
  ASSUME Inv, NEW p \in Proc, at[p] \in {"write", "rename"}
  PROVE  Update(p) \in Files
<1>1. loaded[p] \in Files /\ aim[p] \in Profile /\ id[p] \in Id
  BY DEF Inv, Phase, Saving, Working
<1>2. CASE Undeploys(p)
  BY <1>1, <1>2 DEF Update, Forgotten, Files
<1>3. CASE ~ Undeploys(p)
  <2>1. KeyOf(p) \in Key
    <3>1. req[p].op \in {"deploy", "operate"} /\ req[p] \in Request
      BY <1>3 DEF Inv, TypeOK, Phase, Undeploys, Working, Saving
    <3> QED BY <1>1, <3>1, ProviderAssumption DEF KeyOf, Key
  <2>2. [id |-> id[p], profile |-> aim[p]] \in Entry
    BY <1>1 DEF Entry
  <2>3. KeyOf(p)[1] = aim[p]
    BY DEF KeyOf
  <2> QED BY <1>1, <1>3, <2>1, <2>2, <2>3 DEF Update, Recorded, Files
<1> QED BY <1>2, <1>3

LEMMA InitInv == Init => Inv
<1> SUFFICES ASSUME Init PROVE Inv
  OBVIOUS
<1>1. file \in Files
  <2>1. PICK k \in Key, i \in Id :
          \/ file = [j \in Key |-> None]
          \/ file = [j \in Key |-> IF j = k THEN [id |-> i, profile |-> None] ELSE None]
    BY DEF Init
  <2>2. [id |-> i, profile |-> None] \in Entry
    BY DEF Entry
  <2> QED BY <2>1, <2>2 DEF Files
<1>2. TypeOK
  BY <1>1 DEF Init, TypeOK, Over
<1>3. \A p \in Proc : Phase(p) /\ Aimed(p)
  BY DEF Init, Phase, Aimed, Working, Saving
<1> QED BY <1>2, <1>3 DEF Inv

\* A step of one invocation leaves the others' records alone.
LEMMA OthersKeep ==
  ASSUME Inv, NEW p \in Proc, NEW q \in Proc, q # p,
         UNCHANGED <<at[q], req[q], view[q], aim[q], id[q], loaded[q]>>
  PROVE  Phase(q)' /\ Aimed(q)'
BY DEF Inv, Phase, Aimed

LEMMA AskKeeps ==
  ASSUME Inv, NEW p \in Proc, NEW r \in Request, Ask(p, r)
  PROVE  Inv'
<1> USE DEF Inv, TypeOK
<1>1. /\ at[p] = "idle" /\ view[p] = None
      /\ req' = [req EXCEPT ![p] = r]
      /\ UNCHANGED <<view, id, file, loaded>>
  BY DEF Ask, Aimed
<1>2. r.op \in {"deploy", "operate"} => r.profile \in Profile \cup {None}
  BY ProviderAssumption
<1>3. r.op \in {"operate", "undeploy"} => r.flag \in Profile
  BY ProviderAssumption
<1>4. PICK to \in {"refused", "discover", "lookup", "resolve"},
           a \in Profile \cup {None} :
        /\ at' = [at EXCEPT ![p] = to]
        /\ aim' = [aim EXCEPT ![p] = a]
        /\ to \in {"lookup", "resolve"} => a \in Profile
        /\ to = "lookup" => r.op \in {"deploy", "operate"}
        /\ to = "resolve" => r.op = "undeploy"
        /\ to = "discover" => r.op \in {"info", "deploy"}
        /\ r.op = "info" => to = "discover"
  <2>1. aim = [aim EXCEPT ![p] = aim[p]]
    OBVIOUS
  <2> QED BY <1>2, <1>3, <2>1 DEF Ask, Goes
<1>5. TypeOK'
  BY <1>1, <1>4 DEF Working, Over
<1>6. Phase(p)' /\ Aimed(p)'
  BY <1>1, <1>4 DEF Phase, Aimed, Working, Saving
<1>7. ASSUME NEW q \in Proc, q # p PROVE Phase(q)' /\ Aimed(q)'
  BY <1>1, <1>4, <1>7, OthersKeep
<1> QED BY <1>5, <1>6, <1>7

LEMMA DiscoverKeeps == ASSUME Inv, NEW p \in Proc, Discover(p) PROVE Inv'
<1> USE DEF Inv, TypeOK
<1>1. at[p] = "discover" /\ req[p].op \in {"info", "deploy"} /\ UNCHANGED <<req, id, file, loaded>>
  BY DEF Discover, Aimed
<1>2. PICK names \in {Discovered(l) : l \in Listing} \cup {Failed} :
        /\ view' = [view EXCEPT ![p] = names]
        /\ IF req[p].op = "info"
           THEN /\ at' = [at EXCEPT ![p] = "answered"]
                /\ aim' = [aim EXCEPT ![p] = deterministicProfileDefault(names)]
           ELSE /\ at' = [at EXCEPT ![p] =
                            IF selectProfile(names) = None THEN "refused" ELSE "lookup"]
                /\ aim' = [aim EXCEPT ![p] = selectProfile(names)]
  BY DEF Discover, Goes
<1>3. names \in (SUBSET Profile) \cup {Failed}
  BY <1>2, DiscoveredType
<1>4. /\ deterministicProfileDefault(names) \in Profile \cup {None}
      /\ selectProfile(names) \in Profile \cup {None}
  BY <1>3, RulesType
<1>5. PICK to \in {"answered", "refused", "lookup"}, a \in Profile \cup {None} :
        /\ at' = [at EXCEPT ![p] = to]
        /\ aim' = [aim EXCEPT ![p] = a]
        /\ to = "lookup" => a \in Profile /\ req[p].op = "deploy"
        /\ req[p].op = "info" => to = "answered" /\ a = deterministicProfileDefault(names)
        /\ req[p].op = "deploy" => /\ a = selectProfile(names)
                                   /\ a = None => to = "refused"
  BY <1>1, <1>2, <1>4
<1>6. TypeOK'
  BY <1>1, <1>2, <1>3, <1>5 DEF Working, Over
<1>7. Phase(p)' /\ Aimed(p)'
  BY <1>1, <1>2, <1>5 DEF Phase, Aimed, Working, Saving
<1>8. ASSUME NEW q \in Proc, q # p PROVE Phase(q)' /\ Aimed(q)'
  BY <1>1, <1>2, <1>5, <1>8, OthersKeep
<1> QED BY <1>6, <1>7, <1>8

\* The other steps move one invocation on, and change neither its request nor
\* the profile it has chosen.
LEMMA MoveKeeps ==
  ASSUME Inv, NEW p \in Proc, NEW to \in Working \cup Over,
         at[p] \in Working \/ (at[p] = "discover" /\ to = "crashed"), to # "idle",
         at' = [at EXCEPT ![p] = to], UNCHANGED <<req, view, aim>>,
         NEW i \in Id \cup {None}, id' = [id EXCEPT ![p] = i],
         NEW l \in Files \cup {None}, loaded' = [loaded EXCEPT ![p] = l],
         file' \in Files,
         to \in {"lookup", "create", "provision"} => req[p].op # "undeploy",
         to \in Saving \cup {"delete"} => i \in Id,
         to \in {"write", "rename"} => l \in Files
  PROVE  Inv'
<1> USE DEF Inv, TypeOK
<1>1. TypeOK'
  OBVIOUS
<1>2. Phase(p)'
  BY DEF Phase, Working, Saving
<1>3. Aimed(p)'
  BY ProviderAssumption DEF Aimed, Phase, Working, Saving, Over
<1>4. ASSUME NEW q \in Proc, q # p PROVE Phase(q)' /\ Aimed(q)'
  BY <1>4, OthersKeep
<1> QED BY <1>1, <1>2, <1>3, <1>4

LEMMA NextInv == ASSUME Inv, [Next]_vars PROVE Inv'
<1> USE DEF Inv, TypeOK
<1> SUFFICES ASSUME Next PROVE Inv'
  <2> SUFFICES ASSUME UNCHANGED vars PROVE Inv'
    OBVIOUS
  <2>1. ASSUME NEW p \in Proc PROVE Phase(p)' /\ Aimed(p)'
    BY DEF vars, chosen, Phase, Aimed
  <2> QED BY <2>1 DEF vars, chosen
<1>1. ASSUME NEW p \in Proc, Lookup(p) \/ Create(p) \/ Resolve(p) \/ Delete(p)
             \/ Load(p) \/ Write(p) \/ Rename(p) \/ Provision(p) \/ Crash(p)
      PROVE  Inv'
  <2>0. id = [id EXCEPT ![p] = id[p]] /\ loaded = [loaded EXCEPT ![p] = loaded[p]]
    OBVIOUS
  <2> DEFINE Moves(to, i, l) ==
        /\ at[p] \in Working \/ (at[p] = "discover" /\ to = "crashed")
        /\ at' = [at EXCEPT ![p] = to] /\ to # "idle" /\ to \in Working \cup Over
        /\ UNCHANGED <<req, view, aim>>
        /\ id' = [id EXCEPT ![p] = i]
        /\ loaded' = [loaded EXCEPT ![p] = l]
        /\ i \in Id \cup {None} /\ l \in Files \cup {None} /\ file' \in Files
        /\ to \in {"lookup", "create", "provision"} => req[p].op # "undeploy"
        /\ to \in Saving \cup {"delete"} => i \in Id
        /\ to \in {"write", "rename"} => l \in Files
  <2>1. ASSUME NEW to, NEW i, NEW l, Moves(to, i, l) PROVE Inv'
    BY <2>1, MoveKeeps
  <2> HIDE DEF Moves
  <2>2. CASE Lookup(p)
    <3>1. CASE at' = [at EXCEPT ![p] = "refused"] /\ UNCHANGED id
      <4>1. Moves("refused", id[p], loaded[p])
        BY <2>0, <2>2, <3>1 DEF Lookup, chosen, Moves, Working, Saving, Over
      <4> QED BY <4>1, <2>1
    <3>2. CASE at' = [at EXCEPT ![p] = "create"] /\ UNCHANGED id
      <4>1. Moves("create", id[p], loaded[p])
        BY <2>0, <2>2, <3>2 DEF Lookup, chosen, Moves, Working, Saving, Over, Phase
      <4> QED BY <4>1, <2>1
    <3>3. CASE /\ file[KeyOf(p)] # None
               /\ id' = [id EXCEPT ![p] = file[KeyOf(p)].id]
               /\ at' = [at EXCEPT ![p] = "load"]
      <4>1. KeyOf(p) \in Key
        <5>1. req[p].op \in {"deploy", "operate"} /\ req[p] \in Request /\ aim[p] \in Profile
          BY <2>2 DEF Lookup, Phase, Working
        <5> QED BY <5>1, ProviderAssumption DEF KeyOf, Key
      <4>2. file[KeyOf(p)].id \in Id
        BY <3>3, <4>1 DEF Files, Entry
      <4>3. Moves("load", file[KeyOf(p)].id, loaded[p])
        BY <2>0, <2>2, <3>3, <4>2 DEF Lookup, chosen, Moves, Working, Saving, Over
      <4> QED BY <4>3, <2>1
    <3> QED BY <2>2, <3>1, <3>2, <3>3 DEF Lookup, Goes
  <2>3. CASE Create(p)
    <3>1. PICK to \in {"refused", "load"}, i \in Id \cup {None} :
            /\ at' = [at EXCEPT ![p] = to] /\ id' = [id EXCEPT ![p] = i]
            /\ to = "load" => i \in Id
      BY <2>0, <2>3 DEF Create, Goes
    <3>2. Moves(to, i, loaded[p])
      BY <2>0, <2>3, <3>1 DEF Create, chosen, Moves, Working, Saving, Over
    <3> QED BY <3>2, <2>1
  <2>4. CASE Resolve(p)
    <3>1. PICK to \in {"refused", "delete"}, i \in Id \cup {None} :
            /\ at' = [at EXCEPT ![p] = to] /\ id' = [id EXCEPT ![p] = i]
            /\ to = "delete" => i \in Id
      BY <2>0, <2>4 DEF Resolve, Goes
    <3>2. Moves(to, i, loaded[p])
      BY <2>0, <2>4, <3>1 DEF Resolve, chosen, Moves, Working, Saving, Over
    <3> QED BY <3>2, <2>1
  <2>5. CASE Delete(p)
    <3>1. PICK to \in {"refused", "load"} : at' = [at EXCEPT ![p] = to]
      BY <2>5 DEF Delete, Goes
    <3>2. id[p] \in Id
      BY <2>5 DEF Delete, Phase
    <3>3. Moves(to, id[p], loaded[p])
      BY <2>0, <2>5, <3>1, <3>2 DEF Delete, chosen, Moves, Working, Saving, Over
    <3> QED BY <3>3, <2>1
  <2>6. CASE Load(p)
    <3>1. PICK to \in {"answered", "refused", "write"}, l \in Files \cup {None} :
            /\ at' = [at EXCEPT ![p] = to] /\ loaded' = [loaded EXCEPT ![p] = l]
            /\ to = "write" => l \in Files
      <4>1. CASE Unsaved(p) /\ UNCHANGED loaded
        BY <2>0, <4>1 DEF Unsaved, Goes
      <4>2. CASE loaded' = [loaded EXCEPT ![p] = file]
        BY <2>6, <4>2 DEF Load, Goes, Unsaved
      <4> QED BY <2>6, <4>1, <4>2 DEF Load
    <3>2. id[p] \in Id
      BY <2>6 DEF Load, Phase, Saving
    <3>3. Moves(to, id[p], l)
      BY <2>0, <2>6, <3>1, <3>2 DEF Load, chosen, Moves, Working, Saving, Over
    <3> QED BY <3>3, <2>1
  <2>7. CASE Write(p)
    <3>1. id[p] \in Id /\ loaded[p] \in Files
      BY <2>7 DEF Write, Phase, Saving
    <3>2. Moves("rename", id[p], loaded[p])
      BY <2>0, <2>7, <3>1 DEF Write, Goes, chosen, Moves, Working, Saving, Over
    <3> QED BY <3>2, <2>1
  <2>8. CASE Rename(p)
    <3>1. PICK to \in {"answered", "refused", "provision"} :
            /\ at' = [at EXCEPT ![p] = to]
            /\ to = "provision" => ~ Undeploys(p)
      BY <2>8 DEF Rename, Unsaved, Goes
    <3>2. file' \in Files
      BY <2>8, UpdateType DEF Rename
    <3>3. Moves(to, id[p], loaded[p])
      BY <2>0, <2>8, <3>1, <3>2
      DEF Rename, chosen, Moves, Working, Saving, Over, Undeploys
    <3> QED BY <3>3, <2>1
  <2>9. CASE Provision(p)
    <3>1. PICK to \in {"answered", "refused"} : at' = [at EXCEPT ![p] = to]
      BY <2>9 DEF Provision, Goes
    <3>2. Moves(to, id[p], loaded[p])
      BY <2>0, <2>9, <3>1 DEF Provision, chosen, Moves, Working, Saving, Over
    <3> QED BY <3>2, <2>1
  <2>10. CASE Crash(p)
    <3>1. Moves("crashed", id[p], loaded[p])
      BY <2>0, <2>10 DEF Crash, Goes, chosen, Moves, Working, Saving, Over
    <3> QED BY <3>1, <2>1
  <2> QED BY <1>1, <2>2, <2>3, <2>4, <2>5, <2>6, <2>7, <2>8, <2>9, <2>10
<1>2. ASSUME NEW p \in Proc, NEW r \in Request, Ask(p, r) PROVE Inv'
  BY <1>2, AskKeeps
<1>3. ASSUME NEW p \in Proc, Discover(p) PROVE Inv'
  BY <1>3, DiscoverKeeps
<1> QED BY <1>1, <1>2, <1>3 DEF Next

THEOREM ProviderInv == Spec => []Inv
<1>1. Inv /\ [Next]_vars => Inv'
  BY NextInv
<1> QED BY InitInv, <1>1, PTL DEF Spec

\* Every reachable state of the provider's invocations is well typed, and what
\* agents.json has for a key is filed under the profile it names.
THEOREM ProviderTypes == Spec => []TypeOK
<1>1. Inv => TypeOK
  BY DEF Inv
<1> QED BY ProviderInv, <1>1, PTL

-----------------------------------------------------------------------------
\* The default that info advertises is the profile that a deploy selects.
THEOREM AdvertisedDefault == Spec => []AdvertisedIsUsed
<1>1. Inv => AdvertisedIsUsed
  <2> SUFFICES ASSUME Inv, NEW i \in Proc, NEW d \in Proc,
                      at[i] = "answered", req[i].op = "info", req[d].op = "deploy",
                      view[d] # None, view[d] = view[i]
               PROVE  /\ aim[i] # None => aim[d] = aim[i]
                      /\ aim[i] = None /\ view[i] \notin {Failed, {}} =>
                           aim[d] = None /\ at[d] \in {"refused", "crashed"}
    BY DEF AdvertisedIsUsed
  <2>1. aim[i] = deterministicProfileDefault(view[i])
    BY DEF Inv, Aimed
  <2>2. /\ aim[d] = selectProfile(view[i])
        /\ aim[d] = None => at[d] \in {"refused", "crashed"}
    BY DEF Inv, Aimed
  <2> QED BY <2>1, <2>2, RulesAgree
<1> QED BY ProviderInv, <1>1, PTL

\* An update of agents.json changes only the entries it is about, unless it lost
\* the race with another process.
THEOREM EntriesAreOwn == Spec => OwnEntriesOnly
<1> DEFINE Own ==
      \A k \in Key : file'[k] # file[k] =>
        \E p \in Proc :
          /\ at[p] = "rename" /\ at'[p] # "rename"
          /\ \/ loaded[p] # file
             \/ ~ Undeploys(p) /\ k = KeyOf(p) /\ file'[k].id = id[p]
             \/ /\ Undeploys(p) /\ file'[k] = None /\ file[k].id = id[p]
                /\ k[1] = aim[p] \/ file[k].profile = None
<1>1. Inv /\ [Next]_vars => [Own]_vars
  <2> SUFFICES ASSUME Inv, Next PROVE Own
    OBVIOUS
  <2> SUFFICES ASSUME NEW k \in Key, file'[k] # file[k]
               PROVE  \E p \in Proc :
                        /\ at[p] = "rename" /\ at'[p] # "rename"
                        /\ \/ loaded[p] # file
                           \/ ~ Undeploys(p) /\ k = KeyOf(p) /\ file'[k].id = id[p]
                           \/ /\ Undeploys(p) /\ file'[k] = None /\ file[k].id = id[p]
                              /\ k[1] = aim[p] \/ file[k].profile = None
    OBVIOUS
  <2>1. PICK p \in Proc : Rename(p)
    <3>1. ASSUME NEW q \in Proc, NEW r \in Request, Ask(q, r) PROVE file' = file
      BY <3>1 DEF Ask
    <3> QED
      BY <3>1 DEF Next, Discover, Lookup, Create, Resolve, Delete, Load, Write,
         Provision, Crash
  <2>2. at[p] = "rename" /\ at'[p] # "rename"
    BY <2>1 DEF Rename, Unsaved, Goes, Inv, TypeOK
  <2>3. file' = Update(p)
    BY <2>1 DEF Rename
  <2>4. file \in [Key -> Entry \cup {None}]
    BY DEF Inv, TypeOK, Files
  <2>5. CASE loaded[p] # file
    BY <2>2, <2>5
  <2>6. CASE loaded[p] = file /\ Undeploys(p)
    <3>1. /\ file'[k] = None /\ file[k] # None /\ file[k].id = id[p]
          /\ file[k].profile \in {None, aim[p]}
      BY <2>3, <2>6 DEF Update, Forgotten
    <3>2. file[k].profile \in {None, k[1]}
      BY <3>1 DEF Inv, TypeOK, Files
    <3> QED BY <2>2, <2>6, <3>1, <3>2
  <2>7. CASE loaded[p] = file /\ ~ Undeploys(p)
    <3>1. file' = [file EXCEPT ![KeyOf(p)] = [id |-> id[p], profile |-> aim[p]]]
      BY <2>3, <2>7 DEF Update, Recorded
    <3>2. k = KeyOf(p)
      BY <3>1, <2>4
    <3>3. file'[k].id = id[p]
      BY <3>1, <3>2, <2>4
    <3> QED BY <2>2, <2>7, <3>2, <3>3
  <2> QED BY <2>5, <2>6, <2>7
<1> QED BY ProviderInv, <1>1, PTL DEF Spec, OwnEntriesOnly
=============================================================================
