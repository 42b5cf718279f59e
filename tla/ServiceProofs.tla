---------------------------- MODULE ServiceProofs ----------------------------
(***************************************************************************)
(* Proofs about Service, the whole broker, for any number of instances,    *)
(* calls and bindings.                                                     *)
(***************************************************************************)
EXTENDS Service, BrokerProofs

-----------------------------------------------------------------------------
(* The invariants. *)

\* Found is found: from the lookup on, what an Update holds is an application
\* of its instance.
UpdatesOwnInstance ==
  \A u \in Updates :
    /\ upd[u].guid # NoGuid => HasLookedUp(u) /\ NameOf[upd[u].guid] = UpdateTarget[u]
    /\ upd[u].pc \in Updating \cup {"ok"} =>
         UpdAt(u, "lookup") \/ upd[u].guid # NoGuid

\* While alone[c] stands, no rival is at work.
NoRivals ==
  \A c \in Updates \cup Deprovisions : alone[c] /\ HasLookedUp(c) =>
    \A r \in Rivals(c) : Target(r) = Target(c) => ~AtWork(r)

ServiceInv ==
  /\ IInv
  /\ ServiceTypeOK
  /\ UpdatesOwnInstance
  /\ NoRivals

\* The calls of Update, from the last backwards.
AfterRestart  == {"routes", "push", "ok"}
AfterPeers    == {"restart"} \cup AfterRestart
AfterCounting == {"pollScale", "peers", "registryParams", "registryEnv"} \cup AfterPeers
AfterStoring  == {"updateApp", "processes", "scale"} \cup AfterCounting

\* What an Update that is alone has brought about so far.
Progress ==
  \A u \in Updates :
    LET g == upd[u].guid
    IN  alone[u] /\ HasLookedUp(u) /\ Live(g) =>
          /\ upd[u].pc \in AfterStoring =>
               \A e \in EnvGroups \ {"peers"} : app[g].env[e] = u
          /\ upd[u].pc \in AfterPeers /\ ForRegistry(u) => app[g].env["peers"] = u
          /\ upd[u].pc \in AfterCounting /\ ForRegistry(u) =>
               app[g].instances = upd[u].count
          /\ upd[u].pc \in AfterRestart =>
               IsStarted(g) /\ \A e \in GroupsOf(u) : app[g].running[e] = u

\* The calls that only the Update of a registry makes.
RegistryOnly ==
  \A u \in Updates :
    upd[u].pc \in { "processes", "scale", "pollScale", "peers", "registryParams",
                    "registryEnv", "routes", "push" } => ForRegistry(u)

\* The application can be reached and runs.
Complete(g) ==
  /\ IsStarted(g) /\ app[g].droplet
  /\ Exists(g) /\ route[g].dest = g

\* What the order of a goroutine's calls says of call p.
Unfailed(p) ==
  /\ Exists(p) => Live(p)
  /\ Exists(p) /\ Running(p) => prov[p].pc \in RoutedCalls \cup {"mapRoute"}
  /\ Live(p) => Running(p) \/ Complete(p) \/ At(p, "failed")
  /\ Running(p) /\ ~At(p, "begin") => prov[p].guid = p /\ Live(p)
  /\ prov[p].pc \in RoutedCalls \cup {"domains", "createRoute", "mapRoute"} =>
       app[p].droplet
  /\ prov[p].pc \in RoutedCalls \cup {"mapRoute"} => prov[p].url = p /\ Exists(p)
  /\ prov[p].pc \in RoutedCalls => route[p].dest = p
  /\ prov[p].pc \in RoutedCalls \ {"start", "restart"} => IsStarted(p)
  /\ prov[p].pc \notin {"startRetry", "startAgainRetry", "recoverRetry"}

\* Without faults and unless the instance is deprovisioned, a goroutine that
\* has created its application does not fail but with the process, and leaves
\* it complete.
Unfailing == \A p \in Provisions : Deprovisioned(NameOf[p]) \/ Unfailed(p)

\* Only registries are scaled, and only to what was asked for.
ScalesRegistries ==
  \A p \in Provisions :
    /\ Clustered(p) => IsRegistry(NameOf[p]) /\ prov[p].pc \notin {"idle", "begin"}
    /\ prov[p].pc \in {"scale", "pollScale"} => Clustered(p)
    /\ At(p, "restart") => ~IsRegistry(NameOf[p])

\* Without parameters an Update gets nowhere.
ParameterlessFail ==
  \A u \in Parameterless : upd[u].pc \in {"idle", "lookup", "failed"}

\* The calls of a goroutine that has read the ports of its instances, and of one
\* that has waited for them.
PeersRead  == {"push", "monitor", "recover", "done"}
HasCounted == {"peers", "registryParams", "registryEnv", "startAgain", "peersAgain"}
                \cup PeersRead

\* No Update but those in us may have scaled or restarted application p.
LeftTo(p, us) == \A u \in Updates \ us : ~HasTouched(u, p)

\* The instances of application p have ports once its goroutine has waited for
\* them, as long as no Update touches them; and once an Update has waited for
\* them, as long as no other one does and the goroutine does not scale any more.
PortsOf(p) ==
  /\ LeftTo(p, {}) =>
       /\ ~Clustered(p) => app[p].instances = 1
       /\ Clustered(p) /\ At(p, "pollScale") => app[p].instances = prov[p].count
       /\ Clustered(p) /\ prov[p].pc \in HasCounted => HavePorts(p)
  /\ \A u \in Updates :
       /\ upd[u].guid = p /\ LeftTo(p, {u})
       /\ Clustered(p) => prov[p].pc \in PeersRead
       => /\ UpdAt(u, "pollScale") => HavePorts(p) \/ app[p].instances = upd[u].count
          /\ UpdAt(u, "peers") => HavePorts(p)

PortsKept == \A p \in Provisions : Deprovisioned(NameOf[p]) \/ PortsOf(p)

\* Routes are taken away only with their application.
RoutesGoWithInstance ==
  /\ \A d \in Deprovisions : dep[d].routes \subseteq {dep[d].guid}
  /\ \A r \in Guids : route[r].state = "deleted" \/ route[r].doomed =>
       Deprovisioned(NameOf[r])

\* What a Bind reads the routes of stands, unless it was asked to go.
BindsReadLive ==
  \A k \in Binds :
    BindAt(k, "readRoutes") => Live(bind[k].guid) \/ Deprovisioned(BindTarget[k])

\* What holds of the whole broker besides when there are no faults.
Faultless ==
  /\ NotBuiltYet
  /\ Unfailing
  /\ ScalesRegistries
  /\ ParameterlessFail
  /\ PortsKept
  /\ RoutesGoWithInstance
  /\ ClientsIssued
  /\ BindsReadLive

-----------------------------------------------------------------------------
(* The proofs. *)

(***************************************************************************)
(* What an Update does to the rest of the broker.                          *)
(***************************************************************************)

\* Every step is one of Broker, or one of an Update handler.
LEMMA ServiceSteps ==
  ASSUME [ServiceNext]_serviceVars
  PROVE  [BrokerNext]_brokerVars \/ \E u \in Updates : UpdateHandler(u)
BY DEF ServiceNext, LifeStep, LifecycleStep, BindingStep, UpdateCall, Update, ServiceCrash,
  BrokerNext, serviceVars, brokerVars, vars, history

\* A step of an Update handler changes an application only if it holds it, and
\* the state of one only to start it.
LEMMA UpdateEffect ==
  ASSUME PlatformTypeOK, UpdTypeOK, NEW u \in Updates, UpdateStep(u)
  PROVE  /\ route' = route
         /\ app' \in [Guids -> AppRecord]
         /\ \A g \in Guids \ {upd[u].guid} : app'[g] = app[g]
         /\ \A g \in Guids :
              /\ app'[g].doomed = app[g].doomed
              /\ app'[g].droplet = app[g].droplet
              /\ \/ app'[g].state = app[g].state
                 \/ /\ g = upd[u].guid /\ UpdAt(u, "restart")
                    /\ Live(g) /\ app'[g].state = "started"
<1> DEFINE h == upd[u].guid
           Fine(new) == /\ new \in [Guids -> AppRecord]
                        /\ \A g \in Guids \ {h} : new[g] = app[g]
                        /\ \A g \in Guids :
                             /\ new[g].doomed = app[g].doomed
                             /\ new[g].droplet = app[g].droplet
<1> USE DEF PlatformTypeOK
<1>0. /\ h \in Guids \cup {NoGuid} /\ upd[u].count \in Counts
      /\ u \in Requests /\ NoGuid \notin Guids
  BY UpdateAssumption, PlatformAssumption DEF UpdTypeOK, UpdRecord
<1>1. CASE FindApplication(u) \/ CountProcesses(u) \/ PollUpdateScale(u)
             \/ ReadUpdatePeers(u) \/ ReadFirstRoute(u) \/ PushUpdate(u)
  BY <1>1 DEF FindApplication, CountProcesses, PollUpdateScale, ReadUpdatePeers,
    ReadFirstRoute, PushUpdate
<1>2. CASE PlainCall(u)
  <2>1. route' = route
    BY <1>2 DEF PlainCall
  <2>2. CASE app' = app
    BY <2>1, <2>2
  <2>3. CASE app' = ScaledApp(h, upd[u].count)
    <3>1. app' \in [Guids -> AppRecord]
      BY <1>0, <2>3, AppEffects
    <3>2. \A g \in Guids : g # h => app'[g] = app[g]
      BY <2>3 DEF ScaledApp
    <3>3. h \in Guids => /\ app'[h].doomed = app[h].doomed
                        /\ app'[h].droplet = app[h].droplet
                        /\ app'[h].state = app[h].state
      BY <2>3 DEF ScaledApp, AppRecord
    <3>4. QED
      BY <2>1, <3>1, <3>2, <3>3
  <2>4. CASE app' = PatchedEnv(h, Stores(u), u)
    <3>1. Stores(u) \in SUBSET EnvGroups
      BY DEF Stores, EnvGroups
    <3>2. app' \in [Guids -> AppRecord]
      BY <1>0, <2>4, <3>1, AppEffects
    <3>3. Fine(app')
      BY <1>0, <2>4, <3>2 DEF PatchedEnv, AppRecord
    <3>4. \A g \in Guids : app'[g].state = app[g].state
      BY <1>0, <2>4 DEF PatchedEnv, AppRecord
    <3>5. QED
      BY <2>1, <3>3, <3>4
  <2>5. CASE UpdAt(u, "restart") /\ Startable(h) /\ app' = RestartedApp(h)
    <3>1. app' \in [Guids -> AppRecord]
      BY <1>0, <2>5, AppEffects
    <3>2. \A g \in Guids : g # h => app'[g] = app[g]
      BY <2>5 DEF RestartedApp
    <3>3. h \in Guids /\ app'[h].doomed = app[h].doomed /\ app'[h].droplet = app[h].droplet
      BY <2>5 DEF RestartedApp, Startable, Live, AppRecord
    <3>4. Fine(app')
      BY <3>1, <3>2, <3>3
    <3>5. Live(h) /\ app'[h].state = "started"
      BY <1>0, <2>5 DEF RestartedApp, Startable, Live, AppRecord
    <3>6. QED
      BY <2>1, <2>5, <3>2, <3>4, <3>5
  <2>6. QED
    BY <1>2, <2>2, <2>3, <2>4, <2>5 DEF PlainCall, PlainEffect, Replies, TakesEffect, UpdAt
<1>3. QED
  BY <1>1, <1>2 DEF UpdateStep

\* Updates, which restart applications whatever else goes on, keep what
\* Lifecycle needs.
LEMMA UpdateKeepsIInv ==
  ASSUME IInv, UpdTypeOK, NEW u \in Updates, UpdateHandler(u)
  PROVE  IInv'
<1> USE DEF IInv, TypeOK, PlatformTypeOK
<1>1. UNCHANGED <<route, prov, dep, during, later>>
  BY UpdateEffect DEF UpdateHandler, history
<1>2. /\ app' \in [Guids -> AppRecord]
      /\ \A g \in Guids : /\ app'[g].doomed = app[g].doomed
                          /\ \/ app'[g].state = app[g].state
                             \/ Live(g) /\ app'[g].state = "started"
  BY UpdateEffect DEF UpdateHandler
<1>3. \A g : (Live(g) <=> Live(g)') /\ (Condemned(g) <=> Condemned(g)')
  BY <1>2 DEF Live, Condemned
<1>4. \A g \in Guids : app'[g].state = "deleted" <=> app[g].state = "deleted"
  BY <1>2 DEF Live
<1>5. TypeOK'
  BY <1>1, <1>2 DEF ProvTypeOK, DepTypeOK
<1>6. UniqueName' /\ OwnObjects' /\ OwnRoutes' /\ OverlapCovers' /\ HandlesOwnInstance'
  BY <1>1, <1>3 DEF UniqueName, OwnObjects, OwnRoutes, OverlapCovers, HandlesOwnInstance,
    LookedUp, SameInstance, Running, Overlap
<1>7. HoldsTheResponsibility' /\ SurvivorsOverlap'
  BY <1>1, <1>3 DEF HoldsTheResponsibility, SurvivorsOverlap, SameInstance, Overlap
<1>8. RoutesRead' /\ DoomedByHandler'
  BY <1>1, <1>2, <1>4 DEF RoutesRead, DoomedByHandler, LooseRoute, Exists, Overlap
<1>9. QED
  BY <1>5, <1>6, <1>7, <1>8

\* What the lookup of an Update comes to.
LEMMA FoundOrFailed ==
  ASSUME NEW u \in Updates, FindApplication(u)
  PROVE  /\ UNCHANGED <<app, route>>
         /\ \/ UpdGoto(u, "failed")
            \/ \E g \in Guids, n \in Counts, step \in {"failed", "environment"} :
                 /\ Live(g) /\ NameOf[g] = UpdateTarget[u]
                 /\ upd' = [upd EXCEPT ![u] =
                              [@ EXCEPT !.guid = g, !.count = n, !.pc = step]]
                 /\ step = "failed" => u \in Parameterless
<1>1. UNCHANGED <<app, route>>
  BY DEF FindApplication
<1>2. CASE UpdGoto(u, "failed")
  BY <1>1, <1>2
<1>3. CASE ~UpdGoto(u, "failed")
  <2>1. PICK g \in Guids, n \in IF ForRegistry(u) THEN Counts ELSE {1} :
          /\ Live(g) /\ NameOf[g] = UpdateTarget[u]
          /\ upd' = [upd EXCEPT ![u].guid = g, ![u].count = n,
                       ![u].pc = IF u \in Parameterless THEN "failed" ELSE "environment"]
    BY <1>3 DEF FindApplication
  <2>2. n \in Counts
    BY PlatformAssumption
  <2>3. QED
    BY <1>1, <2>1, <2>2
<1>4. QED
  BY <1>2, <1>3

\* The handler itself keeps to its type.
LEMMA UpdateMoves ==
  ASSUME UpdTypeOK, NEW u \in Updates, Update(u) \/ UpdateStep(u)
  PROVE  /\ UpdTypeOK'
         /\ \A v \in Updates \ {u} : upd'[v] = upd[v]
<1> USE DEF UpdTypeOK, UpdRecord, Updating, PlainCalls
<1>1. \A step \in {"ok", "failed"} \cup Updating : UpdGoto(u, step) =>
        UpdTypeOK' /\ \A v \in Updates \ {u} : upd'[v] = upd[v]
  BY DEF UpdGoto
<1>2. \A reply, step \in {"ok", "failed"} \cup Updating : UpdProceed(u, reply, step) =>
        UpdTypeOK' /\ \A v \in Updates \ {u} : upd'[v] = upd[v]
  BY <1>1 DEF UpdProceed
<1>3. CASE Update(u)
  BY <1>1, <1>3 DEF Update
<1>4. CASE FindApplication(u)
  <2>1. CASE UpdGoto(u, "failed")
    BY <1>1, <2>1
  <2>2. CASE ~UpdGoto(u, "failed")
    <3>1. PICK g \in Guids, n \in Counts, step \in {"failed", "environment"} :
            /\ Live(g) /\ NameOf[g] = UpdateTarget[u]
            /\ upd' = [upd EXCEPT ![u] =
                         [@ EXCEPT !.guid = g, !.count = n, !.pc = step]]
            /\ step = "failed" => u \in Parameterless
      BY <1>4, <2>2, FoundOrFailed
    <3>2. [upd[u] EXCEPT !.guid = g, !.count = n, !.pc = step] \in UpdRecord
      OBVIOUS
    <3>3. QED
      BY <3>1, <3>2
  <2>3. QED
    BY <2>1, <2>2
<1>5. CASE PlainCall(u)
  <2>1. AfterPlainCall(u) \in {"ok", "failed"} \cup Updating
    BY DEF AfterPlainCall
  <2>2. PICK reply : UpdProceed(u, reply, AfterPlainCall(u))
    BY <1>5 DEF PlainCall
  <2>3. QED
    BY <1>1, <2>1, <2>2 DEF UpdProceed
<1>6. CASE CountProcesses(u)
  BY <1>1, <1>6 DEF CountProcesses, UpdProceed, AfterScale
<1>7. CASE PollUpdateScale(u) \/ ReadUpdatePeers(u) \/ ReadFirstRoute(u) \/ PushUpdate(u)
  BY <1>1, <1>7 DEF PollUpdateScale, ReadUpdatePeers, ReadFirstRoute, PushUpdate,
    UpdProceed, AfterScale
<1>8. QED
  BY <1>3, <1>4, <1>5, <1>6, <1>7 DEF UpdateStep
\* It leaves its lookup behind, and what it found there stays.
LEMMA UpdateGoesOn ==
  ASSUME UpdTypeOK, NEW u \in Updates, UpdateStep(u)
  PROVE  /\ upd'[u].pc \notin BeforeLookup
         /\ ~UpdAt(u, "lookup") =>
              upd'[u].guid = upd[u].guid /\ upd'[u].count = upd[u].count
<1> DEFINE Steps == ({"ok", "failed"} \cup Updating) \ {"lookup"}
<1> USE DEF UpdTypeOK, UpdRecord
<1>1. \A step : UpdGoto(u, step) => /\ upd'[u].pc = step
                                    /\ upd'[u].guid = upd[u].guid
                                    /\ upd'[u].count = upd[u].count
  BY DEF UpdGoto
<1>2. Steps \cap BeforeLookup = {}
  BY DEF Updating, PlainCalls, BeforeLookup
<1>3. CASE FindApplication(u)
  <2>1. CASE UpdGoto(u, "failed")
    BY <1>1, <2>1 DEF BeforeLookup
  <2>2. CASE ~UpdGoto(u, "failed")
    <3>1. PICK g \in Guids, n \in Counts, step \in {"failed", "environment"} :
            /\ Live(g) /\ NameOf[g] = UpdateTarget[u]
            /\ upd' = [upd EXCEPT ![u] =
                         [@ EXCEPT !.guid = g, !.count = n, !.pc = step]]
            /\ step = "failed" => u \in Parameterless
      BY <1>3, <2>2, FoundOrFailed
    <3>2. QED
      BY <1>3, <3>1 DEF BeforeLookup, FindApplication
  <2>3. QED
    BY <2>1, <2>2
<1>4. CASE ~FindApplication(u)
  <2>1. PICK step \in Steps : UpdGoto(u, step)
    BY <1>4 DEF UpdateStep, PlainCall, AfterPlainCall, CountProcesses, PollUpdateScale,
      ReadUpdatePeers, ReadFirstRoute, PushUpdate, UpdProceed, AfterScale, Updating, PlainCalls
  <2>2. QED
    BY <1>1, <1>2, <2>1
<1>5. QED
  BY <1>3, <1>4

(***************************************************************************)
(* Who is at work.                                                         *)
(***************************************************************************)
\* What is said of calls in general, by the kind of call.
LEMMA Kinds ==
  /\ \A p \in Provisions : Target(p) = NameOf[p] /\ (AtWork(p) <=> Running(p))
  /\ \A d \in Deprovisions :
       /\ Target(d) = TargetOf[d]
       /\ AtWork(d) <=> dep[d].pc \in Handling
       /\ HasLookedUp(d) <=> dep[d].pc \notin BeforeLookup
       /\ Rivals(d) = Updates
  /\ \A u \in Updates :
       /\ Target(u) = UpdateTarget[u]
       /\ AtWork(u) <=> upd[u].pc \in Updating
       /\ HasLookedUp(u) <=> upd[u].pc \notin BeforeLookup
       /\ Rivals(u) = (Provisions \cup Deprovisions \cup Updates) \ {u}
BY ServiceAssumption DEF Target, AtWork, HasLookedUp, Rivals, LookedUp

\* The same of the next state.
LEMMA KindsNext ==
  /\ \A p \in Provisions : AtWork(p)' <=> Running(p)'
  /\ \A d \in Deprovisions :
       /\ AtWork(d)' <=> dep'[d].pc \in Handling
       /\ HasLookedUp(d)' <=> dep'[d].pc \notin BeforeLookup
  /\ \A u \in Updates :
       /\ AtWork(u)' <=> upd'[u].pc \in Updating
       /\ HasLookedUp(u)' <=> upd'[u].pc \notin BeforeLookup
BY ServiceAssumption DEF AtWork, HasLookedUp, LookedUp

Calls     == Provisions \cup Deprovisions \cup Updates
Observers == Updates \cup Deprovisions

AloneTypeOK == alone \in [Observers -> BOOLEAN]

\* A step that begins no call and looks nothing up.
GoesOn ==
  /\ alone' = alone
  /\ \A r \in Calls : AtWork(r)' => AtWork(r)
  /\ \A c \in Observers : HasLookedUp(c)' <=> HasLookedUp(c)

\* A step in which call r arrives.
Begins(r) ==
  /\ Arrives(r)
  /\ \A q \in Calls \ {r} : AtWork(q)' => AtWork(q)
  /\ \A c \in Observers : HasLookedUp(c)' <=> HasLookedUp(c)

\* A step in which call c looks its application up.
LooksUpNow(c) ==
  /\ LooksUp(c) /\ ~HasLookedUp(c)
  /\ \A r \in Calls : AtWork(r)' => AtWork(r)
  /\ \A e \in Observers \ {c} : HasLookedUp(e)' <=> HasLookedUp(e)

\* The step in which the process ends.
Ends ==
  /\ alone' = alone
  /\ \A r \in Calls : ~AtWork(r)'
  /\ \A c \in Observers : HasLookedUp(c) => HasLookedUp(c)'

\* Every step is one of these, as far as being alone goes.
LEMMA AloneSteps ==
  ASSUME TypeOK, OwnObjects, UpdTypeOK, [ServiceNext]_serviceVars
  PROVE  \/ GoesOn \/ Ends
         \/ \E r \in Calls : Begins(r)
         \/ \E c \in Observers : LooksUpNow(c)
<1> USE DEF Calls, Observers
<1>1. CASE \E p \in Provisions : ProvisionCall(p) /\ Arrives(p) /\ UNCHANGED upd
  <2>1. PICK p \in Provisions : ProvisionCall(p) /\ Arrives(p) /\ UNCHANGED upd
    BY <1>1
  <2>2. /\ dep' = dep
        /\ \A q \in Provisions \ {p} : prov'[q] = prov[q]
    BY <2>1 DEF ProvisionCall, Provision, Goto, TypeOK, ProvTypeOK
  <2>3. \A q \in Provisions \ {p} : AtWork(q)' <=> AtWork(q)
    BY <2>2, Kinds, KindsNext DEF Running
  <2>4. /\ \A q \in Deprovisions \cup Updates : AtWork(q)' <=> AtWork(q)
        /\ \A c \in Observers : HasLookedUp(c)' <=> HasLookedUp(c)
    BY <2>1, <2>2, Kinds, KindsNext
  <2>5. QED
    BY <2>1, <2>3, <2>4 DEF Begins
<1>2. CASE \E p \in Provisions : Goroutine(p) /\ UNCHANGED <<alone, upd>>
  <2>1. PICK p \in Provisions : Goroutine(p) /\ UNCHANGED <<alone, upd>>
    BY <1>2
  <2>2. dep' = dep /\ \A q \in Provisions : Running(q)' => Running(q)
    BY <2>1, GoroutineMoves DEF Goroutine, Running
  <2>3. QED
    BY <2>1, <2>2, Kinds, KindsNext DEF GoesOn
<1>3. CASE \E d \in Deprovisions : DeprovisionCall(d) /\ Arrives(d) /\ UNCHANGED upd
  <2>1. PICK d \in Deprovisions : DeprovisionCall(d) /\ Arrives(d) /\ UNCHANGED upd
    BY <1>3
  <2>2. /\ prov' = prov
        /\ \A e \in Deprovisions \ {d} : dep'[e] = dep[e]
        /\ dep[d].pc \in BeforeLookup /\ dep'[d].pc \in BeforeLookup
    BY <2>1 DEF DeprovisionCall, Deprovision, DepAt, DepGoto, TypeOK, DepTypeOK, DepRecord,
      BeforeLookup
  <2>3. \A q \in Provisions \cup Updates : AtWork(q)' <=> AtWork(q)
    BY <2>1, <2>2, Kinds, KindsNext DEF Running
  <2>4. \A q \in Deprovisions \ {d} : AtWork(q)' <=> AtWork(q)
    BY <2>2, Kinds, KindsNext
  <2>5. \A c \in Observers : HasLookedUp(c)' <=> HasLookedUp(c)
    BY <2>1, <2>2, Kinds, KindsNext
  <2>6. QED
    BY <2>1, <2>3, <2>4, <2>5 DEF Begins
<1>4. CASE \E d \in Deprovisions :
             /\ Handler(d) /\ UNCHANGED upd
             /\ IF DepAt(d, "lookup") THEN LooksUp(d) ELSE UNCHANGED alone
  <2>1. PICK d \in Deprovisions :
             /\ Handler(d) /\ UNCHANGED upd
             /\ IF DepAt(d, "lookup") THEN LooksUp(d) ELSE UNCHANGED alone
    BY <1>4
  <2>2. /\ prov' = prov
        /\ \A e \in Deprovisions \ {d} : dep'[e] = dep[e]
        /\ dep[d].pc \in Handling
        /\ dep'[d].pc \notin BeforeLookup
    BY <2>1 DEF Handler, HandlerStep, GetApplicationByNameAndSpace, GetApplicationRoutes,
      UpdateApplicationStop, DeleteRoute, DeleteApplication, DepAt, DepGoto, DepProceed,
      TypeOK, DepTypeOK, DepRecord, BeforeLookup, Handling
  <2>3. \A q \in Calls : AtWork(q)' => AtWork(q)
    BY <2>1, <2>2, Kinds, KindsNext DEF Running
  <2>4. \A c \in Observers \ {d} : HasLookedUp(c)' <=> HasLookedUp(c)
    BY <2>1, <2>2, Kinds, KindsNext
  <2>5. HasLookedUp(d) <=> ~DepAt(d, "lookup")
    BY <2>2, Kinds DEF DepAt, BeforeLookup, Handling
  <2>6. HasLookedUp(d)'
    BY <2>2, KindsNext
  <2>7. QED
    BY <2>1, <2>3, <2>4, <2>5, <2>6 DEF GoesOn, LooksUpNow
<1>5. CASE Job /\ UNCHANGED <<alone, upd>>
  BY <1>5, Kinds, KindsNext DEF GoesOn, Job, Running
<1>6. CASE BindingStep
  BY <1>6, Kinds, KindsNext DEF GoesOn, BindingStep, BindCall, BindHandler, UnbindCall,
    UnbindHandler, vars, Running
<1>7. CASE \E u \in Updates : UpdateCall(u)
  <2>1. PICK u \in Updates : UpdateCall(u)
    BY <1>7
  <2>2. /\ UNCHANGED <<prov, dep>>
        /\ \A v \in Updates \ {u} : upd'[v] = upd[v]
        /\ upd[u].pc \in BeforeLookup /\ upd'[u].pc \in BeforeLookup
    BY <2>1, UpdateMoves DEF UpdateCall, Update, UpdAt, UpdGoto, UpdTypeOK, UpdRecord,
      BeforeLookup
  <2>3. \A q \in Calls \ {u} : AtWork(q)' <=> AtWork(q)
    BY <2>2, Kinds, KindsNext DEF Running
  <2>4. \A c \in Observers : HasLookedUp(c)' <=> HasLookedUp(c)
    BY <2>2, Kinds, KindsNext
  <2>5. QED
    BY <2>1, <2>3, <2>4 DEF Begins, UpdateCall
<1>8. CASE \E u \in Updates : UpdateHandler(u)
  <2>1. PICK u \in Updates : UpdateHandler(u)
    BY <1>8
  <2>2. /\ UNCHANGED <<prov, dep>>
        /\ \A v \in Updates \ {u} : upd'[v] = upd[v]
        /\ upd[u].pc \in Updating
        /\ upd'[u].pc \notin BeforeLookup
    <3>1. UpdAt(u, "idle") \/ UpdAt(u, "lookup") \/ upd[u].pc \notin BeforeLookup
      BY DEF UpdAt, BeforeLookup
    <3>2. upd[u].pc \in Updating
      BY <2>1 DEF UpdateHandler, UpdateStep, FindApplication, PlainCall, CountProcesses,
        PollUpdateScale, ReadUpdatePeers, ReadFirstRoute, PushUpdate, UpdAt, Updating
    <3>3. QED
      BY <2>1, <3>2, UpdateMoves, UpdateGoesOn DEF UpdateHandler
  <2>3. \A q \in Calls : AtWork(q)' => AtWork(q)
    BY <2>2, Kinds, KindsNext DEF Running
  <2>4. \A c \in Observers \ {u} : HasLookedUp(c)' <=> HasLookedUp(c)
    BY <2>2, Kinds, KindsNext
  <2>5. HasLookedUp(u) <=> ~UpdAt(u, "lookup")
    BY <2>2, Kinds DEF UpdAt, BeforeLookup, Updating, PlainCalls
  <2>6. HasLookedUp(u)'
    BY <2>2, KindsNext
  <2>7. QED
    BY <2>1, <2>3, <2>4, <2>5, <2>6 DEF GoesOn, LooksUpNow, UpdateHandler
<1>9. CASE ServiceCrash
  <2>1. "failed" \notin RunningPcs \cup Handling \cup Updating \cup BeforeLookup
    BY DEF RunningPcs, StagingCalls, StartCalls, RestartCalls, Handling, Updating, PlainCalls,
      BeforeLookup
  <2>2. \A p \in Provisions : ~Running(p)'
    BY <1>9, <2>1 DEF ServiceCrash, BrokerCrash, Crash, Running, TypeOK, ProvTypeOK,
      ProvRecord
  <2>3. \A d \in Deprovisions : /\ dep'[d].pc \notin Handling
                               /\ dep'[d].pc \in {dep[d].pc, "failed"}
    BY <1>9, <2>1 DEF ServiceCrash, BrokerCrash, Crash, TypeOK, DepTypeOK, DepRecord
  <2>4. \A u \in Updates : /\ upd'[u].pc \notin Updating
                          /\ upd'[u].pc \in {upd[u].pc, "failed"}
    BY <1>9, <2>1 DEF ServiceCrash, UpdTypeOK, UpdRecord
  <2>5. alone' = alone
    BY <1>9 DEF ServiceCrash
  <2>6. QED
    BY <2>1, <2>2, <2>3, <2>4, <2>5, Kinds, KindsNext DEF Ends
<1>10. CASE UNCHANGED serviceVars
  BY <1>10, Kinds, KindsNext DEF GoesOn, serviceVars, brokerVars, vars, Running
<1>11. QED
  BY <1>1, <1>2, <1>3, <1>4, <1>5, <1>6, <1>7, <1>8, <1>9, <1>10 DEF ServiceNext, LifeStep

\* Nobody gets a rival unnoticed.
LEMMA NoRivalsStep ==
  ASSUME AloneTypeOK, NoRivals, TypeOK, OwnObjects, UpdTypeOK, [ServiceNext]_serviceVars
  PROVE  /\ AloneTypeOK' /\ NoRivals'
         /\ \A c \in Observers : HasLookedUp(c) => HasLookedUp(c)' /\ (alone'[c] => alone[c])
<1> USE DEF AloneTypeOK, NoRivals
<1>1. \A c \in Observers : Rivals(c) \subseteq Calls /\ c \notin Rivals(c)
  BY ServiceAssumption DEF Rivals, Observers, Calls
<1>2. \A c \in Observers : Rivals(c)' = Rivals(c) /\ Target(c)' = Target(c)
  BY DEF Rivals, Target
<1>3. CASE GoesOn
  BY <1>1, <1>3 DEF GoesOn, Observers, Calls
<1>4. CASE \E r \in Calls : Begins(r)
  <2>1. PICK r \in Calls : Begins(r)
    BY <1>4
  <2>2. QED
    BY <1>1, <2>1 DEF Begins, Arrives, Observers
<1>5. CASE \E c \in Observers : LooksUpNow(c)
  <2>1. PICK c \in Observers : LooksUpNow(c)
    BY <1>5
  <2>2. QED
    BY <1>1, <2>1 DEF LooksUpNow, LooksUp, Observers
<1>6. CASE Ends
  BY <1>1, <1>6 DEF Ends, Observers
<1>7. QED
  BY <1>3, <1>4, <1>5, <1>6, AloneSteps

(***************************************************************************)
(* The invariant of the whole broker.                                      *)
(***************************************************************************)
\* An Update holds nothing but what its lookup found.
LEMMA UpdatesOwnInstanceStep ==
  ASSUME UpdTypeOK, UpdatesOwnInstance, [ServiceNext]_serviceVars
  PROVE  UpdatesOwnInstance'
<1> DEFINE Own(v) == /\ upd[v].guid # NoGuid =>
                          /\ upd[v].pc \notin BeforeLookup
                          /\ NameOf[upd[v].guid] = UpdateTarget[v]
                     /\ upd[v].pc \in Updating \cup {"ok"} =>
                          upd[v].pc = "lookup" \/ upd[v].guid # NoGuid
<1> USE DEF UpdTypeOK
<1>1. \A v \in Updates : Own(v)
  BY Kinds DEF UpdatesOwnInstance, UpdAt
<1>2. SUFFICES ASSUME NEW v \in Updates PROVE Own(v)'
  BY KindsNext DEF UpdatesOwnInstance, UpdAt
<1>3. CASE upd'[v] = upd[v]
  BY <1>1, <1>3
<1>4. CASE UpdateCall(v)
  <2>1. upd[v].pc = "idle" /\ upd'[v].pc = "lookup" /\ upd'[v].guid = upd[v].guid
    BY <1>4 DEF UpdateCall, Update, UpdAt, UpdGoto, UpdRecord
  <2>2. QED
    BY <1>1, <2>1 DEF BeforeLookup
<1>5. CASE UpdateHandler(v)
  <2>1. upd'[v].pc \notin BeforeLookup
    BY <1>5, UpdateGoesOn DEF UpdateHandler
  <2>2. CASE FindApplication(v)
    <3>1. upd[v].guid = NoGuid
      BY <1>1, <2>2 DEF FindApplication, UpdAt, BeforeLookup
    <3>2. CASE UpdGoto(v, "failed")
      BY <3>1, <3>2 DEF UpdGoto, UpdRecord, Updating, PlainCalls
    <3>3. CASE ~UpdGoto(v, "failed")
      <4>1. PICK g \in Guids, n \in Counts, step \in {"failed", "environment"} :
              /\ Live(g) /\ NameOf[g] = UpdateTarget[v]
              /\ upd' = [upd EXCEPT ![v] =
                           [@ EXCEPT !.guid = g, !.count = n, !.pc = step]]
              /\ step = "failed" => v \in Parameterless
        BY <2>2, <3>3, FoundOrFailed
      <4>2. QED
        BY <2>1, <4>1, PlatformAssumption DEF UpdRecord
    <3>4. QED
      BY <3>2, <3>3
  <2>3. CASE ~FindApplication(v)
    <3>1. upd[v].pc \in Updating \ {"lookup"}
      BY <1>5, <2>3 DEF UpdateHandler, UpdateStep, PlainCall, CountProcesses,
        PollUpdateScale, ReadUpdatePeers, ReadFirstRoute, PushUpdate, UpdAt, Updating,
        PlainCalls
    <3>2. upd'[v].guid = upd[v].guid
      BY <1>5, <3>1, UpdateGoesOn DEF UpdateHandler, UpdAt
    <3>3. QED
      BY <1>1, <2>1, <3>1, <3>2
  <2>4. QED
    BY <2>2, <2>3
<1>6. CASE ServiceCrash
  <2>1. upd'[v].guid = upd[v].guid
        /\ (upd'[v].pc = upd[v].pc \/ upd'[v].pc = "failed")
    BY <1>6 DEF ServiceCrash, UpdRecord
  <2>2. "failed" \notin BeforeLookup \cup Updating
    BY DEF BeforeLookup, Updating, PlainCalls
  <2>3. QED
    BY <1>1, <2>1, <2>2
<1>7. CASE \E u \in Updates \ {v} : UpdateCall(u) \/ UpdateHandler(u)
  BY <1>3, <1>7, UpdateMoves DEF UpdateCall, UpdateHandler
<1>8. CASE LifeStep \/ BindingStep \/ UNCHANGED serviceVars
  BY <1>3, <1>8 DEF LifeStep, BindingStep, serviceVars
<1>9. QED
  BY <1>4, <1>5, <1>6, <1>7, <1>8 DEF ServiceNext

\* Nothing has happened at the start.
LEMMA ServiceInitInv == ServiceInit => ServiceInv /\ BindInv /\ UnbindInv
<1> SUFFICES ASSUME ServiceInit PROVE ServiceInv /\ BindInv /\ UnbindInv
  OBVIOUS
<1>1. IInv /\ BindInv /\ UnbindInv
  BY InitIInv, BindInit, UnbindsInit DEF ServiceInit, BrokerInit
<1>2. UpdTypeOK /\ UpdatesOwnInstance
  BY PlatformAssumption DEF ServiceInit, UpdInit, UpdTypeOK, UpdRecord, UpdatesOwnInstance,
    Updating, PlainCalls
<1>3. \A c \in Observers : ~HasLookedUp(c)
  BY Kinds DEF Observers, BeforeLookup, ServiceInit, BrokerInit, Init, DepInit, UpdInit
<1>4. AloneTypeOK /\ NoRivals
  BY <1>3 DEF ServiceInit, AloneTypeOK, NoRivals, Observers
<1>5. QED
  BY <1>1, <1>2, <1>4 DEF ServiceInv, ServiceTypeOK, BrokerTypeOK, IInv, BindInv, UnbindInv,
    AloneTypeOK, Observers

\* Every step of the whole broker preserves it.
LEMMA ServiceStepInv ==
  ASSUME ServiceInv, BindInv, UnbindInv, [ServiceNext]_serviceVars
  PROVE  ServiceInv' /\ BindInv' /\ UnbindInv'
<1> USE DEF ServiceInv, ServiceTypeOK
<1>1. IInv'
  <2>1. CASE [BrokerNext]_brokerVars
    BY <2>1, BrokerStepRefines, NextStep
  <2>2. CASE \E u \in Updates : UpdateHandler(u)
    BY <2>2, UpdateKeepsIInv
  <2>3. QED
    BY <2>1, <2>2, ServiceSteps
<1>2. BindInv' /\ UnbindInv'
  <2>1. CASE [BrokerNext]_brokerVars
    BY <2>1, BindNextKeeps, UnbindNextKeeps DEF IInv, BindInv
  <2>2. CASE \E u \in Updates : UpdateHandler(u)
    BY <2>2 DEF UpdateHandler, bindVars, BindInv, UnbindInv, BindingTypeOK, BindOwnsClient,
      BindReadsOwnInstance, PendingCovers, SameBinding, Unbound, BindAt
  <2>3. QED
    BY <2>1, <2>2, ServiceSteps
<1>3. UpdTypeOK'
  <2>1. CASE \E u \in Updates : UpdateCall(u) \/ UpdateHandler(u)
    BY <2>1, UpdateMoves DEF UpdateCall, UpdateHandler
  <2>2. CASE ServiceCrash
    BY <2>2 DEF ServiceCrash, UpdTypeOK, UpdRecord
  <2>3. CASE LifeStep \/ BindingStep \/ UNCHANGED serviceVars
    BY <2>3 DEF LifeStep, BindingStep, serviceVars, UpdTypeOK
  <2>4. QED
    BY <2>1, <2>2, <2>3 DEF ServiceNext
<1>4. UpdatesOwnInstance'
  BY UpdatesOwnInstanceStep
<1>5. AloneTypeOK' /\ NoRivals'
  BY NoRivalsStep DEF IInv, AloneTypeOK, Observers
<1>6. QED
  BY <1>1, <1>2, <1>3, <1>4, <1>5 DEF IInv, BrokerTypeOK, BindInv, UnbindInv, AloneTypeOK,
    Observers

\* The invariant holds in every behaviour of the whole broker.
THEOREM ServiceInvariance == ServiceSpec => [](ServiceInv /\ BindInv /\ UnbindInv)
<1>1. ServiceInv /\ BindInv /\ UnbindInv /\ [ServiceNext]_serviceVars
        => ServiceInv' /\ BindInv' /\ UnbindInv'
  BY ServiceStepInv
<1>2. QED
  BY <1>1, ServiceInitInv, PTL DEF ServiceSpec

(***************************************************************************)
(* What Updates do to the life of applications.                            *)
(***************************************************************************)
\* An Update runs an application that stands, or changes none's phase.
LEMMA UpdateLives ==
  ASSUME IInv, IInv', UpdTypeOK, NotBuiltYet, NEW u \in Updates, UpdateHandler(u)
  PROVE  NotBuiltYet' /\ [Life!LifeNext]_(Life!lifeVars)
<1> DEFINE h == upd[u].guid
<1> USE DEF IInv, TypeOK, PlatformTypeOK
<1>1. /\ Asked' = Asked /\ prov' = prov
      /\ \A g \in Guids \ {h} : app'[g] = app[g]
      /\ \A g \in Guids :
           /\ app'[g].doomed = app[g].doomed
           /\ \/ app'[g].state = app[g].state
              \/ g = h /\ Live(g) /\ app'[g].state = "started"
  BY UpdateEffect DEF UpdateHandler, Asked
<1>2. NotBuiltYet'
  BY <1>1 DEF NotBuiltYet, Provisions, Live
<1>3. CASE \A g \in Guids : PhaseOf(app'[g]) = PhaseOf(app[g])
  BY <1>1, <1>2, <1>3 DEF Phase, Life!lifeVars
<1>4. CASE \E g \in Guids : PhaseOf(app'[g]) # PhaseOf(app[g])
  <2>1. /\ h \in Guids /\ Live(h) /\ app'[h].state = "started"
        /\ PhaseOf(app'[h]) # PhaseOf(app[h])
    BY <1>1, <1>4 DEF PhaseOf
  <2>2. PhaseOf(app[h]) = "idle" /\ PhaseOf(app'[h]) = "running"
    <3>1. app[h] \in AppRecord /\ app'[h] \in AppRecord
      BY <2>1
    <3>2. QED
      BY <1>1, <2>1, <3>1, PhaseCases DEF Live
  <2>3. Phase' = [Phase EXCEPT ![h] = "running"]
    BY <1>1, <2>1, <2>2, OthersKeepPhase
  <2>4. Life!Run(h)
    BY <1>1, <2>1, <2>2, <2>3 DEF Phase, Life!Run, Life!Enter
  <2>5. QED
    BY <1>2, <2>1, <2>4 DEF Life!LifeNext
<1>5. QED
  BY <1>3, <1>4

\* Every step of the whole broker is one of a plain life.
LEMMA ServiceStepLives ==
  ASSUME ServiceInv, ServiceInv', NotBuiltYet, [ServiceNext]_serviceVars
  PROVE  NotBuiltYet' /\ [Life!LifeNext]_(Life!lifeVars)
<1> USE DEF ServiceInv
<1>1. CASE [BrokerNext]_brokerVars
  BY <1>1, BrokerStepRefines, NotBuiltYetStep, StepLives
<1>2. CASE \E u \in Updates : UpdateHandler(u)
  BY <1>2, UpdateLives DEF ServiceTypeOK
<1>3. QED
  BY <1>1, <1>2, ServiceSteps

\* Only an Update that the handler overlaps starts what it has stopped.
LEMMA StaysStoppedStep ==
  ASSUME ServiceInv, StaysStopped, [ServiceNext]_serviceVars
  PROVE  StaysStopped'
<1> SUFFICES ASSUME NEW d \in Deprovisions, DeletesStarted(d)'
             PROVE  (dep[d].guid \in Overlap(d) \/ ~alone[d])'
  BY DEF StaysStopped, DeletesStarted
<1> USE DEF ServiceInv, ServiceTypeOK
<1>1. LookedUp(d) => (alone'[d] => alone[d])
  <2>1. AloneTypeOK /\ d \in Observers
    BY DEF AloneTypeOK, Observers
  <2>2. HasLookedUp(d) <=> LookedUp(d)
    BY Kinds DEF LookedUp
  <2>3. QED
    BY <2>1, <2>2, NoRivalsStep DEF IInv
<1>2. DeletesStarted(d) => LookedUp(d) /\ (dep[d].guid \in Overlap(d) \/ ~alone[d])
  BY DEF DeletesStarted, StaysStopped, LookedUp, DepAt, BeforeLookup
<1>3. CASE [BrokerNext]_brokerVars
  <2>1. /\ Overlap(d) \subseteq Overlap(d)'
        /\ \/ DeletesStarted(d) /\ dep'[d].guid = dep[d].guid
           \/ dep'[d].guid \in Overlap(d)'
    BY <1>3, BrokerStepRefines, StartedByOverlap
  <2>2. QED
    BY <1>1, <1>2, <2>1
<1>4. CASE \E u \in Updates : UpdateHandler(u)
  <2>1. PICK u \in Updates : UpdateHandler(u)
    BY <1>4
  <2>2. UNCHANGED <<dep, during, later>> /\ Overlap(d)' = Overlap(d)
    BY <2>1 DEF UpdateHandler, history, Overlap
  <2>3. CASE DeletesStarted(d)
    BY <1>1, <1>2, <2>2, <2>3
  <2>4. CASE ~DeletesStarted(d)
    <3>1. UpdAt(u, "restart") /\ dep[d].guid = upd[u].guid /\ dep[d].guid # NoGuid
      BY <2>1, <2>2, <2>4, UpdateEffect, PlatformAssumption DEF UpdateHandler,
        DeletesStarted, DepAt, IsStarted, IInv, TypeOK
    <3>2. UpdateTarget[u] = TargetOf[d]
      BY <3>1 DEF UpdatesOwnInstance, IInv, HandlesOwnInstance, SameInstance
    <3>3. AtWork(u) /\ Target(u) = Target(d) /\ u \in Rivals(d) /\ HasLookedUp(d)
      BY <2>2, <3>1, <3>2, Kinds DEF UpdAt, Updating, PlainCalls, DeletesStarted, DepAt,
        BeforeLookup
    <3>4. ~alone[d]
      BY <3>3 DEF NoRivals
    <3>5. QED
      BY <1>1, <3>3, <3>4, Kinds DEF LookedUp
  <2>5. QED
    BY <2>3, <2>4
<1>5. QED
  BY <1>3, <1>4, ServiceSteps

(***************************************************************************)
(* How far an Update has got.                                              *)
(***************************************************************************)
\* The calls of an Update that succeed, one by one.
Flow(u) ==
  LET g   == upd[u].guid
      pc  == upd[u].pc
      nxt == upd'[u].pc
  IN  \/ /\ pc = "environment" /\ nxt = "updateApp"
         /\ app' = PatchedEnv(g, {"params", "profiles", "json"}, u)
      \/ /\ pc = "updateApp" /\ nxt = IF ForRegistry(u) THEN "processes" ELSE "restart"
         /\ app' = PatchedEnv(g, {}, u)
      \/ /\ pc = "processes" /\ nxt = "scale"
         /\ app' = app
      \/ /\ pc = "processes" /\ nxt \in {"peers", "registryParams"}
         /\ nxt = "peers" => upd[u].count > 1
         /\ app' = app /\ app[g].instances = upd[u].count
      \/ /\ pc = "scale" /\ nxt = "pollScale"
         /\ app' = ScaledApp(g, upd[u].count)
      \/ /\ pc = "pollScale" /\ nxt \in {"peers", "registryParams"}
         /\ app' = app /\ MayCount(g, upd[u].count)
      \/ /\ pc = "peers" /\ nxt = "registryParams"
         /\ app' = app
      \/ /\ pc = "registryParams" /\ nxt = "registryEnv"
         /\ app' = PatchedEnv(g, {"params"}, u)
      \/ /\ pc = "registryEnv" /\ nxt = "restart"
         /\ app' = PatchedEnv(g, {"profiles", "peers"}, u)
      \/ /\ pc = "restart" /\ nxt = IF ForRegistry(u) THEN "routes" ELSE "ok"
         /\ app' = RestartedApp(g)
      \/ /\ pc = "routes" /\ nxt \in {"push", "ok"}
         /\ app' = app
      \/ /\ pc = "push" /\ nxt = "ok"
         /\ app' = app

\* A call that does not fail is one of these.
LEMMA UpdateFlow ==
  ASSUME UpdTypeOK, NEW u \in Updates, UpdateStep(u), ~UpdAt(u, "lookup")
  PROVE  upd'[u].pc = "failed" \/ Flow(u)
<1> DEFINE pc == upd[u].pc
<1>1. \A step : UpdGoto(u, step) => upd'[u].pc = step
  BY DEF UpdGoto, UpdTypeOK, UpdRecord
<1>2. \A reply, step : UpdProceed(u, reply, step) =>
        upd'[u].pc = IF reply = "ok" THEN step ELSE "failed"
  BY <1>1 DEF UpdProceed
<1>3. /\ AfterScale(u) \in {"peers", "registryParams"}
      /\ AfterScale(u) = "peers" => upd[u].count > 1
  BY DEF AfterScale
<1>4. CASE PlainCall(u)
  <2>1. PICK reply : /\ app' = IF TakesEffect(reply) THEN PlainEffect(u) ELSE app
                     /\ UpdProceed(u, reply, AfterPlainCall(u))
    BY <1>4 DEF PlainCall
  <2>2. CASE reply # "ok"
    BY <1>2, <2>1, <2>2
  <2>3. CASE reply = "ok"
    <3>1. upd'[u].pc = AfterPlainCall(u) /\ app' = PlainEffect(u)
      BY <1>2, <2>1, <2>3 DEF TakesEffect
    <3>2. pc \in PlainCalls
      BY <1>4 DEF PlainCall
    <3>3. Flow(u)
      BY <3>1, <3>2 DEF Flow, PlainCalls, PlainEffect, AfterPlainCall, Stores, UpdAt
    <3>4. QED
      BY <3>3
  <2>4. QED
    BY <2>2, <2>3
<1>5. CASE CountProcesses(u)
  <2>1. PICK reply :
          UpdProceed(u, reply, IF app[upd[u].guid].instances # upd[u].count
                                 THEN "scale" ELSE AfterScale(u))
    BY <1>5 DEF CountProcesses
  <2>2. pc = "processes" /\ app' = app
    BY <1>5 DEF CountProcesses, UpdAt
  <2>3. QED
    BY <1>2, <1>3, <2>1, <2>2 DEF Flow
<1>6. CASE PollUpdateScale(u)
  BY <1>1, <1>3, <1>6 DEF PollUpdateScale, UpdAt, Flow
<1>7. CASE ReadUpdatePeers(u)
  BY <1>1, <1>2, <1>7 DEF ReadUpdatePeers, UpdAt, Flow
<1>8. CASE ReadFirstRoute(u)
  <2>1. upd'[u].pc \in {"failed", "push", "ok"}
    BY <1>1, <1>8 DEF ReadFirstRoute
  <2>2. QED
    BY <1>8, <2>1 DEF ReadFirstRoute, UpdAt, Flow
<1>9. CASE PushUpdate(u)
  BY <1>1, <1>9 DEF PushUpdate, UpdAt, Flow
<1>10. QED
  BY <1>4, <1>5, <1>6, <1>7, <1>8, <1>9 DEF UpdateStep, FindApplication

\* An Update's own variables are its own, but for the end of the process.
LEMMA UpdOfOthers ==
  ASSUME UpdTypeOK, [ServiceNext]_serviceVars, NEW u \in Updates, ~UpdateHandler(u)
  PROVE  /\ upd'[u].guid = upd[u].guid /\ upd'[u].count = upd[u].count
         /\ upd'[u].pc = upd[u].pc \/ upd'[u].pc \in {"lookup", "failed"}
<1>1. CASE \E v \in Updates : UpdateCall(v)
  BY <1>1, UpdateMoves DEF UpdateCall, Update, UpdGoto, UpdTypeOK, UpdRecord
<1>2. CASE \E v \in Updates : UpdateHandler(v)
  BY <1>2, UpdateMoves DEF UpdateHandler
<1>3. CASE ServiceCrash
  BY <1>3 DEF ServiceCrash, UpdTypeOK, UpdRecord
<1>4. CASE LifeStep \/ BindingStep \/ UNCHANGED serviceVars
  BY <1>4 DEF LifeStep, BindingStep, serviceVars
<1>5. QED
  BY <1>1, <1>2, <1>3, <1>4 DEF ServiceNext

\* Nobody but an Update that is alone touches its application, except to
\* place its instances and to remove it.
LEMMA AppOfAlone ==
  ASSUME ServiceInv, [ServiceNext]_serviceVars,
         NEW u \in Updates, alone[u], HasLookedUp(u), ~UpdateHandler(u),
         upd[u].guid \in Guids
  PROVE  \/ ~Live(upd[u].guid)'
         \/ \A f \in {"state", "env", "running", "instances"} :
              app'[upd[u].guid][f] = app[upd[u].guid][f]
<1> DEFINE g == upd[u].guid
           Same == app'[g] = app[g]
<1> USE DEF ServiceInv, IInv, TypeOK
<1>0. NameOf[g] = UpdateTarget[u]
  BY PlatformAssumption DEF UpdatesOwnInstance
<1>1. \A r \in Calls \ {u} : Target(r) = UpdateTarget[u] => ~AtWork(r)
  BY Kinds DEF NoRivals, Calls
<1>2. CASE \E p \in Provisions : Goroutine(p)
  <2>1. PICK p \in Provisions : Goroutine(p)
    BY <1>2
  <2>2. g # p
    BY <2>1, <1>0, <1>1, Kinds, GoroutineMoves, ServiceAssumption DEF Calls
  <2>3. Same
    BY <2>1, <2>2, GoroutineApp
  <2>4. QED
    BY <2>3
<1>3. CASE \E d \in Deprovisions : Handler(d)
  <2>1. PICK d \in Deprovisions : Handler(d)
    BY <1>3
  <2>2. dep[d].pc \in Handling /\ app' \in {app, StoppedApp(dep[d].guid), DoomedApp(dep[d].guid)}
    BY <2>1 DEF Handler, HandlerStep, GetApplicationByNameAndSpace, GetApplicationRoutes,
      UpdateApplicationStop, DeleteRoute, DeleteApplication, DepAt, Handling
  <2>3. g # dep[d].guid
    BY <1>0, <1>1, <2>2, Kinds, ServiceAssumption, PlatformAssumption DEF Calls,
      HandlesOwnInstance, SameInstance
  <2>4. Same
    BY <2>2, <2>3 DEF StoppedApp, DoomedApp, PlatformTypeOK
  <2>5. QED
    BY <2>4
<1>4. CASE \E v \in Updates : UpdateHandler(v)
  <2>1. PICK v \in Updates : UpdateHandler(v)
    BY <1>4
  <2>2. upd[v].pc \in Updating
    BY <2>1 DEF UpdateHandler, UpdateStep, FindApplication, PlainCall, CountProcesses,
      PollUpdateScale, ReadUpdatePeers, ReadFirstRoute, PushUpdate, UpdAt, Updating
  <2>3. g # upd[v].guid
    BY <1>0, <1>1, <2>1, <2>2, Kinds, PlatformAssumption DEF Calls, UpdatesOwnInstance
  <2>4. Same
    BY <2>1, <2>3, UpdateEffect DEF UpdateHandler, ServiceTypeOK
  <2>5. QED
    BY <2>4
<1>5. CASE Job
  <2>1. PICK x \in Guids : PlaceInstances(x) \/ DeleteAppJob(x) \/ DeleteRouteJob(x)
    BY <1>5 DEF Job
  <2>2. CASE PlaceInstances(x)
    BY <2>2 DEF PlaceInstances, PlatformTypeOK, AppRecord
  <2>3. CASE DeleteAppJob(x)
    <3>1. app' = [app EXCEPT ![x] = [@ EXCEPT !.state = "deleted", !.running = NoEnv,
                                              !.placed = FALSE]]
      BY <2>3 DEF DeleteAppJob
    <3>2. x = g => app'[g].state = "deleted"
      BY <3>1 DEF PlatformTypeOK, AppRecord
    <3>3. x # g => Same
      BY <3>1 DEF PlatformTypeOK
    <3>4. upd'[u].guid = g
      BY UpdOfOthers DEF ServiceTypeOK
    <3>5. QED
      BY <3>2, <3>3, <3>4 DEF Live
  <2>4. CASE DeleteRouteJob(x)
    BY <2>4 DEF DeleteRouteJob
  <2>5. QED
    BY <2>1, <2>2, <2>3, <2>4
<1>6. CASE app' = app
  BY <1>6
<1>7. QED
  BY <1>2, <1>3, <1>4, <1>5, <1>6 DEF ServiceNext, LifeStep, ProvisionCall, Provision,
    DeprovisionCall, Deprovision, BindingStep, BindCall, BindHandler, UnbindCall,
    UnbindHandler, vars, UpdateCall, Update, ServiceCrash, BrokerCrash, Crash, serviceVars,
    brokerVars

\* What Progress says of one Update.
ProgressOf(u) ==
  LET g == upd[u].guid
  IN  alone[u] /\ HasLookedUp(u) /\ Live(g) =>
        /\ upd[u].pc \in AfterStoring =>
             \A e \in EnvGroups \ {"peers"} : app[g].env[e] = u
        /\ upd[u].pc \in AfterPeers /\ ForRegistry(u) => app[g].env["peers"] = u
        /\ upd[u].pc \in AfterCounting /\ ForRegistry(u) =>
             app[g].instances = upd[u].count
        /\ upd[u].pc \in AfterRestart =>
             IsStarted(g) /\ \A e \in GroupsOf(u) : app[g].running[e] = u

\* Each call of an Update adds its share.
LEMMA FlowProgress ==
  ASSUME app \in [Guids -> AppRecord], NEW u \in Updates, upd[u].guid \in Guids,
         Flow(u), upd'[u].guid = upd[u].guid, upd'[u].count = upd[u].count,
         alone'[u] = alone[u], HasLookedUp(u), Live(upd[u].guid)' <=> Live(upd[u].guid),
         ProgressOf(u),
         upd[u].pc \in {"processes", "scale", "pollScale", "peers", "registryParams",
                        "registryEnv"} => ForRegistry(u)
  PROVE  ProgressOf(u)'
<1> DEFINE g   == upd[u].guid
           pc  == upd[u].pc
           nxt == upd'[u].pc
           Stored(a) == \A e \in {"params", "profiles", "json"} : a.env[e] = u
           Peers(a)  == ForRegistry(u) => a.env["peers"] = u
           Scaled(a) == ForRegistry(u) => a.instances = upd[u].count
           Runs(a)   == a.state = "started" /\ \A e \in GroupsOf(u) : a.running[e] = u
           Got(step, a) == /\ step \in AfterStoring => Stored(a)
                           /\ step \in AfterPeers => Peers(a)
                           /\ step \in AfterCounting => Scaled(a)
                           /\ step \in AfterRestart => Runs(a)
<1> USE DEF Flow, AfterStoring, AfterCounting, AfterPeers, AfterRestart, AppRecord
<1>1. SUFFICES ASSUME alone[u], Live(g) PROVE Got(nxt, app'[g])
  BY ZenonT(40) DEF ProgressOf, IsStarted, EnvGroups, GroupsOf, ForRegistry
<1>2. Got(pc, app[g])
  BY <1>1 DEF ProgressOf, IsStarted, EnvGroups
<1>3. ASSUME NEW groups \in SUBSET EnvGroups, app' = PatchedEnv(g, groups, u)
      PROVE  /\ \A e \in EnvGroups : app'[g].env[e] = IF e \in groups THEN u ELSE app[g].env[e]
             /\ app'[g].instances = app[g].instances
  BY <1>3 DEF PatchedEnv
<1>4. EnvGroups = {"params", "profiles", "json", "peers"}
  BY DEF EnvGroups
<1>5. CASE pc = "environment"
  <2>1. app' = PatchedEnv(g, {"params", "profiles", "json"}, u) /\ nxt = "updateApp"
    BY <1>5
  <2>2. Stored(app'[g])
    BY <1>3, <1>4, <2>1
  <2>3. QED
    BY <2>1, <2>2
<1>6. CASE pc = "updateApp"
  <2>1. /\ app' = PatchedEnv(g, {}, u)
        /\ nxt = IF ForRegistry(u) THEN "processes" ELSE "restart"
    BY <1>6
  <2>2. Stored(app[g]) /\ Stored(app'[g])
    BY <1>2, <1>3, <1>4, <1>6, <2>1
  <2>3. QED
    BY <2>1, <2>2
<1>7. CASE pc \in {"registryParams", "registryEnv"}
  <2>1. PICK groups \in SUBSET EnvGroups :
          /\ app' = PatchedEnv(g, groups, u)
          /\ \/ pc = "registryParams" /\ nxt = "registryEnv"
             \/ pc = "registryEnv" /\ nxt = "restart" /\ "peers" \in groups
    BY <1>4, <1>7
  <2>2. Stored(app[g]) /\ Scaled(app[g])
    BY <1>2, <1>7
  <2>3. Stored(app'[g]) /\ Scaled(app'[g]) /\ (nxt = "restart" => Peers(app'[g]))
    BY <1>3, <1>4, <2>1, <2>2
  <2>4. QED
    BY <2>1, <2>3
<1>8. CASE pc = "scale"
  <2>1. app' = ScaledApp(g, upd[u].count) /\ nxt = "pollScale"
    BY <1>8
  <2>2. Stored(app'[g]) /\ Scaled(app'[g])
    BY <1>2, <1>8, <2>1 DEF ScaledApp
  <2>3. QED
    BY <2>1, <2>2
<1>9. CASE pc = "restart"
  <2>1. app' = RestartedApp(g) /\ nxt \in {"routes", "ok"}
    BY <1>9
  <2>2. Stored(app[g]) /\ Peers(app[g]) /\ Scaled(app[g])
    BY <1>2, <1>9
  <2>3. app' = [app EXCEPT ![g] = [@ EXCEPT !.state = "started", !.running = app[g].env,
                                            !.placed = FALSE]]
    BY <2>1 DEF RestartedApp
  <2>4. /\ app'[g].state = "started" /\ app'[g].env = app[g].env
        /\ app'[g].running = app[g].env /\ app'[g].instances = app[g].instances
    BY <2>3
  <2>5. Stored(app'[g]) /\ Peers(app'[g]) /\ Scaled(app'[g])
    BY <2>2, <2>4
  <2>6. \A e \in GroupsOf(u) : app[g].env[e] = u
    BY <1>4, <2>2 DEF GroupsOf
  <2>7. QED
    BY <2>1, <2>4, <2>5, <2>6
<1>10. CASE pc \in {"processes", "pollScale", "peers", "routes", "push"}
  BY <1>2, <1>10
<1>11. QED
  BY <1>5, <1>6, <1>7, <1>8, <1>9, <1>10

\* What Updates have stored and scaled stays while they are alone.
LEMMA ProgressStep ==
  ASSUME ServiceInv, ServiceInv', Progress, RegistryOnly, [ServiceNext]_serviceVars
  PROVE  Progress' /\ RegistryOnly'
<1> DEFINE Only(v) == upd[v].pc \in { "processes", "scale", "pollScale", "peers",
                        "registryParams", "registryEnv", "routes", "push" }
                      => ForRegistry(v)
<1> USE DEF ServiceInv, ServiceTypeOK
<1>1. \A v \in Updates : ProgressOf(v) /\ Only(v)
  BY DEF Progress, ProgressOf, RegistryOnly
<1>2. SUFFICES ASSUME NEW u \in Updates PROVE ProgressOf(u)' /\ Only(u)'
  BY DEF Progress, ProgressOf, RegistryOnly
<1>3. HasLookedUp(u) => (alone'[u] => alone[u])
  BY NoRivalsStep DEF IInv, AloneTypeOK, Observers
<1>4. {"lookup", "failed", "environment"} \cap AfterStoring = {}
      /\ AfterRestart \subseteq AfterPeers /\ AfterPeers \subseteq AfterCounting
      /\ AfterCounting \subseteq AfterStoring
  BY DEF AfterStoring, AfterCounting, AfterPeers, AfterRestart
<1>5. upd'[u].pc \in {"lookup", "failed", "environment"} => ProgressOf(u)' /\ Only(u)'
  BY <1>4 DEF ProgressOf
<1>6. CASE ~UpdateHandler(u)
  <2>1. SUFFICES ASSUME upd'[u].pc \notin {"lookup", "failed"}
                 PROVE  ProgressOf(u)' /\ Only(u)'
    BY <1>5
  <2>2. upd'[u].guid = upd[u].guid /\ upd'[u].count = upd[u].count /\ upd'[u].pc = upd[u].pc
    BY <1>6, <2>1, UpdOfOthers
  <2>3. Only(u)'
    BY <1>1, <2>2 DEF ForRegistry
  <2>4. SUFFICES ASSUME alone'[u], HasLookedUp(u)', Live(upd[u].guid)'
                 PROVE  ProgressOf(u)'
    BY <2>3 DEF ProgressOf
  <2>5. HasLookedUp(u) /\ alone[u]
    BY <1>3, <2>2, <2>4, Kinds, KindsNext
  <2>6. /\ upd[u].guid \in Guids
        /\ app'[upd[u].guid].state = app[upd[u].guid].state
        /\ app'[upd[u].guid].env = app[upd[u].guid].env
        /\ app'[upd[u].guid].running = app[upd[u].guid].running
        /\ app'[upd[u].guid].instances = app[upd[u].guid].instances
    BY <1>6, <2>2, <2>4, <2>5, AppOfAlone DEF Live
  <2>7. QED
    BY <1>1, <2>2, <2>3, <2>5, <2>6 DEF ProgressOf, Live, IsStarted, ForRegistry, GroupsOf
<1>7. CASE UpdateHandler(u)
  <2>1. CASE UpdAt(u, "lookup")
    <3>1. upd'[u].pc \in {"failed", "environment"}
      <4>1. FindApplication(u)
        BY <1>7, <2>1 DEF UpdateHandler, UpdateStep, PlainCall, PlainCalls, CountProcesses,
          PollUpdateScale, ReadUpdatePeers, ReadFirstRoute, PushUpdate, UpdAt
      <4>2. CASE UpdGoto(u, "failed")
        BY <4>2 DEF UpdGoto, UpdTypeOK, UpdRecord
      <4>3. CASE ~UpdGoto(u, "failed")
        <5>1. PICK g \in Guids, n \in Counts, step \in {"failed", "environment"} :
                /\ Live(g) /\ NameOf[g] = UpdateTarget[u]
                /\ upd' = [upd EXCEPT ![u] =
                             [@ EXCEPT !.guid = g, !.count = n, !.pc = step]]
                /\ step = "failed" => u \in Parameterless
          BY <4>1, <4>3, FoundOrFailed
        <5>2. QED
          BY <5>1 DEF UpdTypeOK, UpdRecord
      <4>4. QED
        BY <4>2, <4>3
    <3>2. QED
      BY <1>5, <3>1
  <2>2. CASE ~UpdAt(u, "lookup") /\ upd'[u].pc # "failed"
    <3>1. Flow(u) /\ upd'[u].guid = upd[u].guid /\ upd'[u].count = upd[u].count
      BY <1>7, <2>2, UpdateFlow, UpdateGoesOn DEF UpdateHandler
    <3>2. Only(u)'
      BY <1>1, <3>1 DEF Flow, ForRegistry
    <3>3. alone'[u] = alone[u] /\ HasLookedUp(u)
      BY <1>7, <2>2, <3>1, Kinds DEF UpdateHandler, Flow, BeforeLookup
    <3>4. CASE upd[u].guid \notin Guids
      BY <3>1, <3>2, <3>4 DEF ProgressOf, Live
    <3>5. CASE upd[u].guid \in Guids
      <4>1. app \in [Guids -> AppRecord] /\ u # NoGuid
        BY UpdateAssumption, PlatformAssumption DEF IInv, TypeOK, PlatformTypeOK
      <4>2. Live(upd[u].guid)' <=> Live(upd[u].guid)
        <5>1. PlatformTypeOK /\ UpdTypeOK /\ UpdateStep(u)
          BY <1>7 DEF UpdateHandler, IInv, TypeOK
        <5>2. \/ app'[upd[u].guid].state = app[upd[u].guid].state
              \/ Live(upd[u].guid) /\ app'[upd[u].guid].state = "started"
          BY <3>5, <5>1, UpdateEffect
        <5>3. QED
          BY <3>1, <3>5, <5>2 DEF Live
      <4>3. QED
        BY <1>1, <3>1, <3>2, <3>3, <3>5, <4>1, <4>2, FlowProgress
    <3>6. QED
      BY <3>4, <3>5
  <2>3. QED
    BY <1>5, <2>1, <2>2
<1>8. QED
  BY <1>6, <1>7

(***************************************************************************)
(* What holds of Lifecycle and Broker holds with Updates at work.          *)
(***************************************************************************)
\* Every variable of the broker keeps its type.
THEOREM ServiceTypeCorrect == ServiceSpec => []ServiceTypeOK
<1>1. ServiceInv => ServiceTypeOK
  BY DEF ServiceInv
<1>2. QED
  BY <1>1, ServiceInvariance, PTL

\* A successful Deprovision (deprovision.go:22-24 and 54) leaves standing only
\* what a Provision that overlapped it, or came later, created, whatever
\* Updates do to the application at the same time.
THEOREM ServiceSurvivorsOverlap == ServiceSpec => []SurvivorsOverlap
<1>1. ServiceInv => SurvivorsOverlap
  BY DEF ServiceInv, IInv
<1>2. QED
  BY <1>1, ServiceInvariance, PTL

\* Routes outlive their application only when its goroutine raced the
\* Deprovision that read them (deprovision.go:29-52), Updates or not.
THEOREM ServiceOrphanRoutesExplained == ServiceSpec => []OrphanRoutesExplained
<1>1. ServiceInv => OrphanRoutesExplained
  BY OrphansByIInv DEF ServiceInv
<1>2. QED
  BY <1>1, ServiceInvariance, PTL

\* Nor does an Update touch a route (update_registry_server_instance.go:146
\* reads them), so those that lead nowhere are still of unfinished goroutines.
THEOREM ServiceStrayRoutes == ServiceSpec => []StrayRoutesExplained
<1>1. ServiceInit => StrayRoutesExplained
  BY DEF ServiceInit, BrokerInit, Init, PlatformInit, StrayRoutesExplained, Exists
<1>2. ServiceInv /\ StrayRoutesExplained /\ [ServiceNext]_serviceVars => StrayRoutesExplained'
  <2> SUFFICES ASSUME ServiceInv, StrayRoutesExplained, [ServiceNext]_serviceVars
               PROVE  StrayRoutesExplained'
    OBVIOUS
  <2>1. CASE [BrokerNext]_brokerVars
    BY <2>1, StrayStep, BrokerStepRefines DEF ServiceInv
  <2>2. CASE \E u \in Updates : UpdateHandler(u)
    <3>1. UNCHANGED <<route, prov>>
      BY <2>2, UpdateEffect DEF UpdateHandler, ServiceInv, IInv, TypeOK, ServiceTypeOK
    <3>2. QED
      BY <3>1 DEF StrayRoutesExplained, Exists, At
  <2>3. QED
    BY <2>1, <2>2, ServiceSteps
<1>3. QED
  BY <1>1, <1>2, ServiceInvariance, PTL DEF ServiceSpec

\* Seen from outside, the applications of the whole broker live a plain life:
\* an Update (update_registry_server_instance.go:140) only runs what stands.
THEOREM ServiceImplementsLife == ServiceSpec => ImplementsLife
<1>1. ServiceInit => Life!LifeInit /\ NotBuiltYet
  BY LifeInitHolds, NotBuiltYetInit DEF ServiceInit, BrokerInit
<1>2. ServiceInv /\ ServiceInv' /\ NotBuiltYet /\ [ServiceNext]_serviceVars
        => NotBuiltYet' /\ [Life!LifeNext]_(Life!lifeVars)
  BY ServiceStepLives
<1>3. QED
  BY <1>1, <1>2, ServiceInvariance, PTL DEF ServiceSpec, ImplementsLife, Life!LifeSpec

\* The application that a Deprovision has stopped (deprovision.go:34) is started
\* by nobody but the goroutine that created it, or an Update that overlaps the
\* Deprovision.
THEOREM StaysStoppedHolds == ServiceSpec => []StaysStopped
<1>1. ServiceInit => StaysStopped
  BY DEF ServiceInit, BrokerInit, Init, DepInit, StaysStopped, DepAt
<1>2. ServiceInv /\ StaysStopped /\ [ServiceNext]_serviceVars => StaysStopped'
  BY StaysStoppedStep
<1>3. QED
  BY <1>1, <1>2, ServiceInvariance, PTL DEF ServiceSpec

\* An Update that is alone brings about one thing after the other.
LEMMA ProgressInvariance == ServiceSpec => [](Progress /\ RegistryOnly)
<1>1. ServiceInit => Progress /\ RegistryOnly
  BY ServiceInitInv DEF ServiceInit, UpdInit, Progress, RegistryOnly, HasLookedUp, BeforeLookup
<1>2. ServiceInv /\ ServiceInv' /\ Progress /\ RegistryOnly /\ [ServiceNext]_serviceVars
        => Progress' /\ RegistryOnly'
  BY ProgressStep
<1>3. QED
  BY <1>1, <1>2, ServiceInvariance, PTL DEF ServiceSpec

\* An Update that reported success (update_registry_server_instance.go:197,
\* update_config_server_instance.go:66) and was alone has taken hold: the
\* instances run, as many as asked for, with the environment it stored, for any
\* number of calls around it and any faults.
THEOREM UpdateTakesHoldHolds == ServiceSpec => []UpdateTakesHold
<1>1. Progress => UpdateTakesHold
  BY DEF Progress, UpdateTakesHold, HasLookedUp, BeforeLookup, UpdAt, AfterStoring,
    AfterCounting, AfterPeers, AfterRestart, GroupsOf
<1>2. QED
  BY <1>1, ProgressInvariance, PTL

\* The credentials of a Bind stay good (bind.go:71-79), and an Unbind stays
\* final (unbind.go:25-31), with Updates at work.
THEOREM ServiceCredentialsWork == ServiceSpec => []CredentialsWork
<1>1. BindInv => CredentialsWork
  BY DEF BindInv, BindOwnsClient, BindReadsOwnInstance, CredentialsWork, BindAt
<1>2. QED
  BY <1>1, ServiceInvariance, PTL

\* An Unbind whose deletion UAA confirmed (unbind.go:25-31) is final, with
\* Updates at work.
THEOREM ServiceUnbindFinal == ServiceSpec => []UnbindFinal
<1>1. ServiceInit => UnbindFinal
  BY UnbindsInit DEF ServiceInit, UnbindFinal, Unbound
<1>2. UnbindInv /\ BindInv' /\ UnbindFinal /\ [ServiceNext]_serviceVars => UnbindFinal'
  <2> SUFFICES ASSUME UnbindInv, BindInv', UnbindFinal, [ServiceNext]_serviceVars
               PROVE  UnbindFinal'
    OBVIOUS
  <2>1. CASE [BrokerNext]_brokerVars
    BY <2>1, UnbindNextKeeps DEF BindInv, UnbindFinal, Unbound
  <2>2. CASE \E u \in Updates : UpdateHandler(u)
    BY <2>2 DEF UpdateHandler, bindVars, UnbindFinal, Clean
  <2>3. QED
    BY <2>1, <2>2, ServiceSteps
<1>3. QED
  BY <1>1, <1>2, ServiceInvariance, PTL DEF ServiceSpec

(***************************************************************************)
(* Without faults.                                                         *)
(***************************************************************************)
\* A valid call succeeds, an invalid one is refused.
LEMMA FaultlessReplies ==
  ASSUME Faults = {}
  PROVE  Replies(TRUE) = {"ok"} /\ Replies(FALSE) = {"error"}
BY DEF Replies

\* An application whose instance was not deprovisioned is nobody's to remove.
LEMMA NotRemoved ==
  ASSUME IInv, RoutesGoWithInstance, NEW p \in Provisions, ~Deprovisioned(NameOf[p])
  PROVE  /\ ~app[p].doomed /\ app[p].state # "deleted"
         /\ ~route[p].doomed /\ route[p].state # "deleted"
         /\ \A d \in Deprovisions : dep[d].guid # p /\ p \notin dep[d].routes
<1> USE DEF IInv, Provisions
<1>1. \A d \in Deprovisions : dep[d].guid # p
  BY PlatformAssumption DEF HandlesOwnInstance, SameInstance, LookedUp, BeforeLookup,
    Deprovisioned
<1>2. QED
  BY <1>1 DEF DoomedByHandler, RoutesGoWithInstance

\* The calls of a goroutine before its route is mapped.
LEMMA UnroutedCalls ==
  /\ RunningPcs = RoutedCalls \cup StagingCalls
                    \cup {"begin", "domains", "createRoute", "mapRoute"}
  /\ RoutedCalls \cap (StagingCalls \cup {"begin", "domains", "createRoute", "mapRoute"}) = {}
  /\ StagingCalls \cap {"begin", "domains", "createRoute", "mapRoute"} = {}
  /\ {"idle", "done", "failed"} \cap RunningPcs = {}
  /\ {"startRetry", "startAgainRetry", "recoverRetry"} \subseteq RoutedCalls
BY DEF RoutedCalls, RunningPcs, StagingCalls, StartCalls, RestartCalls

\* A goroutine that is not deprovisioned gets through.
LEMMA GoroutineUnfailed ==
  ASSUME Faults = {}, IInv, IInv', NotBuiltYet, Unfailing, RoutesGoWithInstance,
         NEW p \in Provisions, ~Deprovisioned(NameOf[p]), Goroutine(p)
  PROVE  /\ Unfailed(p)'
         /\ prov'[p].pc = "failed" => At(p, "begin") /\ NameTaken(NameOf[p])
         /\ prov'[p].pc = "done" => Live(p)
<1> DEFINE g == prov[p].guid
<1> USE DEF IInv, TypeOK, PlatformTypeOK, ProvTypeOK, Provisions, Unfailed
<1>0. Unfailed(p) /\ p \in Guids
  BY DEF Unfailing
<1>1. \A step : Goto(p, step) => /\ prov'[p].pc = step /\ prov'[p].guid = g
                                 /\ prov'[p].url = prov[p].url
  BY DEF Goto, ProvRecord
<1>2. \A step : Proceed(p, "ok", step) => Goto(p, step)
  BY DEF Proceed
<1>3. Running(p)
  BY GoroutineMoves
<1>4. CASE At(p, "begin")
  <2>1. ~Live(p) /\ ~Exists(p)
    BY <1>0, <1>4 DEF NotBuiltYet, At, Live
  <2>2. CreateApplication(p)
    BY <1>4, <1>3, UnroutedCalls DEF Goroutine, GoroutineStep, StartInstances, Stage,
      GetDomains, CreateRoute, MapRoute, UpdateApplicationStart, UpdateApplicationRestart,
      ScaleRegistryServer, PollScale, ReadPeers, PatchRegistryParams,
      UpdateRegistryEnvironment, ReadPeersAgain, PushPeers, MonitorApplicationStartup, At,
      StagingCalls, StartCalls, RestartCalls
  <2>3. route' = route
    BY <2>2 DEF CreateApplication
  <2>4. CASE NameTaken(NameOf[p])
    <3>1. app' = app /\ prov'[p].pc = "failed"
      BY <2>2, <2>4, <1>1, FaultlessReplies DEF CreateApplication, TakesEffect
    <3>2. QED
      BY <1>4, <2>1, <2>3, <2>4, <3>1, UnroutedCalls DEF Running, Live, Exists
  <2>5. CASE ~NameTaken(NameOf[p])
    <3>1. /\ app' = CreatedApp(p)
          /\ \E n : prov' = [prov EXCEPT ![p].pc = "environment", ![p].guid = p, ![p].count = n]
      BY <2>2, <2>5, FaultlessReplies DEF CreateApplication, TakesEffect
    <3>2. app'[p].state = "stopped"
      BY <1>0, <3>1 DEF CreatedApp, AppRecord
    <3>3. prov'[p].pc = "environment" /\ prov'[p].guid = p
      BY <3>1 DEF ProvRecord
    <3>4. "environment" \in StagingCalls
      BY DEF StagingCalls
    <3>5. QED
      BY <1>0, <2>1, <2>3, <3>2, <3>3, <3>4, UnroutedCalls DEF Running, Live, Exists, IsStarted
  <2>6. QED
    BY <2>4, <2>5
<1>5. CASE ~At(p, "begin")
  <2>1. g = p /\ Live(p)
    BY <1>0, <1>3, <1>5
  <2>2. CASE Stage(p)
    <3>1. /\ app' = StagingEffect(prov[p].pc, p, p)
          /\ Goto(p, AfterStaging(prov[p].pc))
          /\ route' = route /\ prov[p].pc \in StagingCalls
      BY <1>2, <2>1, <2>2, FaultlessReplies DEF Stage, TakesEffect
    <3>2. app'[p].state = app[p].state
      BY <1>0, <3>1 DEF StagingEffect, PatchedEnv, DropletSet, AppRecord
    <3>3. ~Exists(p)
      BY <1>0, <1>3, <3>1, UnroutedCalls
    <3>4. \/ AfterStaging(prov[p].pc) \in StagingCalls
          \/ AfterStaging(prov[p].pc) = "domains" /\ prov[p].pc = "droplet"
      BY <3>1 DEF AfterStaging, StagingCalls
    <3>5. prov[p].pc = "droplet" => app'[p].droplet
      BY <1>0, <3>1 DEF StagingEffect, DropletSet, AppRecord
    <3>6. QED
      BY <1>0, <1>1, <2>1, <3>1, <3>2, <3>3, <3>4, <3>5, UnroutedCalls
        DEF Running, Live, Exists, IsStarted
  <2>3. CASE GetDomains(p)
    <3>1. Goto(p, "createRoute") /\ UNCHANGED <<app, route>> /\ prov[p].pc = "domains"
      BY <1>2, <2>3, FaultlessReplies DEF GetDomains, At
    <3>2. QED
      BY <1>0, <1>1, <2>1, <3>1, UnroutedCalls DEF Running, Live, Exists, IsStarted
  <2>4. CASE CreateRoute(p)
    <3>1. ~HostTaken(NameOf[p])
      <4>1. ~Exists(p)
        BY <1>0, <1>3, <2>4, UnroutedCalls DEF CreateRoute, At
      <4>2. ASSUME NEW r \in Guids, Exists(r), NameOf[r] = NameOf[p] PROVE FALSE
        <5>1. Live(r)
          BY <4>2 DEF Unfailing, Deprovisioned
        <5>2. QED
          BY <2>1, <4>1, <4>2, <5>1 DEF UniqueName
      <4>3. QED
        BY <4>2 DEF HostTaken
    <3>2. /\ app' = app /\ route' = CreatedRoute(p) /\ prov[p].pc = "createRoute"
          /\ prov' = [prov EXCEPT ![p].pc = "mapRoute", ![p].url = p]
      BY <2>4, <3>1, FaultlessReplies DEF CreateRoute, TakesEffect, At
    <3>3. prov'[p].pc = "mapRoute" /\ prov'[p].url = p /\ prov'[p].guid = p
      BY <2>1, <3>2 DEF ProvRecord
    <3>4. Exists(p)'
      BY <1>0, <3>2 DEF CreatedRoute, RouteRecord, Exists
    <3>5. QED
      BY <1>0, <2>1, <3>2, <3>3, <3>4, UnroutedCalls DEF Running, Live, IsStarted
  <2>5. CASE MapRoute(p)
    <3>1. prov[p].pc = "mapRoute" /\ prov[p].url = p /\ Exists(p)
      BY <1>0, <2>5 DEF MapRoute, At
    <3>2. /\ app' = app /\ route' = MappedRoute(p, p)
          /\ Goto(p, IF IsRegistry(NameOf[p]) THEN "start" ELSE "restart")
      BY <1>2, <2>1, <2>5, <3>1, FaultlessReplies DEF MapRoute, TakesEffect
    <3>3. route'[p].dest = p /\ Exists(p)'
      BY <1>0, <3>1, <3>2 DEF MappedRoute, RouteRecord, Exists
    <3>4. prov'[p].pc \in {"start", "restart"} /\ prov'[p].guid = p /\ prov'[p].url = p
      BY <1>1, <2>1, <3>1, <3>2
    <3>5. QED
      BY <1>0, <2>1, <3>1, <3>2, <3>3, <3>4, UnroutedCalls, RoutedCallsAre
        DEF Running, Live, IsStarted, StartCalls, RestartCalls
  <2>6. CASE UpdateApplicationStart(p) \/ UpdateApplicationRestart(p)
    <3>1. prov[p].pc \in RoutedCalls
      BY <2>6, RoutedCallsAre DEF UpdateApplicationStart, UpdateApplicationRestart
    <3>2. Startable(p)
      BY <1>0, <2>1, <3>1 DEF Startable
    <3>3. /\ app' \in {StartedApp(p), RestartedApp(p)} /\ route' = route
          /\ Goto(p, AfterStart(p))
      BY <1>2, <2>1, <2>6, <3>2, FaultlessReplies DEF UpdateApplicationStart,
        UpdateApplicationRestart, TakesEffect
    <3>4. app'[p].state = "started" /\ app'[p].droplet = app[p].droplet
      BY <1>0, <3>3 DEF StartedApp, RestartedApp, IsStarted, AppRecord
    <3>5. AfterStart(p) \in (RoutedCalls \cup {"done"}) \ (StartCalls \cup RestartCalls)
      BY RoutedCallsAre DEF AfterStart, StartCalls, RestartCalls
    <3>6. QED
      BY <1>0, <1>1, <2>1, <3>1, <3>3, <3>4, <3>5, UnroutedCalls
        DEF Running, Live, Exists, IsStarted, Complete, At, StartCalls, RestartCalls
  <2>7. CASE ~(\/ Stage(p) \/ GetDomains(p) \/ CreateRoute(p) \/ MapRoute(p)
               \/ UpdateApplicationStart(p) \/ UpdateApplicationRestart(p))
    <3>1. prov[p].pc \in RoutedCalls \ (StartCalls \cup RestartCalls)
      BY <1>5, <2>7, RoutedCallsAre DEF Goroutine, GoroutineStep, StartInstances,
        CreateApplication, ScaleRegistryServer, PollScale, ReadPeers, PatchRegistryParams,
        UpdateRegistryEnvironment, ReadPeersAgain, PushPeers, MonitorApplicationStartup, At,
        StartCalls, RestartCalls
    <3>2. IsStarted(p)
      BY <1>0, <3>1 DEF StartCalls, RestartCalls
    <3>3. \E step \in (RoutedCalls \cup {"done"}) \ RestartCalls : Goto(p, step)
      BY <1>2, <1>5, <2>1, <2>7, <3>2, FaultlessReplies, RoutedCallsAre DEF Goroutine,
        GoroutineStep, StartInstances, CreateApplication, ScaleRegistryServer, PollScale,
        ReadPeers, PatchRegistryParams, UpdateRegistryEnvironment, ReadPeersAgain, PushPeers,
        MonitorApplicationStartup, At, StartCalls, RestartCalls
    <3>4. route' = route
      BY <1>5, <2>7 DEF Goroutine, GoroutineStep, StartInstances, CreateApplication,
        ScaleRegistryServer, PollScale, ReadPeers, PatchRegistryParams,
        UpdateRegistryEnvironment, ReadPeersAgain, PushPeers, MonitorApplicationStartup
    <3>5. \/ app' \in {app, ScaledApp(p, prov[p].count)}
          \/ \E groups : app' = PatchedEnv(p, groups, p)
      BY <1>5, <2>1, <2>7 DEF Goroutine, GoroutineStep, StartInstances,
        CreateApplication, ScaleRegistryServer, PollScale, ReadPeers, PatchRegistryParams,
        UpdateRegistryEnvironment, ReadPeersAgain, PushPeers, MonitorApplicationStartup
    <3>6. app'[p].state = "started" /\ app'[p].droplet = app[p].droplet
      BY <1>0, <3>2, <3>5 DEF ScaledApp, PatchedEnv, IsStarted, AppRecord
    <3>7. QED
      BY <1>0, <1>1, <2>1, <3>1, <3>2, <3>3, <3>4, <3>6, UnroutedCalls
        DEF Running, Live, Exists, IsStarted, Complete, RestartCalls
  <2>8. QED
    BY <2>2, <2>3, <2>4, <2>5, <2>6, <2>7
<1>6. QED
  BY <1>4, <1>5

\* What a step does not touch does not fail.
LEMMA UntouchedUnfailed ==
  ASSUME NEW p \in Provisions, Unfailed(p),
         prov'[p] = prov[p], route'[p].state = route[p].state, route'[p].dest = route[p].dest,
         app'[p].droplet = app[p].droplet,
         \/ app'[p].state = app[p].state
         \/ Live(p) /\ app'[p].state = "started"
  PROVE  Unfailed(p)'
BY DEF Unfailed, Running, Live, Exists, IsStarted, Complete, At, Provisions

\* Once asked to go, always asked to go.
LEMMA DeprovisionedStays ==
  ASSUME DepTypeOK, [Next]_vars \/ \E u \in Updates : UpdateHandler(u)
  PROVE  /\ \A d \in Deprovisions : dep[d].pc # "idle" => dep'[d].pc # "idle"
         /\ \A n : Deprovisioned(n) => Deprovisioned(n)'
<1>1. ASSUME NEW d \in Deprovisions, dep[d].pc # "idle" PROVE dep'[d].pc # "idle"
  <2>1. CASE \E e \in Deprovisions : DeprovisionCall(e)
    BY <1>1, <2>1 DEF DeprovisionCall, Deprovision, DepGoto, DepTypeOK, DepRecord
  <2>2. CASE \E e \in Deprovisions : Handler(e)
    BY <1>1, <2>2 DEF Handler, HandlerStep, GetApplicationByNameAndSpace,
      GetApplicationRoutes, UpdateApplicationStop, DeleteRoute, DeleteApplication, DepGoto,
      DepProceed, DepTypeOK, DepRecord
  <2>3. CASE Crash
    BY <1>1, <2>3 DEF Crash, DepTypeOK, DepRecord
  <2>4. CASE dep' = dep
    BY <1>1, <2>4
  <2>5. QED
    BY <2>1, <2>2, <2>3, <2>4 DEF Next, LifecycleStep, ProvisionCall, Goroutine, Job, vars,
      UpdateHandler
<1>2. QED
  BY <1>1 DEF Deprovisioned

\* The routes a handler deletes are those of its instance.
LEMMA RoutesGoStep ==
  ASSUME IInv, UpdTypeOK, RoutesGoWithInstance,
         [Next]_vars \/ \E u \in Updates : UpdateHandler(u)
  PROVE  RoutesGoWithInstance'
<1> USE DEF IInv, TypeOK, PlatformTypeOK, Provisions
<1>1. ASSUME NEW d \in Deprovisions PROVE dep'[d].routes \subseteq {dep'[d].guid}
  <2>1. dep[d].routes \subseteq {dep[d].guid} /\ dep[d].routes \subseteq Guids
    BY DEF RoutesGoWithInstance, DepTypeOK, DepRecord
  <2>2. CASE GetApplicationRoutes(d)
    <3>1. RoutesOf(dep[d].guid) \subseteq {dep[d].guid}
      BY PlatformAssumption DEF RoutesOf, OwnRoutes, Live
    <3>2. QED
      BY <2>1, <2>2, <3>1 DEF GetApplicationRoutes, DepGoto, DepTypeOK, DepRecord
  <2>3. CASE GetApplicationByNameAndSpace(d)
    <3>1. dep[d].guid = NoGuid
      BY <2>3 DEF GetApplicationByNameAndSpace, DepAt, HandlesOwnInstance, LookedUp, BeforeLookup
    <3>2. dep[d].routes = {}
      BY <2>1, <3>1, PlatformAssumption
    <3>3. dep'[d].routes = {}
      BY <2>3, <3>2 DEF GetApplicationByNameAndSpace, DepGoto, DepTypeOK, DepRecord
    <3>4. QED
      BY <3>3
  <2>4. CASE UpdateApplicationStop(d) \/ DeleteRoute(d) \/ DeleteApplication(d)
    <3>1. dep'[d].guid = dep[d].guid /\ dep'[d].routes \subseteq dep[d].routes
      BY <2>4 DEF UpdateApplicationStop, DeleteRoute, DeleteApplication, DepProceed, DepGoto,
        DepTypeOK, DepRecord
    <3>2. QED
      BY <2>1, <3>1
  <2>5. CASE Deprovision(d) \/ Crash
    BY SMTT(30), <2>1, <2>5 DEF Deprovision, DepGoto, Crash, DepTypeOK, DepRecord
  <2>6. CASE \E e \in Deprovisions \ {d} : Deprovision(e) \/ HandlerStep(e)
    <3>1. dep'[d] = dep[d]
      BY <2>6 DEF Deprovision, HandlerStep, GetApplicationByNameAndSpace,
        GetApplicationRoutes, UpdateApplicationStop, DeleteRoute, DeleteApplication,
        DepProceed, DepGoto, DepTypeOK
    <3>2. QED
      BY <2>1, <3>1
  <2>7. CASE dep' = dep
    BY <2>1, <2>7
  <2>8. QED
    BY <2>2, <2>3, <2>4, <2>5, <2>6, <2>7 DEF Next, LifecycleStep, vars, Handler, HandlerStep,
      DeprovisionCall, ProvisionCall, Goroutine, Job, UpdateHandler
<1>2. \A n : Deprovisioned(n) => Deprovisioned(n)'
  BY DeprovisionedStays
<1>3. ASSUME NEW r \in Guids, route'[r].state = "deleted" \/ route'[r].doomed
      PROVE  Deprovisioned(NameOf[r])'
  <2>1. CASE route[r].state = "deleted" \/ route[r].doomed
    BY <1>2, <2>1 DEF RoutesGoWithInstance
  <2>2. CASE ~(route[r].state = "deleted" \/ route[r].doomed)
    <3>1. PICK d \in Deprovisions : DeleteRoute(d) /\ r \in dep[d].routes
      <4>1. CASE \E p \in Provisions : Goroutine(p)
        BY <1>3, <2>2, <4>1, GoroutineRoute
      <4>2. CASE \E d \in Deprovisions : DeleteRoute(d)
        <5>1. PICK d \in Deprovisions : DeleteRoute(d)
          BY <4>2
        <5>2. PICK x \in dep[d].routes : route' \in {route, DoomedRoute(x)}
          BY <5>1 DEF DeleteRoute
        <5>3. x = r
          BY <1>3, <2>2, <5>2 DEF DoomedRoute
        <5>4. QED
          BY <5>1, <5>2, <5>3
      <4>3. CASE Job
        BY <1>3, <2>2, <4>3 DEF Job, PlaceInstances, DeleteAppJob, DeleteRouteJob, RouteRecord
      <4>4. CASE route' = route
        BY <1>3, <2>2, <4>4
      <4>5. QED
        BY <4>1, <4>2, <4>3, <4>4, UpdateEffect DEF Next, LifecycleStep, vars, Handler,
          HandlerStep, GetApplicationByNameAndSpace, GetApplicationRoutes,
          UpdateApplicationStop, DeleteApplication, DeprovisionCall, Deprovision,
          ProvisionCall, Provision, Crash, UpdateHandler
    <3>2. r = dep[d].guid /\ dep[d].pc # "idle"
      BY <3>1 DEF RoutesGoWithInstance, DeleteRoute, DepAt
    <3>3. TargetOf[d] = NameOf[r]
      BY <3>2, PlatformAssumption DEF HandlesOwnInstance, SameInstance
    <3>4. QED
      BY <1>2, <3>2, <3>3 DEF Deprovisioned
  <2>3. QED
    BY <2>1, <2>2
<1>4. QED
  BY <1>1, <1>3 DEF RoutesGoWithInstance

\* Nobody disturbs a goroutine whose instance is not deprovisioned.
LEMMA UnfailingStep ==
  ASSUME Faults = {}, IInv, IInv', NotBuiltYet, UpdTypeOK, Unfailing, RoutesGoWithInstance,
         [Next]_vars \/ \E u \in Updates : UpdateHandler(u)
  PROVE  Unfailing'
<1> USE DEF IInv, TypeOK, PlatformTypeOK, ProvTypeOK, Provisions
<1>1. SUFFICES ASSUME NEW p \in Provisions, ~Deprovisioned(NameOf[p])'
               PROVE  Unfailed(p)'
  BY DEF Unfailing, Unfailed
<1>2. ~Deprovisioned(NameOf[p])
  BY <1>1, DeprovisionedStays
<1>3. Unfailed(p)
  BY <1>2 DEF Unfailing, Unfailed
<1>4. /\ ~app[p].doomed /\ ~route[p].doomed
      /\ \A d \in Deprovisions : dep[d].guid # p /\ p \notin dep[d].routes
  BY <1>2, NotRemoved
<1>5. CASE \E q \in Provisions : ProvisionCall(q)
  <2>1. PICK q \in Provisions : ProvisionCall(q)
    BY <1>5
  <2>2. UNCHANGED <<app, route>>
    BY <2>1 DEF ProvisionCall, Provision
  <2>3. CASE q # p
    BY <1>3, <2>1, <2>2, <2>3, UntouchedUnfailed DEF ProvisionCall, Provision, Goto
  <2>4. CASE q = p
    <3>1. prov[p].pc = "idle" /\ prov'[p].pc = "begin"
      BY <2>1, <2>4 DEF ProvisionCall, Provision, Goto, At, ProvRecord
    <3>2. ~Live(p) /\ ~Exists(p)
      BY <1>3, <3>1 DEF NotBuiltYet, Live, Unfailed
    <3>3. QED
      BY <2>2, <3>1, <3>2, UnroutedCalls DEF Unfailed, Running, Live, Exists, At
  <2>5. QED
    BY <2>3, <2>4
<1>6. CASE Goroutine(p)
  BY <1>2, <1>6, GoroutineUnfailed
<1>7. CASE \E q \in Provisions \ {p} : Goroutine(q)
  BY <1>3, <1>7, GoroutineMoves, GoroutineApp, GoroutineRoute, UntouchedUnfailed
<1>8. CASE \E d \in Deprovisions : Handler(d)
  <2>1. PICK d \in Deprovisions : Handler(d)
    BY <1>8
  <2>2. prov' = prov /\ app' \in {app, StoppedApp(dep[d].guid), DoomedApp(dep[d].guid)}
    BY <2>1 DEF Handler, HandlerStep, GetApplicationByNameAndSpace, GetApplicationRoutes,
      UpdateApplicationStop, DeleteRoute, DeleteApplication
  <2>3. app'[p] = app[p]
    BY <1>4, <2>2 DEF StoppedApp, DoomedApp
  <2>4. route' = route \/ \E r \in dep[d].routes : route' = DoomedRoute(r)
    BY <2>1 DEF Handler, HandlerStep, GetApplicationByNameAndSpace, GetApplicationRoutes,
      UpdateApplicationStop, DeleteRoute, DeleteApplication
  <2>5. route'[p] = route[p]
    BY <1>4, <2>4 DEF DoomedRoute
  <2>6. QED
    BY <1>3, <2>2, <2>3, <2>5, UntouchedUnfailed
<1>9. CASE Job
  <2>1. PICK x \in Guids : PlaceInstances(x) \/ DeleteAppJob(x) \/ DeleteRouteJob(x)
    BY <1>9 DEF Job
  <2>2. prov' = prov /\ route'[p] = route[p]
    BY <1>4, <1>9, <2>1 DEF Job, PlaceInstances, DeleteAppJob, DeleteRouteJob
  <2>3. app'[p].state = app[p].state /\ app'[p].droplet = app[p].droplet
    BY <1>4, <2>1 DEF PlaceInstances, DeleteAppJob, DeleteRouteJob, AppRecord
  <2>4. QED
    BY <1>3, <2>2, <2>3, UntouchedUnfailed
<1>10. CASE \E u \in Updates : UpdateHandler(u)
  <2>1. PICK u \in Updates : UpdateHandler(u)
    BY <1>10
  <2>2. prov' = prov /\ route' = route
    BY <2>1, UpdateEffect DEF UpdateHandler
  <2>3. /\ app'[p].droplet = app[p].droplet
        /\ \/ app'[p].state = app[p].state
           \/ Live(p) /\ app'[p].state = "started"
    BY <2>1, UpdateEffect DEF UpdateHandler
  <2>4. QED
    BY <1>3, <2>2, <2>3, UntouchedUnfailed
<1>11. CASE UNCHANGED <<app, route, prov>>
  BY <1>3, <1>11, UntouchedUnfailed
<1>12. CASE Crash
  <2>1. UNCHANGED <<app, route>>
    BY <1>12 DEF Crash
  <2>2. CASE ~Running(p)
    BY <1>3, <1>12, <2>1, <2>2, UntouchedUnfailed DEF Crash
  <2>3. CASE Running(p)
    <3>1. prov'[p].pc = "failed"
      BY <1>12, <2>3 DEF Crash, ProvRecord
    <3>2. QED
      BY <1>3, <2>1, <3>1, UnroutedCalls DEF Unfailed, Running, Live, Exists, At
  <2>4. QED
    BY <2>2, <2>3
<1>13. QED
  BY <1>5, <1>6, <1>7, <1>8, <1>9, <1>10, <1>11, <1>12 DEF Next, LifecycleStep,
    DeprovisionCall, Deprovision, vars

\* While its instance is not deprovisioned, an application that stands goes on
\* standing.
LEMMA StandsOn ==
  ASSUME ServiceInv, ServiceInv', NotBuiltYet, RoutesGoWithInstance',
         [ServiceNext]_serviceVars,
         NEW g \in Provisions, Live(g), ~Deprovisioned(NameOf[g])'
  PROVE  Live(g)'
<1> USE DEF ServiceInv, IInv, TypeOK, PlatformTypeOK, Provisions
<1>1. app'[g].state # "deleted"
  <2>1. ~app'[g].doomed
    BY PlatformAssumption DEF DoomedByHandler, HandlesOwnInstance, SameInstance, LookedUp,
      BeforeLookup, Deprovisioned
  <2>2. QED
    BY <2>1 DEF DoomedByHandler
<1>2. app[g] \in AppRecord /\ app'[g] \in AppRecord
  OBVIOUS
<1>3. PhaseOf(app[g]) # "absent"
  BY <1>2, PhaseCases DEF Live
<1>4. PhaseOf(app'[g]) # "absent"
  <2>1. Phase[g] = PhaseOf(app[g]) /\ Phase'[g] = PhaseOf(app'[g])
    BY DEF Phase
  <2>2. Phase \in [Guids -> {Phase[x] : x \in Guids}]
    BY DEF Phase
  <2>3. [Life!LifeNext]_(Life!lifeVars)
    BY ServiceStepLives
  <2>4. CASE Phase' = Phase
    BY <1>3, <2>1, <2>4
  <2>5. CASE \E x \in Guids : \E next \in {"idle", "running", "going", "gone"} :
               Phase' = [Phase EXCEPT ![x] = next]
    BY <1>3, <2>1, <2>2, <2>5
  <2>6. QED
    BY <2>3, <2>4, <2>5 DEF Life!LifeNext, Life!lifeVars, Life!Build, Life!Run, Life!Stop,
      Life!Condemn, Life!Vanish, Life!Ask, Life!Enter
<1>5. QED
  BY <1>1, <1>2, <1>4, PhaseCases DEF Live, AppRecord

\* Without faults a goroutine ends by its own step or with the process.
LEMMA OwnStep ==
  ASSUME TypeOK, OwnObjects, [ServiceNext]_serviceVars, NEW p \in Provisions,
         prov'[p].pc # prov[p].pc, prov'[p].pc # "begin"
  PROVE  Goroutine(p) \/ (ServiceCrash /\ prov'[p].pc = "failed")
<1> USE DEF TypeOK, ProvTypeOK
<1>1. CASE \E q \in Provisions : ProvisionCall(q)
  BY <1>1 DEF ProvisionCall, Provision, Goto, ProvRecord
<1>2. CASE \E q \in Provisions \ {p} : Goroutine(q)
  BY <1>2, GoroutineMoves
<1>3. CASE ServiceCrash
  BY <1>3 DEF ServiceCrash, BrokerCrash, Crash, ProvRecord
<1>4. CASE prov' = prov
  BY <1>4
<1>5. QED
  BY <1>1, <1>2, <1>3, <1>4 DEF ServiceNext, LifeStep, DeprovisionCall, Handler, Job,
    BindingStep, BindCall, BindHandler, UnbindCall, UnbindHandler, UpdateCall, UpdateHandler,
    serviceVars, brokerVars, vars

(***************************************************************************)
(* Ports.                                                                  *)
(***************************************************************************)
\* Only a goroutine's own steps change how many instances it builds, and only
\* one that builds several scales.
LEMMA ScalesRegistriesStep ==
  ASSUME TypeOK, OwnObjects, ScalesRegistries, [ServiceNext]_serviceVars
  PROVE  ScalesRegistries'
<1> USE DEF TypeOK, ProvTypeOK
<1>1. SUFFICES ASSUME NEW p \in Provisions
               PROVE  /\ Clustered(p)' => /\ IsRegistry(NameOf[p])
                                          /\ prov'[p].pc \notin {"idle", "begin"}
                      /\ prov'[p].pc \in {"scale", "pollScale"} => Clustered(p)'
                      /\ At(p, "restart")' => ~IsRegistry(NameOf[p])
  BY DEF ScalesRegistries, IsRegistry
<1>2. /\ Clustered(p) => IsRegistry(NameOf[p]) /\ prov[p].pc \notin {"idle", "begin"}
      /\ prov[p].pc \in {"scale", "pollScale"} => Clustered(p)
      /\ At(p, "restart") => ~IsRegistry(NameOf[p])
  BY DEF ScalesRegistries
<1>3. \A step : Goto(p, step) => prov'[p].pc = step /\ prov'[p].count = prov[p].count
  BY DEF Goto, ProvRecord
<1>4. CASE \E q \in Provisions : ProvisionCall(q)
  BY <1>2, <1>4 DEF ProvisionCall, Provision, Goto, At, Clustered, ProvRecord
<1>5. CASE \E q \in Provisions \ {p} : Goroutine(q)
  BY <1>2, <1>5, GoroutineMoves DEF At, Clustered
<1>6. CASE Goroutine(p)
  <2>1. prov'[p].pc \notin {"idle", "begin"}
    BY <1>6, GoroutineMoves
  <2>2. prov'[p].count = prov[p].count
          /\ prov'[p].pc \notin {"scale", "pollScale", "restart"}
        => /\ Clustered(p)' => /\ IsRegistry(NameOf[p])
                               /\ prov'[p].pc \notin {"idle", "begin"}
           /\ prov'[p].pc \in {"scale", "pollScale"} => Clustered(p)'
           /\ At(p, "restart")' => ~IsRegistry(NameOf[p])
    BY <1>2, <2>1 DEF At, Clustered
  <2>3. CASE CreateApplication(p)
    <3>1. CASE Goto(p, "failed")
      BY <1>3, <2>2, <3>1
    <3>2. CASE ~Goto(p, "failed")
      <4>1. PICK n \in IF IsRegistry(NameOf[p]) THEN Counts ELSE {1} :
              prov' = [prov EXCEPT ![p].pc = "environment", ![p].guid = p, ![p].count = n]
        BY <2>3, <3>2 DEF CreateApplication
      <4>2. prov'[p].pc = "environment" /\ prov'[p].count = n
        BY <4>1 DEF ProvRecord
      <4>3. n > 1 => IsRegistry(NameOf[p])
        BY <4>1
      <4>4. QED
        BY <4>2, <4>3 DEF At, Clustered
    <3>3. QED
      BY <3>1, <3>2
  <2>4. CASE \/ StartInstances(p) \/ PollScale(p) \/ ReadPeers(p) \/ PushPeers(p)
             \/ MonitorApplicationStartup(p)
    <3>1. \E step \in {"failed", "done", "monitor", "recover", "registryParams", "peers"} :
            Goto(p, step)
      BY <2>4 DEF StartInstances, PollScale, ReadPeers, PushPeers, MonitorApplicationStartup
    <3>2. QED
      BY <1>3, <2>2, <3>1
  <2>5. CASE \/ GetDomains(p) \/ ReadPeersAgain(p) \/ PatchRegistryParams(p)
             \/ UpdateRegistryEnvironment(p)
    <3>1. \E step \in {"failed", "createRoute", "push", "registryEnv", "startAgain"} :
            Goto(p, step)
      BY <2>5 DEF GetDomains, ReadPeersAgain, PatchRegistryParams, UpdateRegistryEnvironment,
        Proceed
    <3>2. QED
      BY <1>3, <2>2, <3>1
  <2>6. CASE Stage(p)
    <3>1. \E step \in StagingCalls \cup {"domains", "failed"} : Goto(p, step)
      BY <2>6 DEF Stage, Proceed, AfterStaging, StagingCalls
    <3>2. QED
      BY <1>3, <2>2, <3>1 DEF StagingCalls
  <2>7. CASE CreateRoute(p)
    <3>1. Goto(p, "failed") \/ prov' = [prov EXCEPT ![p].pc = "mapRoute", ![p].url = p]
      BY <2>7 DEF CreateRoute
    <3>2. prov'[p].count = prov[p].count /\ prov'[p].pc \in {"failed", "mapRoute"}
      BY <1>3, <3>1 DEF ProvRecord
    <3>3. QED
      BY <2>2, <3>2
  <2>8. CASE MapRoute(p)
    <3>1. \E step \in {"failed", IF IsRegistry(NameOf[p]) THEN "start" ELSE "restart"} :
            Goto(p, step)
      BY <2>8 DEF MapRoute, Proceed
    <3>2. QED
      BY <1>2, <1>3, <2>1, <3>1 DEF At, Clustered
  <2>9. CASE ScaleRegistryServer(p)
    <3>1. Clustered(p) /\ \E step \in {"failed", "pollScale"} : Goto(p, step)
      BY <1>2, <2>9 DEF ScaleRegistryServer, Proceed, At
    <3>2. QED
      BY <1>2, <1>3, <2>1, <3>1 DEF At, Clustered
  <2>10. CASE UpdateApplicationStart(p) \/ UpdateApplicationRestart(p)
    <3>1. /\ AfterStart(p) \in {"scale", "registryParams", "peersAgain", "done"}
          /\ AfterStart(p) = "scale" => Clustered(p)
      BY DEF AfterStart
    <3>2. \/ \E step \in {"failed", AfterStart(p)} : Goto(p, step)
          \/ prov' = [prov EXCEPT ![p].pc = RetryOf(prov[p].pc), ![p].guid = NoGuid]
      BY <2>10 DEF UpdateApplicationStart, UpdateApplicationRestart, Proceed
    <3>3. /\ prov'[p].count = prov[p].count
          /\ prov'[p].pc \in {"failed", AfterStart(p), RetryOf(prov[p].pc)}
      BY <1>3, <3>2 DEF ProvRecord
    <3>4. RetryOf(prov[p].pc) \in {"startRetry", "startAgainRetry", "recoverRetry"}
      BY DEF RetryOf
    <3>5. QED
      BY <1>2, <2>1, <3>1, <3>3, <3>4 DEF At, Clustered
  <2>11. QED
    BY <1>6, <2>3, <2>4, <2>5, <2>6, <2>7, <2>8, <2>9, <2>10 DEF Goroutine, GoroutineStep
<1>7. CASE ServiceCrash
  BY <1>2, <1>7 DEF ServiceCrash, BrokerCrash, Crash, At, Clustered, ProvRecord
<1>8. CASE prov' = prov
  BY <1>2, <1>8 DEF At, Clustered
<1>9. QED
  BY <1>4, <1>5, <1>6, <1>7, <1>8 DEF ServiceNext, LifeStep, DeprovisionCall, Handler, Job,
    BindingStep, BindCall, BindHandler, UnbindCall, UnbindHandler, UpdateCall, UpdateHandler,
    serviceVars, brokerVars, vars

\* The lookup refuses a request without parameters.
LEMMA ParameterlessFailStep ==
  ASSUME UpdTypeOK, ParameterlessFail, [ServiceNext]_serviceVars
  PROVE  ParameterlessFail'
<1>1. SUFFICES ASSUME NEW u \in Parameterless
               PROVE  upd'[u].pc \in {"idle", "lookup", "failed"}
  BY DEF ParameterlessFail
<1>2. u \in Updates /\ upd[u].pc \in {"idle", "lookup", "failed"}
  BY UpdateAssumption DEF ParameterlessFail
<1>3. CASE UpdateHandler(u)
  <2>1. FindApplication(u)
    BY <1>2, <1>3 DEF UpdateHandler, UpdateStep, PlainCall, PlainCalls, CountProcesses,
      PollUpdateScale, ReadUpdatePeers, ReadFirstRoute, PushUpdate, UpdAt
  <2>2. CASE UpdGoto(u, "failed")
    BY <1>2, <2>2 DEF UpdGoto, UpdTypeOK, UpdRecord
  <2>3. CASE ~UpdGoto(u, "failed")
    <3>1. PICK g, n : upd' = [upd EXCEPT ![u].guid = g, ![u].count = n, ![u].pc = "failed"]
      BY <2>1, <2>3 DEF FindApplication
    <3>2. QED
      BY <1>2, <3>1 DEF UpdTypeOK, UpdRecord
  <2>4. QED
    BY <2>2, <2>3
<1>4. QED
  BY <1>2, <1>3, UpdOfOthers

\* What an Update has touched stays touched.
LEMMA TouchedStays ==
  ASSUME ServiceInv, [ServiceNext]_serviceVars, NEW u \in Updates, NEW p \in Provisions,
         HasTouched(u, p)
  PROVE  HasTouched(u, p)'
<1> USE DEF ServiceInv, ServiceTypeOK, HasTouched
<1>1. upd[u].guid \in Guids /\ upd[u].pc \notin BeforeLookup
  BY Kinds, PlatformAssumption DEF UpdatesOwnInstance, Provisions
<1>2. CASE ~UpdateHandler(u)
  BY <1>2, UpdOfOthers
<1>3. CASE UpdateHandler(u)
  <2>1. /\ UpdateStep(u) /\ ~UpdAt(u, "lookup")
        /\ upd[u].pc \notin {"environment", "updateApp", "processes", "scale"}
    BY <1>1, <1>3 DEF UpdateHandler, UpdAt, BeforeLookup
  <2>2. upd'[u].guid = upd[u].guid
    BY <2>1, UpdateGoesOn
  <2>3. upd'[u].pc = "failed" \/ Flow(u)
    BY <2>1, UpdateFlow
  <2>4. upd'[u].pc \notin {"environment", "updateApp", "processes", "scale"}
    BY <2>1, <2>3 DEF Flow
  <2>5. QED
    BY <2>2, <2>4
<1>4. QED
  BY <1>2, <1>3

\* A goroutine gets to the calls after its scaling one by one.
Onward(p) ==
  /\ ~Clustered(p)' => ~Clustered(p)
  /\ Clustered(p)' =>
       /\ At(p, "pollScale")' =>
            Clustered(p) /\ At(p, "pollScale") /\ prov'[p].count = prov[p].count
       /\ prov'[p].pc \in HasCounted => Clustered(p) /\ prov[p].pc \in HasCounted
       /\ prov'[p].pc \in PeersRead => Clustered(p) /\ prov[p].pc \in PeersRead

\* A step that takes nothing away keeps the ports.
LEMMA KeepPorts ==
  ASSUME NEW p \in Provisions, PortsOf(p), Onward(p),
         app'[p].instances = app[p].instances, HavePorts(p) => HavePorts(p)',
         \A u \in Updates : HasTouched(u, p) => HasTouched(u, p)',
         \A u \in Updates : \/ upd'[u] = upd[u]
                            \/ upd'[u].guid # p
                            \/ upd'[u].pc \notin {"pollScale", "peers"}
  PROVE  PortsOf(p)'
<1>1. \A us : LeftTo(p, us)' => LeftTo(p, us)
  BY DEF LeftTo
<1>2. LeftTo(p, {})' =>
        /\ ~Clustered(p)' => app'[p].instances = 1
        /\ Clustered(p)' /\ At(p, "pollScale")' => app'[p].instances = prov'[p].count
        /\ Clustered(p)' /\ prov'[p].pc \in HasCounted => HavePorts(p)'
  BY <1>1 DEF PortsOf, Onward
<1>3. ASSUME NEW u \in Updates, upd'[u].guid = p, LeftTo(p, {u})',
             Clustered(p)' => prov'[p].pc \in PeersRead
      PROVE  /\ UpdAt(u, "pollScale")' => HavePorts(p)' \/ app'[p].instances = upd'[u].count
             /\ UpdAt(u, "peers")' => HavePorts(p)'
  <2>1. SUFFICES ASSUME upd'[u] = upd[u]
                 PROVE  /\ UpdAt(u, "pollScale")' =>
                             HavePorts(p)' \/ app'[p].instances = upd'[u].count
                        /\ UpdAt(u, "peers")' => HavePorts(p)'
    BY <1>3 DEF UpdAt
  <2>2. upd[u].guid = p /\ LeftTo(p, {u}) /\ (Clustered(p) => prov[p].pc \in PeersRead)
    BY <1>1, <1>3, <2>1 DEF Onward
  <2>3. QED
    BY <2>1, <2>2 DEF PortsOf, UpdAt
<1>4. QED
  BY <1>2, <1>3 DEF PortsOf

\* Where a goroutine without faults keeps the ports as they are.
LEMMA GoroutineKeepsPorts ==
  ASSUME NEW p \in Provisions, PortsOf(p), Onward(p), upd' = upd,
         app'[p].instances = app[p].instances, HavePorts(p) => HavePorts(p)'
  PROVE  PortsOf(p)'
BY KeepPorts DEF HasTouched

\* Calls that leave the instances alone.
LEMMA SameInstances ==
  ASSUME PlatformTypeOK, NEW p \in Guids
  PROVE  /\ \A groups, w : app' = PatchedEnv(p, groups, w) =>
              app'[p].instances = app[p].instances /\ (HavePorts(p) => HavePorts(p)')
         /\ app' \in {app, DropletSet(p), StartedApp(p)} =>
              app'[p].instances = app[p].instances /\ (HavePorts(p) => HavePorts(p)')
BY DEF PatchedEnv, DropletSet, StartedApp, HavePorts, IsStarted, PlatformTypeOK, AppRecord

\* A goroutine reads ports only after it has waited for them.
LEMMA GoroutinePorts ==
  ASSUME Faults = {}, ServiceInv, ServiceInv', RegistryOnly, Faultless,
         NEW p \in Provisions, ~Deprovisioned(NameOf[p]), Goroutine(p), upd' = upd
  PROVE  PortsOf(p)'
<1> DEFINE pc == prov[p].pc
<1> USE DEF ServiceInv, IInv, TypeOK, PlatformTypeOK, ProvTypeOK, Provisions
<1>0. /\ Unfailed(p) /\ PortsOf(p) /\ p \in Guids
      /\ Clustered(p) => IsRegistry(NameOf[p]) /\ pc \notin {"idle", "begin"}
      /\ pc \in {"scale", "pollScale"} => Clustered(p)
      /\ pc = "restart" => ~IsRegistry(NameOf[p])
  BY DEF Faultless, Unfailing, PortsKept, ScalesRegistries, At
<1>1. \A step : Goto(p, step) => prov'[p].pc = step /\ prov'[p].count = prov[p].count
  BY DEF Goto, ProvRecord
<1>2. \A step : Proceed(p, "ok", step) => Goto(p, step)
  BY DEF Proceed
<1>3. \A step : prov'[p].pc = step /\ prov'[p].count = prov[p].count =>
        (Clustered(p)' <=> Clustered(p)) /\ (At(p, "pollScale")' <=> step = "pollScale")
  BY DEF Clustered, At
<1>4. \A step : /\ prov'[p].pc = step /\ prov'[p].count = prov[p].count
                /\ step # "pollScale"
                /\ Clustered(p) => /\ step \in HasCounted => pc \in HasCounted
                                   /\ step \in PeersRead => pc \in PeersRead
                => Onward(p)
  BY <1>3 DEF Onward
<1>5. Running(p)
  BY GoroutineMoves
<1>6. CASE At(p, "begin")
  <2>1. ~Clustered(p) /\ ~HavePorts(p)
    BY <1>0, <1>6 DEF Faultless, NotBuiltYet, At, HavePorts, IsStarted
  <2>2. CreateApplication(p)
    BY <1>5, <1>6, UnroutedCalls DEF Goroutine, GoroutineStep, StartInstances, Stage,
      GetDomains, CreateRoute, MapRoute, UpdateApplicationStart, UpdateApplicationRestart,
      ScaleRegistryServer, PollScale, ReadPeers, PatchRegistryParams,
      UpdateRegistryEnvironment, ReadPeersAgain, PushPeers, MonitorApplicationStartup, At,
      StagingCalls, StartCalls, RestartCalls
  <2>3. app'[p].instances = app[p].instances
    BY <1>0, <2>2 DEF CreateApplication, CreatedApp, AppRecord
  <2>4. prov'[p].pc \in {"environment", "failed"}
    <3>1. CASE Goto(p, "failed")
      BY <1>1, <3>1
    <3>2. CASE ~Goto(p, "failed")
      BY <2>2, <3>2 DEF CreateApplication, ProvRecord
    <3>3. QED
      BY <3>1, <3>2
  <2>5. Onward(p)
    BY <2>1, <2>4 DEF Onward, HasCounted, PeersRead, At
  <2>6. QED
    BY <1>0, <2>1, <2>3, <2>5, GoroutineKeepsPorts
<1>7. CASE ~At(p, "begin")
  <2>1. prov[p].guid = p /\ Live(p)
    BY <1>0, <1>5, <1>7 DEF Unfailed
  <2>2. CASE Stage(p)
    <3>1. app' = StagingEffect(pc, p, p) /\ Goto(p, AfterStaging(pc))
      BY <1>2, <2>1, <2>2, FaultlessReplies DEF Stage, TakesEffect
    <3>2. AfterStaging(pc) \in StagingCalls \cup {"domains"}
      BY DEF AfterStaging, StagingCalls
    <3>3. Onward(p)
      BY <1>1, <1>4, <3>1, <3>2 DEF StagingCalls, HasCounted, PeersRead
    <3>4. app' \in {app, DropletSet(p)} \/ \E groups : app' = PatchedEnv(p, groups, p)
      BY <3>1 DEF StagingEffect
    <3>5. app'[p].instances = app[p].instances /\ (HavePorts(p) => HavePorts(p)')
      BY <1>0, <3>4, SameInstances
    <3>6. QED
      BY <1>0, <3>3, <3>5, GoroutineKeepsPorts
  <2>3. CASE GetDomains(p) \/ CreateRoute(p) \/ MapRoute(p)
    <3>1. app' = app
      BY <2>3 DEF GetDomains, CreateRoute, MapRoute
    <3>2. /\ prov'[p].count = prov[p].count
          /\ prov'[p].pc \in {"failed", "createRoute", "mapRoute", "start", "restart"}
      <4>1. CASE CreateRoute(p)
        <5>1. Goto(p, "failed") \/ prov' = [prov EXCEPT ![p].pc = "mapRoute", ![p].url = p]
          BY <4>1 DEF CreateRoute
        <5>2. QED
          BY <1>1, <5>1 DEF ProvRecord
      <4>2. CASE GetDomains(p) \/ MapRoute(p)
        <5>1. \E step \in {"failed", "createRoute", "start", "restart"} : Goto(p, step)
          BY <4>2 DEF GetDomains, MapRoute, Proceed
        <5>2. QED
          BY <1>1, <5>1
      <4>3. QED
        BY <2>3, <4>1, <4>2
    <3>3. Onward(p)
      BY <1>4, <3>2 DEF HasCounted, PeersRead
    <3>4. QED
      BY <1>0, <3>1, <3>3, GoroutineKeepsPorts DEF HavePorts, IsStarted
  <2>4. CASE UpdateApplicationStart(p)
    <3>1. pc \in StartCalls /\ Startable(p)
      BY <1>0, <2>1, <2>4, RoutedCallsAre DEF UpdateApplicationStart, Unfailed, Startable
    <3>2. app' = StartedApp(p) /\ Goto(p, AfterStart(p))
      <4>1. PICK reply \in Replies(Startable(p)) :
              /\ app' = IF TakesEffect(reply) THEN StartedApp(p) ELSE app
              /\ reply = "ok" => Goto(p, AfterStart(p))
        BY <2>1, <2>4 DEF UpdateApplicationStart
      <4>2. reply = "ok"
        BY <3>1, <4>1, FaultlessReplies
      <4>3. QED
        BY <4>1, <4>2 DEF TakesEffect
    <3>3. \/ pc = "start" /\ AfterStart(p) = IF Clustered(p) THEN "scale" ELSE "registryParams"
          \/ pc = "startAgain" /\ AfterStart(p) = "peersAgain"
          \/ pc = "recover" /\ AfterStart(p) = "done"
      BY <3>1 DEF StartCalls, AfterStart
    <3>4. Onward(p)
      BY <1>1, <1>4, <3>2, <3>3 DEF HasCounted, PeersRead
    <3>5. QED
      BY <1>0, <3>2, <3>4, SameInstances, GoroutineKeepsPorts
  <2>5. CASE UpdateApplicationRestart(p)
    <3>1. pc = "restart" /\ ~IsRegistry(NameOf[p]) /\ ~Clustered(p)
      BY <1>0, <2>5 DEF UpdateApplicationRestart, Unfailed, RestartCalls
    <3>2. Goto(p, AfterStart(p)) /\ app' = RestartedApp(p)
      BY <1>0, <1>2, <2>1, <2>5, <3>1, FaultlessReplies, RoutedCallsAre
        DEF UpdateApplicationRestart, TakesEffect, Unfailed, Startable, RestartCalls
    <3>3. ~Clustered(p)' /\ app'[p].instances = app[p].instances
      BY <1>0, <1>1, <1>3, <3>1, <3>2 DEF RestartedApp, AppRecord
    <3>4. \A u \in Updates : upd[u].guid = p => ~UpdAt(u, "pollScale") /\ ~UpdAt(u, "peers")
      BY <3>1, PlatformAssumption DEF UpdatesOwnInstance, RegistryOnly, ForRegistry, UpdAt
    <3>5. QED
      BY <1>0, <3>1, <3>3, <3>4 DEF PortsOf, LeftTo, HasTouched, UpdAt
  <2>6. CASE ScaleRegistryServer(p)
    <3>1. Goto(p, "pollScale") /\ app' = ScaledApp(p, prov[p].count) /\ Clustered(p)
      BY <1>0, <1>2, <2>1, <2>6, FaultlessReplies DEF ScaleRegistryServer, TakesEffect, At
    <3>2. /\ prov'[p].pc = "pollScale" /\ prov'[p].count = prov[p].count /\ Clustered(p)'
          /\ app'[p].instances = prov'[p].count
      BY <1>0, <1>1, <1>3, <3>1 DEF ScaledApp, AppRecord
    <3>3. QED
      BY <3>2 DEF PortsOf, HasCounted, PeersRead
  <2>7. CASE PollScale(p)
    <3>1. /\ Goto(p, "peers") /\ app' = app /\ MayCount(p, prov[p].count)
          /\ Clustered(p) /\ pc = "pollScale"
      BY <1>0, <2>1, <2>7 DEF PollScale, At
    <3>2. prov'[p].pc = "peers" /\ Clustered(p)'
      BY <1>1, <1>3, <3>1
    <3>3. LeftTo(p, {})' => HavePorts(p)'
      BY <1>0, <3>1 DEF PortsOf, LeftTo, HasTouched, MayCount, HavePorts, IsStarted, At
    <3>4. QED
      BY <3>2, <3>3 DEF PortsOf, PeersRead, At
  <2>8. CASE ReadPeersAgain(p)
    <3>1. /\ Goto(p, "push") /\ app' = app /\ pc = "peersAgain"
          /\ Clustered(p) => HavePorts(p)
      BY <1>2, <2>1, <2>8, FaultlessReplies DEF ReadPeersAgain, At
    <3>2. CASE ~Clustered(p)
      <4>1. Onward(p)
        BY <1>1, <1>3, <3>1, <3>2 DEF Onward
      <4>2. QED
        BY <1>0, <3>1, <4>1, GoroutineKeepsPorts DEF HavePorts, IsStarted
    <3>3. CASE Clustered(p)
      <4>1. Clustered(p)' /\ ~At(p, "pollScale")' /\ HavePorts(p)'
        BY <1>1, <1>3, <3>1, <3>3 DEF HavePorts, IsStarted
      <4>2. QED
        BY <4>1 DEF PortsOf
    <3>4. QED
      BY <3>2, <3>3
  <2>9. CASE \/ ReadPeers(p) \/ PatchRegistryParams(p) \/ UpdateRegistryEnvironment(p)
             \/ PushPeers(p) \/ MonitorApplicationStartup(p)
    <3>1. \/ pc = "peers" /\ Goto(p, "registryParams")
          \/ pc = "registryParams" /\ Goto(p, "registryEnv")
          \/ pc = "registryEnv" /\ Goto(p, "startAgain")
          \/ pc \in {"push", "monitor"}
             /\ \E step \in {"monitor", "recover", "done"} : Goto(p, step)
      BY <1>2, <2>1, <2>9, FaultlessReplies DEF ReadPeers, PatchRegistryParams,
        UpdateRegistryEnvironment, PushPeers, MonitorApplicationStartup, At
    <3>2. Onward(p)
      BY <1>1, <1>4, <3>1 DEF HasCounted, PeersRead
    <3>3. app' = app \/ \E groups : app' = PatchedEnv(p, groups, p)
      BY <2>1, <2>9 DEF ReadPeers, PatchRegistryParams, UpdateRegistryEnvironment, PushPeers,
        MonitorApplicationStartup
    <3>4. app'[p].instances = app[p].instances /\ (HavePorts(p) => HavePorts(p)')
      BY <1>0, <3>3, SameInstances DEF HavePorts, IsStarted
    <3>5. QED
      BY <1>0, <3>2, <3>4, GoroutineKeepsPorts
  <2>10. QED
    BY <1>7, <2>2, <2>3, <2>4, <2>5, <2>6, <2>7, <2>8, <2>9 DEF Goroutine, GoroutineStep,
      StartInstances, CreateApplication
<1>8. QED
  BY <1>6, <1>7

\* Without faults a call of an Update that fails has no effect.
LEMMA FailedCall ==
  ASSUME Faults = {}, UpdTypeOK, NEW u \in Updates, UpdateStep(u), upd'[u].pc = "failed"
  PROVE  app' = app
<1>1. CASE PlainCall(u)
  <2>1. PICK reply \in {"ok", "error"} :
          /\ app' = IF TakesEffect(reply) THEN PlainEffect(u) ELSE app
          /\ UpdProceed(u, reply, AfterPlainCall(u))
    BY <1>1 DEF PlainCall, Replies
  <2>2. reply = "error"
    BY <2>1 DEF UpdProceed, UpdGoto, AfterPlainCall, UpdTypeOK, UpdRecord
  <2>3. QED
    BY <2>1, <2>2 DEF TakesEffect
<1>2. QED
  BY <1>1 DEF UpdateStep, FindApplication, CountProcesses, PollUpdateScale, ReadUpdatePeers,
    ReadFirstRoute, PushUpdate

\* An Update reads ports only after it, or the goroutine, has waited for them.
LEMMA UpdatePorts ==
  ASSUME Faults = {}, ServiceInv, NEW p \in Provisions, PortsOf(p),
         NEW u \in Updates, UpdateHandler(u),
         \A v \in Updates : HasTouched(v, p) => HasTouched(v, p)',
         u \in Parameterless => upd[u].pc \in {"idle", "lookup", "failed"}
  PROVE  PortsOf(p)'
<1> DEFINE pc == upd[u].pc
<1> USE DEF ServiceInv, IInv, TypeOK, PlatformTypeOK, ServiceTypeOK, Provisions
<1>1. /\ UpdateStep(u) /\ prov' = prov
      /\ \A v \in Updates \ {u} : upd'[v] = upd[v]
  BY UpdateMoves DEF UpdateHandler
<1>2. Onward(p)
  BY <1>1 DEF Onward, Clustered, At
<1>3. /\ app'[p].instances = app[p].instances
      /\ HavePorts(p) => HavePorts(p)'
      /\ upd'[u].guid # p \/ upd'[u].pc \notin {"pollScale", "peers"}
      => PortsOf(p)'
  BY <1>1, <1>2, KeepPorts
<1>4. app' = app => app'[p].instances = app[p].instances /\ (HavePorts(p) => HavePorts(p)')
  BY DEF HavePorts, IsStarted
<1>5. CASE upd'[u].pc = "failed"
  BY <1>1, <1>3, <1>4, <1>5, FailedCall
<1>6. CASE UpdAt(u, "lookup") /\ upd'[u].pc # "failed"
  <2>1. FindApplication(u)
    BY <1>1, <1>6 DEF UpdateStep, PlainCall, PlainCalls, CountProcesses,
      PollUpdateScale, ReadUpdatePeers, ReadFirstRoute, PushUpdate, UpdAt
  <2>2. app' = app
    BY <2>1 DEF FindApplication
  <2>3. upd'[u].pc = "environment"
    <3>1. ~UpdGoto(u, "failed")
      BY <1>6 DEF UpdGoto, UpdTypeOK, UpdRecord
    <3>2. PICK g \in Guids, n \in Counts, step \in {"failed", "environment"} :
            /\ Live(g) /\ NameOf[g] = UpdateTarget[u]
            /\ upd' = [upd EXCEPT ![u] =
                         [@ EXCEPT !.guid = g, !.count = n, !.pc = step]]
            /\ step = "failed" => u \in Parameterless
      BY <2>1, <3>1, FoundOrFailed
    <3>3. QED
      BY <1>6, <3>2 DEF UpdTypeOK, UpdRecord
  <2>4. QED
    BY <1>3, <1>4, <2>2, <2>3
<1>7. CASE ~UpdAt(u, "lookup") /\ upd'[u].pc # "failed"
  <2>1. Flow(u) /\ upd'[u].guid = upd[u].guid /\ upd'[u].count = upd[u].count
    BY <1>1, <1>7, UpdateFlow, UpdateGoesOn
  <2>2. CASE upd[u].guid # p
    <3>1. app'[p] = app[p]
      BY <1>1, <2>2, UpdateEffect
    <3>2. QED
      BY <1>3, <2>1, <2>2, <3>1 DEF HavePorts, IsStarted
  <2>3. CASE upd[u].guid = p /\ upd'[u].pc \in {"updateApp", "processes", "scale"}
    <3>1. app' = app \/ \E groups : app' = PatchedEnv(p, groups, u)
      BY <2>1, <2>3 DEF Flow
    <3>2. app'[p].instances = app[p].instances /\ (HavePorts(p) => HavePorts(p)')
      BY <1>4, <3>1, SameInstances
    <3>3. QED
      BY <1>3, <2>3, <3>2
  <2>4. CASE upd[u].guid = p /\ upd'[u].pc \notin {"updateApp", "processes", "scale"}
    <3>1. u \notin Parameterless
      BY <2>1 DEF Flow
    <3>2. HasTouched(u, p)'
      BY <2>1, <2>4, <3>1 DEF HasTouched, Flow
    <3>3. SUFFICES ASSUME LeftTo(p, {u})', Clustered(p) => prov[p].pc \in PeersRead
                   PROVE  /\ UpdAt(u, "pollScale")' =>
                               HavePorts(p)' \/ app'[p].instances = upd'[u].count
                          /\ UpdAt(u, "peers")' => HavePorts(p)'
      BY <1>1, <3>2 DEF PortsOf, LeftTo, Clustered
    <3>4. LeftTo(p, {u})
      BY <1>1, <3>3 DEF LeftTo, HasTouched
    <3>5. CASE UpdAt(u, "pollScale")'
      <4>1. app' = ScaledApp(p, upd[u].count)
        BY <2>1, <2>4, <3>5 DEF Flow, UpdAt
      <4>2. app'[p].instances = upd'[u].count
        BY <2>1, <4>1 DEF ScaledApp, AppRecord
      <4>3. QED
        BY <3>5, <4>2 DEF UpdAt
    <3>6. CASE UpdAt(u, "peers")'
      <4>1. HavePorts(p)
        <5>1. CASE pc = "processes"
          <6>1. LeftTo(p, {})
            BY <3>4, <5>1 DEF LeftTo, HasTouched
          <6>2. app[p].instances = upd[u].count /\ upd[u].count > 1
            BY <2>1, <2>4, <3>6, <5>1 DEF Flow, UpdAt
          <6>3. Clustered(p)
            BY <6>1, <6>2 DEF PortsOf
          <6>4. QED
            BY <3>3, <6>1, <6>3 DEF PortsOf, HasCounted
        <5>2. CASE pc = "pollScale"
          <6>1. MayCount(p, upd[u].count)
            BY <2>1, <2>4, <3>6, <5>2 DEF Flow, UpdAt
          <6>2. HavePorts(p) \/ app[p].instances = upd[u].count
            BY <2>4, <3>3, <3>4, <5>2 DEF PortsOf, UpdAt
          <6>3. QED
            BY <6>1, <6>2 DEF MayCount
        <5>3. QED
          BY <2>1, <3>6, <5>1, <5>2 DEF Flow, UpdAt
      <4>2. app' = app
        BY <2>1, <3>6 DEF Flow, UpdAt
      <4>3. QED
        BY <3>6, <4>1, <4>2 DEF HavePorts, IsStarted, UpdAt
    <3>7. QED
      BY <3>5, <3>6
  <2>5. QED
    BY <2>2, <2>3, <2>4
<1>8. QED
  BY <1>5, <1>6, <1>7

\* Nobody takes ports away but Updates and Deprovisions.
LEMMA PortsStep ==
  ASSUME Faults = {}, ServiceInv, ServiceInv', RegistryOnly, Faultless,
         [ServiceNext]_serviceVars
  PROVE  PortsKept'
<1> USE DEF ServiceInv, IInv, TypeOK, PlatformTypeOK, ProvTypeOK, Provisions
<1>1. SUFFICES ASSUME NEW p \in Provisions, ~Deprovisioned(NameOf[p])'
               PROVE  PortsOf(p)'
  BY DEF PortsKept, PortsOf, Deprovisioned
<1>2. ~Deprovisioned(NameOf[p])
  BY <1>1, ServiceSteps, BrokerStepRefines, DeprovisionedStays
<1>3. PortsOf(p)
  BY <1>2 DEF Faultless, PortsKept
<1>4. /\ ~app[p].doomed
      /\ \A d \in Deprovisions : dep[d].guid # p
  BY <1>2, NotRemoved DEF Faultless
<1>5. \A u \in Updates : HasTouched(u, p) => HasTouched(u, p)'
  BY TouchedStays
<1>6. /\ \/ prov'[p] = prov[p]
         \/ prov'[p].pc \in {"begin", "failed"} /\ prov'[p].count = prov[p].count
      /\ app'[p].instances = app[p].instances
      /\ HavePorts(p) => HavePorts(p)'
      /\ \A u \in Updates : \/ upd'[u] = upd[u]
                            \/ upd'[u].guid # p
                            \/ upd'[u].pc \notin {"pollScale", "peers"}
      => PortsOf(p)'
  <2>1. \/ prov'[p] = prov[p]
        \/ prov'[p].pc \in {"begin", "failed"} /\ prov'[p].count = prov[p].count
        => Onward(p)
    BY DEF Onward, Clustered, At, HasCounted, PeersRead
  <2>2. QED
    BY <1>3, <1>5, <2>1, KeepPorts
<1>7. app'[p] = app[p] => app'[p].instances = app[p].instances /\ (HavePorts(p) => HavePorts(p)')
  BY DEF HavePorts, IsStarted
<1>8. CASE \E q \in Provisions : ProvisionCall(q) /\ upd' = upd
  <2>1. /\ app' = app
        /\ \/ prov'[p] = prov[p]
           \/ prov'[p].pc = "begin" /\ prov'[p].count = prov[p].count
    BY <1>8 DEF ProvisionCall, Provision, Goto, ProvRecord
  <2>2. QED
    BY <1>6, <1>7, <1>8, <2>1
<1>9. CASE Goroutine(p) /\ upd' = upd
  BY <1>2, <1>9, GoroutinePorts
<1>10. CASE \E q \in Provisions \ {p} : Goroutine(q) /\ upd' = upd
  BY <1>6, <1>7, <1>10, GoroutineMoves, GoroutineApp
<1>11. CASE \E d \in Deprovisions : Handler(d) /\ upd' = upd
  <2>1. PICK d \in Deprovisions : Handler(d)
    BY <1>11
  <2>2. prov' = prov /\ app' \in {app, StoppedApp(dep[d].guid), DoomedApp(dep[d].guid)}
    BY <2>1 DEF Handler, HandlerStep, GetApplicationByNameAndSpace, GetApplicationRoutes,
      UpdateApplicationStop, DeleteRoute, DeleteApplication
  <2>3. app'[p] = app[p]
    BY <1>4, <2>2 DEF StoppedApp, DoomedApp
  <2>4. QED
    BY <1>6, <1>7, <1>11, <2>2, <2>3
<1>12. CASE Job /\ upd' = upd
  <2>1. PICK x \in Guids : PlaceInstances(x) \/ DeleteAppJob(x) \/ DeleteRouteJob(x)
    BY <1>12 DEF Job
  <2>2. app'[p].instances = app[p].instances /\ (HavePorts(p) => HavePorts(p)')
    BY <1>4, <2>1 DEF PlaceInstances, DeleteAppJob, DeleteRouteJob, HavePorts, IsStarted,
      AppRecord
  <2>3. QED
    BY <1>6, <1>12, <2>2 DEF Job
<1>13. CASE \E u \in Updates : UpdateCall(u)
  <2>1. /\ app' = app /\ prov' = prov
        /\ \A u \in Updates : upd'[u] = upd[u] \/ upd'[u].pc = "lookup"
    BY <1>13 DEF UpdateCall, Update, UpdGoto, ServiceTypeOK, UpdTypeOK, UpdRecord
  <2>2. QED
    BY <1>6, <1>7, <2>1
<1>14. CASE \E u \in Updates : UpdateHandler(u)
  <2>1. PICK u \in Updates : UpdateHandler(u)
    BY <1>14
  <2>2. u \in Parameterless => upd[u].pc \in {"idle", "lookup", "failed"}
    BY DEF Faultless, ParameterlessFail
  <2>3. QED
    BY <1>3, <1>5, <2>1, <2>2, UpdatePorts
<1>15. CASE ServiceCrash
  <2>1. /\ app' = app
        /\ \/ prov'[p] = prov[p]
           \/ prov'[p].pc = "failed" /\ prov'[p].count = prov[p].count
    BY <1>15 DEF ServiceCrash, BrokerCrash, Crash, ProvRecord
  <2>2. \A u \in Updates : upd'[u] = upd[u] \/ upd'[u].pc = "failed"
    BY <1>15 DEF ServiceCrash, ServiceTypeOK, UpdTypeOK, UpdRecord
  <2>3. QED
    BY <1>6, <1>7, <2>1, <2>2
<1>16. CASE UNCHANGED <<app, prov, upd>>
  BY <1>6, <1>7, <1>16
<1>17. QED
  BY <1>8, <1>9, <1>10, <1>11, <1>12, <1>13, <1>14, <1>15, <1>16 DEF ServiceNext, LifeStep,
    DeprovisionCall, Deprovision, BindingStep, BindCall, BindHandler, UnbindCall,
    UnbindHandler, serviceVars, brokerVars, vars

\* Without faults the process ends only where a goroutine reads ports that
\* somebody has taken away.
LEMMA EndsPerishing ==
  ASSUME Faults = {}, Faultless, ServiceCrash
  PROVE  Perishing
<1>1. PICK q \in Provisions : LacksPorts(q)
  BY DEF ServiceCrash, BrokerCrash, Crash, MayPanic
<1>2. SUFFICES ASSUME ~Deprovisioned(NameOf[q])
               PROVE  \E u \in Updates : HasTouched(u, q)
  BY <1>1 DEF Perishing
<1>3. Unfailed(q) /\ PortsOf(q)
  BY <1>2 DEF Faultless, Unfailing, PortsKept
<1>4. prov[q].guid = q
  BY <1>1, <1>3, UnroutedCalls DEF LacksPorts, Unfailed, Running, At, RunningPcs
<1>5. Clustered(q) /\ prov[q].pc \in HasCounted /\ ~HavePorts(q)
  BY <1>1, <1>4 DEF LacksPorts, HasCounted
<1>6. QED
  BY <1>3, <1>5 DEF PortsOf, LeftTo

\* Only the lookup takes a Bind to its reading of the routes (bind.go:57-64).
LEMMA OnlyTheLookup ==
  ASSUME BindingTypeOK, NEW k \in Binds, BindStep(k), BindAt(k, "readRoutes")'
  PROVE  LookupApplication(k)
<1> USE DEF BindingTypeOK, BindRecord, BindAt, BindGoto
<1>1. ~CreateClient(k)
  BY DEF CreateClient, BindProceed
<1>2. ~GetRoot(k)
  BY DEF GetRoot, BindProceed
<1>3. ~BuildBindingCredentials(k)
  BY DEF BuildBindingCredentials
<1>4. QED
  BY <1>1, <1>2, <1>3 DEF BindStep

\* What a Bind has read from still stands, unless it was asked to go.
LEMMA BindsReadLiveStep ==
  ASSUME ServiceInv, ServiceInv', BindInv, BindInv', NotBuiltYet, RoutesGoWithInstance',
         BindsReadLive, [ServiceNext]_serviceVars
  PROVE  BindsReadLive'
<1> USE DEF ServiceInv, IInv, BindInv, BindingTypeOK
<1>1. SUFFICES ASSUME NEW k \in Binds, BindAt(k, "readRoutes")',
                      ~Deprovisioned(BindTarget[k])'
               PROVE  Live(bind[k].guid)'
  BY DEF BindsReadLive
<1>2. PICK g \in Provisions : g = bind'[k].guid /\ NameOf[g] = BindTarget[k]
  BY <1>1 DEF BindReadsOwnInstance, BindAt, Provisions
<1>3. ~Deprovisioned(BindTarget[k])
  <2>1. [Next]_vars \/ \E u \in Updates : UpdateHandler(u)
    BY ServiceSteps, BrokerStepRefines
  <2>2. QED
    BY <1>1, <2>1, DeprovisionedStays DEF TypeOK
<1>4. Live(g)
  <2> USE <1>1, <1>2 DEF BindAt
  <2>1. CASE LookupApplication(k)
    BY <2>1 DEF LookupApplication, BindGoto, BindRecord
  <2>2. CASE ~LookupApplication(k) /\ BindHandler(k)
    BY <2>2, OnlyTheLookup DEF BindHandler
  <2>3. CASE ServiceCrash
    <3>1. bind'[k].pc = IF bind[k].pc \in Binding THEN "failed" ELSE bind[k].pc
      BY <2>3 DEF ServiceCrash, BrokerCrash, BindRecord
    <3>2. QED
      BY <1>1, <3>1 DEF Binding
  <2>4. CASE BindCall(k)
    BY <1>1, <2>4 DEF BindCall, Bind, BindGoto, BindRecord
  <2>5. CASE \E j \in Binds \ {k} : BindCall(j) \/ BindHandler(j)
    <3>1. bind'[k] = bind[k]
      BY <2>5 DEF BindCall, Bind, BindHandler, BindStep, CreateClient, GetRoot,
        LookupApplication, BuildBindingCredentials, BindProceed, BindGoto
    <3>2. QED
      BY <1>1, <1>3, <3>1 DEF BindsReadLive, BindAt
  <2>6. CASE bind' = bind
    BY <1>1, <1>3, <2>6 DEF BindsReadLive, BindAt
  <2>7. QED
    BY <2>1, <2>2, <2>3, <2>4, <2>5, <2>6 DEF ServiceNext, LifeStep, bindVars, BindingStep,
      UnbindCall, Unbind, UnbindHandler, DeleteClient, UpdateCall, UpdateHandler,
      serviceVars, brokerVars
<1>5. Live(g)'
  BY <1>1, <1>2, <1>4, StandsOn
<1>6. QED
  BY <1>2, <1>5 DEF Live

\* Clients keep the secrets of their own Binds, and BindingLife its steps.
LEMMA ServiceLivesSecrets ==
  ASSUME BindInv, ClientsIssued, [ServiceNext]_serviceVars
  PROVE  ClientsIssued' /\ [Secrets!BindingLifeNext]_(Secrets!secretVars)
<1>1. CASE [BrokerNext]_brokerVars
  BY <1>1, BrokerLivesSecrets
<1>2. CASE \E u \in Updates : UpdateHandler(u)
  BY <1>2, NothingOfSecrets DEF UpdateHandler, bindVars, BindAt, ClientsIssued
<1>3. QED
  BY <1>1, <1>2, ServiceSteps

\* With Updates at work, too, the clients of UAA live the plain life that
\* BindingLife describes (bind.go:36-79, unbind.go:25).
THEOREM ServiceImplementsBindingLife == ServiceSpec => ImplementsBindingLife
<1>1. ServiceInit => Secrets!BindingLifeInit /\ ClientsIssued
  BY SecretsInit DEF ServiceInit
<1>2. QED
  BY <1>1, ServiceLivesSecrets, ServiceInvariance, PTL
    DEF ServiceSpec, ImplementsBindingLife, Secrets!BindingLifeSpec

\* Without faults nothing happens that the rest of Faultless does not foresee.
LEMMA FaultlessStep ==
  ASSUME Faults = {}, ServiceInv, ServiceInv', BindInv, BindInv', RegistryOnly, Faultless,
         [ServiceNext]_serviceVars
  PROVE  Faultless'
<1>1. [Next]_vars \/ \E u \in Updates : UpdateHandler(u)
  BY ServiceSteps, BrokerStepRefines
<1>2. NotBuiltYet' /\ Unfailing' /\ RoutesGoWithInstance'
  BY <1>1, ServiceStepLives, UnfailingStep, RoutesGoStep
    DEF Faultless, ServiceInv, ServiceTypeOK
<1>3. ClientsIssued' /\ BindsReadLive'
  BY <1>2, ServiceLivesSecrets, BindsReadLiveStep DEF Faultless
<1>4. ScalesRegistries' /\ ParameterlessFail' /\ PortsKept'
  BY ScalesRegistriesStep, ParameterlessFailStep, PortsStep
    DEF Faultless, ServiceInv, ServiceTypeOK, IInv
<1>5. QED
  BY <1>2, <1>3, <1>4 DEF Faultless

\* Without faults all this holds in every behaviour of the whole broker.
THEOREM FaultlessInvariance ==
  ASSUME Faults = {}
  PROVE  ServiceSpec => [](ServiceInv /\ BindInv /\ Faultless)
<1>1. ServiceInit => Faultless
  <2> SUFFICES ASSUME ServiceInit PROVE Faultless
    OBVIOUS
  <2>1. /\ \A p \in Provisions : /\ prov[p].pc = "idle" /\ prov[p].count = 1
                                 /\ app[p].instances = 1
                                 /\ ~Live(p) /\ ~Exists(p)
        /\ \A u \in Updates : upd[u].pc = "idle"
    BY DEF ServiceInit, BrokerInit, Init, ProvInit, PlatformInit, UpdInit, Live, Exists,
      Provisions
  <2>2. NotBuiltYet
    BY NotBuiltYetInit DEF ServiceInit, BrokerInit
  <2>3. Unfailing
    BY <2>1, UnroutedCalls DEF Unfailing, Unfailed, Running
  <2>4. ScalesRegistries /\ ParameterlessFail
    BY <2>1, UpdateAssumption DEF ScalesRegistries, ParameterlessFail, Clustered, At
  <2>5. PortsKept
    BY <2>1 DEF PortsKept, PortsOf, Clustered, UpdAt
  <2>6. RoutesGoWithInstance
    BY DEF ServiceInit, BrokerInit, Init, PlatformInit, DepInit, RoutesGoWithInstance
  <2>7. ClientsIssued /\ BindsReadLive
    BY SecretsInit DEF ServiceInit, BrokerInit, BindingInit, BindsReadLive, BindAt
  <2>8. QED
    BY <2>2, <2>3, <2>4, <2>5, <2>6, <2>7 DEF Faultless
<1>2. QED
  BY <1>1, FaultlessStep, ServiceInvariance, ProgressInvariance, PTL DEF ServiceSpec

\* A call of an Update on an application that stands fails only for want of the
\* droplet, of the route or of the ports.
LEMMA UpdateWants ==
  ASSUME Faults = {}, UpdTypeOK, NEW u \in Updates, UpdateStep(u), ~UpdAt(u, "lookup"),
         Live(upd[u].guid), app[upd[u].guid].droplet, RoutesOf(upd[u].guid) # {},
         UpdAt(u, "peers") => HavePorts(upd[u].guid)
  PROVE  upd'[u].pc # "failed"
<1> DEFINE g == upd[u].guid
<1>1. \A step : UpdGoto(u, step) => upd'[u].pc = step
  BY DEF UpdGoto, UpdTypeOK, UpdRecord
<1>2. \A step : UpdProceed(u, "ok", step) => upd'[u].pc = step
  BY <1>1 DEF UpdProceed
<1>3. Startable(g)
  BY DEF Startable
<1>4. CASE PlainCall(u)
  <2>1. UpdProceed(u, "ok", AfterPlainCall(u))
    BY <1>3, <1>4, FaultlessReplies DEF PlainCall
  <2>2. QED
    BY <1>2, <2>1 DEF AfterPlainCall
<1>5. CASE CountProcesses(u)
  <2>1. UpdProceed(u, "ok", IF app[g].instances # upd[u].count
                              THEN "scale" ELSE AfterScale(u))
    BY <1>5, FaultlessReplies DEF CountProcesses
  <2>2. QED
    BY <1>2, <2>1 DEF AfterScale
<1>6. CASE PollUpdateScale(u)
  BY <1>1, <1>6 DEF PollUpdateScale, AfterScale
<1>7. CASE ReadUpdatePeers(u)
  <2>1. UpdProceed(u, "ok", "registryParams")
    BY <1>7, FaultlessReplies DEF ReadUpdatePeers
  <2>2. QED
    BY <1>2, <2>1
<1>8. CASE ReadFirstRoute(u)
  <2>1. UpdGoto(u, IF upd[u].count > 1 THEN "push" ELSE "ok")
    BY <1>8, FaultlessReplies DEF ReadFirstRoute
  <2>2. QED
    BY <1>1, <2>1
<1>9. CASE PushUpdate(u)
  BY <1>1, <1>9 DEF PushUpdate
<1>10. QED
  BY <1>4, <1>5, <1>6, <1>7, <1>8, <1>9 DEF UpdateStep, FindApplication

\* An Update that fails has met what FailureExplained lists.
LEMMA FailureStep ==
  ASSUME Faults = {}, ServiceInv, Faultless, [ServiceNext]_serviceVars,
         NEW u \in Updates, UpdAt(u, "failed")', ~UpdAt(u, "failed"), Live(upd'[u].guid)
  PROVE  LET g == upd'[u].guid
         IN  \/ /\ ~At(g, "done")
                /\ ~app[g].droplet \/ RoutesOf(g) = {} \/ ~HavePorts(g)
             \/ ~HavePorts(g) /\ \E v \in Updates \ {u} : HasTouched(v, g)
             \/ Deprovisioned(UpdateTarget[u])
             \/ u \in Parameterless
             \/ Perishing
<1> USE DEF ServiceInv, ServiceTypeOK
<1>1. CASE ServiceCrash
  BY <1>1, EndsPerishing
<1>2. UpdateHandler(u) \/ ServiceCrash
  <2>1. SUFFICES ASSUME ~UpdateHandler(u), ~ServiceCrash PROVE FALSE
    OBVIOUS
  <2>2. CASE \E v \in Updates : UpdateCall(v)
    BY <2>2, UpdateMoves DEF UpdateCall, Update, UpdGoto, UpdAt, UpdTypeOK, UpdRecord
  <2>3. CASE \E v \in Updates : UpdateHandler(v)
    BY <2>1, <2>3, UpdateMoves DEF UpdateHandler, UpdAt
  <2>4. CASE LifeStep \/ BindingStep \/ UNCHANGED serviceVars
    BY <2>4 DEF LifeStep, BindingStep, serviceVars, UpdAt
  <2>5. QED
    BY <2>1, <2>2, <2>3, <2>4 DEF ServiceNext
<1>3. CASE FindApplication(u)
  <2>1. CASE UpdGoto(u, "failed")
    <3>1. upd[u].pc \in BeforeLookup
      BY <1>3 DEF FindApplication, UpdAt, BeforeLookup
    <3>2. upd[u].guid = NoGuid
      BY <3>1, Kinds DEF UpdatesOwnInstance
    <3>3. upd'[u].guid = upd[u].guid
      BY <2>1 DEF UpdGoto, UpdTypeOK, UpdRecord
    <3>4. QED
      BY <3>2, <3>3, PlatformAssumption DEF Live
  <2>2. CASE ~UpdGoto(u, "failed")
    <3>1. PICK g \in Guids, n \in Counts, step \in {"failed", "environment"} :
            /\ Live(g) /\ NameOf[g] = UpdateTarget[u]
            /\ upd' = [upd EXCEPT ![u] =
                         [@ EXCEPT !.guid = g, !.count = n, !.pc = step]]
            /\ step = "failed" => u \in Parameterless
      BY <1>3, <2>2, FoundOrFailed
    <3>2. QED
      BY <3>1 DEF UpdAt, UpdTypeOK, UpdRecord
  <2>3. QED
    BY <2>1, <2>2
<1>4. CASE UpdateHandler(u) /\ ~FindApplication(u)
  <2> DEFINE g == upd[u].guid
  <2>1. UpdateStep(u) /\ ~UpdAt(u, "lookup")
    BY <1>4 DEF UpdateHandler, UpdateStep, PlainCall, CountProcesses, PollUpdateScale,
      ReadUpdatePeers, ReadFirstRoute, PushUpdate, UpdAt, PlainCalls
  <2>2. upd'[u].guid = g
    BY <2>1, UpdateGoesOn
  <2>3. Live(g) /\ g \in Provisions /\ NameOf[g] = UpdateTarget[u]
    BY <2>2, PlatformAssumption DEF Live, UpdatesOwnInstance, Provisions
  <2>4. ~app[g].droplet \/ RoutesOf(g) = {} \/ (UpdAt(u, "peers") /\ ~HavePorts(g))
    BY <2>1, <2>3, UpdateWants DEF UpdAt
  <2>5. SUFFICES ASSUME At(g, "done"), ~Deprovisioned(UpdateTarget[u])
                 PROVE  ~HavePorts(g) /\ \E v \in Updates \ {u} : HasTouched(v, g)
    BY <2>2, <2>4
  <2>6. Unfailed(g) /\ PortsOf(g)
    BY <2>3, <2>5 DEF Faultless, Unfailing, PortsKept
  <2>7. Complete(g)
    BY <2>3, <2>5, <2>6, UnroutedCalls DEF Unfailed, Running, At
  <2>8. UpdAt(u, "peers") /\ ~HavePorts(g)
    BY <2>3, <2>4, <2>7 DEF Complete, RoutesOf, Provisions
  <2>9. ~LeftTo(g, {u})
    BY <2>5, <2>6, <2>8 DEF PortsOf, PeersRead, At
  <2>10. QED
    BY <2>8, <2>9 DEF LeftTo
<1>5. QED
  BY <1>1, <1>2, <1>3, <1>4

\* Without faults an Update that has found its application fails only because
\* its goroutine has not got to the droplet, the route or the ports
\* (update_registry_server_instance.go:140, 159 and 129), because another Update
\* has taken the ports away, because a Deprovision is taking everything away,
\* because the request had no parameters, or because the process ends.
THEOREM FailureExplainedHolds ==
  ASSUME Faults = {}
  PROVE  ServiceSpec => FailureExplained
<1>1. ServiceInv /\ Faultless /\ [ServiceNext]_serviceVars =>
        \A u \in Updates :
          LET g == upd'[u].guid
          IN  UpdAt(u, "failed")' /\ ~UpdAt(u, "failed") /\ Live(g) =>
                \/ /\ ~At(g, "done")
                   /\ ~app[g].droplet \/ RoutesOf(g) = {} \/ ~HavePorts(g)
                \/ ~HavePorts(g) /\ \E v \in Updates \ {u} : HasTouched(v, g)
                \/ Deprovisioned(UpdateTarget[u])
                \/ u \in Parameterless
                \/ Perishing
  BY FailureStep
<1>2. QED
  BY <1>1, FaultlessInvariance, PTL DEF ServiceSpec, FailureExplained

\* Without faults a goroutine (create_registry_server_instance.go:68-335) fails
\* only when another Provision of its instance has built the application, when
\* the instance is deprovisioned, or with the process; and the process ends only
\* because a goroutine reads entries without ports (lines 234 and 272) that an
\* Update or a Deprovision has left.
THEOREM ProvisionFailureExplainedHolds ==
  ASSUME Faults = {}
  PROVE  ServiceSpec => ProvisionFailureExplained
<1>1. ServiceInv /\ ServiceInv' /\ Faultless /\ [ServiceNext]_serviceVars =>
        \A p \in Provisions :
          At(p, "failed")' /\ ~At(p, "failed") =>
            \/ \E q \in Provisions \ {p} : NameOf[q] = NameOf[p] /\ Live(q)
            \/ Deprovisioned(NameOf[p])
            \/ Perishing
  <2> SUFFICES ASSUME ServiceInv, ServiceInv', Faultless, [ServiceNext]_serviceVars,
                      NEW p \in Provisions, At(p, "failed")', ~At(p, "failed"),
                      ~Deprovisioned(NameOf[p]), ~Perishing
               PROVE  \E q \in Provisions \ {p} : NameOf[q] = NameOf[p] /\ Live(q)
    OBVIOUS
  <2>1. Goroutine(p)
    BY OwnStep, EndsPerishing DEF At, ServiceInv, IInv
  <2>2. At(p, "begin") /\ NameTaken(NameOf[p])
    BY <2>1, GoroutineUnfailed DEF At, ServiceInv, Faultless
  <2>3. ~Live(p)
    BY <2>2 DEF Faultless, NotBuiltYet, At, Live
  <2>4. QED
    BY <2>2, <2>3 DEF NameTaken, Provisions
<1>2. QED
  BY <1>1, FaultlessInvariance, PTL DEF ServiceSpec, ProvisionFailureExplained

\* Without faults what a goroutine has finished serves, and goes on serving
\* whatever Updates do to it (update_registry_server_instance.go:140) and even if
\* the process ends, until its instance is deprovisioned.
THEOREM DoneServesHolds ==
  ASSUME Faults = {}
  PROVE  ServiceSpec => []DoneServes
<1>1. ServiceInit => DoneServes
  BY DEF ServiceInit, BrokerInit, Init, ProvInit, DoneServes, At
<1>2. ServiceInv /\ ServiceInv' /\ Faultless /\ Faultless' /\ DoneServes
        /\ [ServiceNext]_serviceVars => DoneServes'
  <2> SUFFICES ASSUME ServiceInv, ServiceInv', Faultless, Faultless', DoneServes,
                      [ServiceNext]_serviceVars,
                      NEW p \in Provisions, At(p, "done")', ~Deprovisioned(NameOf[p])'
               PROVE  Serving(p)'
    BY DEF DoneServes
  <2>1. ~Deprovisioned(NameOf[p])
    <3>1. [Next]_vars \/ \E u \in Updates : UpdateHandler(u)
      BY ServiceSteps, BrokerStepRefines
    <3>2. QED
      BY <3>1, DeprovisionedStays DEF ServiceInv, IInv, TypeOK
  <2>2. Live(p)
    <3>1. CASE At(p, "done")
      BY <2>1, <3>1 DEF DoneServes, Serving, IsStarted, Live
    <3>2. CASE ~At(p, "done")
      <4>1. Goroutine(p)
        BY <3>2, OwnStep DEF At, ServiceInv, IInv
      <4>2. QED
        BY <2>1, <4>1, GoroutineUnfailed DEF At, ServiceInv, Faultless
    <3>3. QED
      BY <3>1, <3>2
  <2>3. Live(p)'
    BY <2>2, StandsOn DEF Faultless
  <2>4. Unfailed(p)' /\ ~Running(p)' /\ ~At(p, "failed")'
    BY UnroutedCalls DEF Faultless, Unfailing, Unfailed, Running, At
  <2>5. QED
    BY <2>3, <2>4 DEF Unfailed, Complete, Serving
<1>3. QED
  BY <1>1, <1>2, FaultlessInvariance, PTL DEF ServiceSpec

\* Without faults a Bind (bind.go:36-74) fails only when its instance does not
\* serve, another Bind of its binding was made, the instance is deprovisioned, or
\* the process ends because a goroutine reads ports that are gone.
THEOREM BindFailureExplainedHolds ==
  ASSUME Faults = {}
  PROVE  ServiceSpec => BindFailureExplained
<1>1. ServiceInv /\ BindInv /\ Faultless /\ [ServiceNext]_serviceVars =>
        \A k \in Binds :
          BindAt(k, "failed")' /\ ~BindAt(k, "failed") =>
            \/ ~ServingName(BindTarget[k])
            \/ \E j \in Binds \ {k} : BindingOf[j] = BindingOf[k] /\ ~BindAt(j, "idle")
            \/ Deprovisioned(BindTarget[k])
            \/ Perishing
  <2> SUFFICES ASSUME ServiceInv, BindInv, Faultless, [ServiceNext]_serviceVars,
                      NEW k \in Binds, BindAt(k, "failed")', ~BindAt(k, "failed"),
                      NEW q \in Provisions, NameOf[q] = BindTarget[k], Serving(q),
                      ~Deprovisioned(BindTarget[k]), ~Perishing
               PROVE  \E j \in Binds \ {k} : BindingOf[j] = BindingOf[k] /\ ~BindAt(j, "idle")
    BY DEF ServingName
  <2> USE BindingAssumption DEF BindInv, BindingTypeOK, BindAt
  <2>1. \A step : BindGoto(k, step) => bind'[k].pc = step
    BY DEF BindGoto, BindRecord
  <2>2. Live(q) /\ q \in RoutesOf(q)
    BY DEF Serving, IsStarted, Live, Exists, RoutesOf, Provisions
  <2>3. BindHandler(k)
    <3>1. CASE BindCall(k)
      BY <2>1, <3>1 DEF BindCall, Bind
    <3>2. CASE \E j \in Binds \ {k} : BindCall(j) \/ BindHandler(j)
      BY <3>2 DEF BindCall, Bind, BindHandler, BindStep, CreateClient, GetRoot,
        LookupApplication, BuildBindingCredentials, BindProceed, BindGoto
    <3>3. CASE ServiceCrash
      BY <3>3, EndsPerishing
    <3>4. CASE bind' = bind
      BY <3>4
    <3>5. QED
      BY <3>1, <3>2, <3>3, <3>4 DEF ServiceNext, LifeStep, bindVars, BindingStep,
        UnbindCall, Unbind, UnbindHandler, DeleteClient, UpdateCall, UpdateHandler,
        serviceVars, brokerVars
  <2>4. CASE CreateClient(k)
    <3>1. client[BindingOf[k]] # NoSecret
      BY <2>1, <2>4, FaultlessReplies DEF CreateClient, BindProceed
    <3>2. /\ client[BindingOf[k]] \in Binds \ {k}
          /\ BindingOf[client[BindingOf[k]]] = BindingOf[k]
          /\ bind[client[BindingOf[k]]].pc # "idle"
      BY <2>4, <3>1 DEF CreateClient, Faultless, ClientsIssued
    <3>3. QED
      BY <3>2
  <2>5. CASE GetRoot(k)
    BY <2>1, <2>5, FaultlessReplies DEF GetRoot, BindProceed
  <2>6. CASE LookupApplication(k)
    <3>1. NameTaken(BindTarget[k])
      BY <2>2 DEF NameTaken, Provisions
    <3>2. QED
      BY <2>6, <3>1 DEF LookupApplication, BindRecord
  <2>7. CASE BuildBindingCredentials(k)
    <3>1. bind[k].pc = "readRoutes"
      BY <2>7 DEF BuildBindingCredentials
    <3>2. bind[k].guid = q
      BY <2>2, <3>1 DEF BindReadsOwnInstance, Faultless, BindsReadLive, ServiceInv, IInv,
        UniqueName, Provisions
    <3>3. QED
      BY <2>2, <2>7, <3>2 DEF BuildBindingCredentials, BindRecord
  <2>8. QED
    BY <2>3, <2>4, <2>5, <2>6, <2>7 DEF BindHandler, BindStep
<1>2. QED
  BY <1>1, FaultlessInvariance, PTL DEF ServiceSpec, BindFailureExplained

(***************************************************************************)
(* The order of the code, with Updates that restart what is not built yet. *)
(***************************************************************************)
\* An Update has hold of application p.
HasHold(p) == \E u \in Updates : upd[u].guid = p

AllInOrder == \A p \in Provisions : InOrder(p, HasHold(p))

\* What an Update has found it keeps.
LEMMA HoldStays ==
  ASSUME ServiceInv, [ServiceNext]_serviceVars, NEW p \in Provisions, HasHold(p)
  PROVE  HasHold(p)'
<1> USE DEF ServiceInv, ServiceTypeOK
<1>1. PICK u \in Updates : upd[u].guid = p
  BY DEF HasHold
<1>2. p # NoGuid
  BY PlatformAssumption DEF Provisions
<1>3. upd[u].pc \notin BeforeLookup
  BY <1>1, <1>2, Kinds DEF UpdatesOwnInstance
<1>4. upd'[u].guid = p
  <2>1. CASE \E v \in Updates : UpdateCall(v)
    BY <1>1, <2>1 DEF UpdateCall, Update, UpdGoto, UpdTypeOK, UpdRecord
  <2>2. CASE UpdateHandler(u)
    BY <1>1, <1>3, <2>2, UpdateGoesOn DEF UpdateHandler, BeforeLookup, UpdAt
  <2>3. CASE \E v \in Updates \ {u} : UpdateHandler(v)
    BY <1>1, <2>3, UpdateMoves DEF UpdateHandler
  <2>4. CASE ServiceCrash
    BY <1>1, <2>4 DEF ServiceCrash, UpdTypeOK, UpdRecord
  <2>5. CASE upd' = upd
    BY <1>1, <2>5
  <2>6. QED
    BY <2>1, <2>2, <2>3, <2>4, <2>5 DEF ServiceNext, LifeStep, BindingStep, serviceVars
<1>5. QED
  BY <1>4 DEF HasHold

\* What an Update writes into the environment is its own, and it starts only
\* what has a droplet, with what is stored by then.
LEMMA UpdateWrites ==
  ASSUME PlatformTypeOK, UpdTypeOK, NEW u \in Updates, UpdateStep(u),
         NEW g \in Guids, upd[u].guid = g
  PROVE  /\ app'[g].env["json"] \in {app[g].env["json"], u}
         /\ app'[g].state = "started" =>
              \/ app[g].state = "started" /\ app'[g].running = app[g].running
              \/ app[g].droplet /\ app'[g].running = app[g].env
<1> USE DEF PlatformTypeOK, AppRecord
<1>1. CASE app' = app
  BY <1>1
<1>2. CASE app' = ScaledApp(g, upd[u].count)
  BY <1>2 DEF ScaledApp
<1>3. CASE app' = PatchedEnv(g, Stores(u), u)
  BY <1>3 DEF PatchedEnv, EnvGroups
<1>4. CASE Startable(g) /\ app' = RestartedApp(g)
  BY <1>4 DEF RestartedApp, Startable
<1>5. QED
  BY <1>1, <1>2, <1>3, <1>4 DEF UpdateStep, FindApplication, CountProcesses, PollUpdateScale,
    ReadUpdatePeers, ReadFirstRoute, PushUpdate, PlainCall, PlainEffect, Replies, TakesEffect,
    UpdAt

\* A step of an Update keeps what the order of the goroutines' code says.
LEMMA UpdateInOrder ==
  ASSUME IInv, UpdTypeOK, NEW u \in Updates, UpdateHandler(u),
         NEW p \in Provisions, NEW held \in BOOLEAN, InOrder(p, held),
         upd[u].guid = p => held
  PROVE  InOrder(p, held)'
<1> USE DEF IInv, TypeOK, PlatformTypeOK, Provisions, InOrder, Running, IsStarted
<1>1. UNCHANGED <<route, prov>> /\ UpdateStep(u) /\ app'[p].droplet = app[p].droplet
  BY UpdateEffect DEF UpdateHandler
<1>2. CASE upd[u].guid # p
  <2>1. app'[p] = app[p]
    BY <1>1, <1>2, UpdateEffect
  <2>2. QED
    BY <1>1, <2>1
<1>3. CASE upd[u].guid = p
  <2>1. u # NoGuid
    BY PlatformAssumption, UpdateAssumption
  <2>2. /\ app'[p].env["json"] \in {app[p].env["json"], u}
        /\ app'[p].state = "started" =>
             \/ app[p].state = "started" /\ app'[p].running = app[p].running
             \/ app[p].droplet /\ app'[p].running = app[p].env
    BY <1>1, <1>3, UpdateWrites
  <2>3. QED
    BY <1>1, <1>3, <2>1, <2>2
<1>4. QED
  BY <1>2, <1>3

\* Every step does.
LEMMA AllInOrderStep ==
  ASSUME ServiceInv, ServiceInv', AllInOrder, [ServiceNext]_serviceVars
  PROVE  AllInOrder'
<1>1. SUFFICES ASSUME NEW p \in Provisions PROVE InOrder(p, HasHold(p))'
  BY DEF AllInOrder
<1>2. PICK held \in BOOLEAN : held <=> HasHold(p)
  BY Zenon
<1>3. InOrder(p, held)
  BY <1>2 DEF AllInOrder, InOrder
<1>4. InOrder(p, held)'
  <2>1. CASE [BrokerNext]_brokerVars
    BY <1>3, <2>1, InOrderStep, BrokerStepRefines DEF ServiceInv
  <2>2. CASE \E u \in Updates : UpdateHandler(u)
    BY <1>2, <1>3, <2>2, UpdateInOrder DEF ServiceInv, ServiceTypeOK, HasHold
  <2>3. QED
    BY <2>1, <2>2, ServiceSteps
<1>5. held => HasHold(p)'
  BY <1>2, HoldStays
<1>6. QED
  BY <1>4, <1>5 DEF InOrder

\* With Updates at work, too, and whatever fails, instances run only with the
\* environment the code wrote before it started them
\* (create_registry_server_instance.go:86); only an Update that has hold of the
\* application starts it before its route is mapped
\* (update_registry_server_instance.go:140).
THEOREM StartedConfiguredHolds == ServiceSpec => []StartedConfigured
<1>1. ServiceInit => AllInOrder
  BY NothingBegun DEF ServiceInit, BrokerInit, AllInOrder, InOrder, IsStarted
<1>2. ServiceInv /\ AllInOrder => StartedConfigured
  BY DEF AllInOrder, InOrder, HasHold, StartedConfigured, IsStarted, ServiceInv, IInv, TypeOK,
    OwnObjects, Provisions
<1>3. QED
  BY <1>1, <1>2, AllInOrderStep, ServiceInvariance, PTL DEF ServiceSpec
=============================================================================
