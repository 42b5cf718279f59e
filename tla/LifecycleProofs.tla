-------------------------- MODULE LifecycleProofs ---------------------------
(***************************************************************************)
(* Proofs about Lifecycle, for any number of instances and calls.          *)
(***************************************************************************)
EXTENDS Lifecycle, TLAPS

-----------------------------------------------------------------------------
(* The invariants, which every step preserves. *)

\* The CC keeps the names of standing applications unique, so a lookup finds
\* the only candidate.
UniqueName ==
  \A g, h \in Guids : Live(g) /\ Live(h) /\ NameOf[g] = NameOf[h] => g = h

\* What a goroutine works on is its own, or nothing.
OwnObjects ==
  \A p \in Provisions : {prov[p].guid, prov[p].url} \subseteq {p, NoGuid}

OwnRoutes ==
  \A r \in Guids : route[r].dest \in {r, NoGuid}

\* The history of a handler past its lookup covers every goroutine at work.
OverlapCovers ==
  \A d \in Deprovisions, p \in Provisions :
    LookedUp(d) /\ SameInstance(p, d) /\ Running(p) => p \in Overlap(d)

\* What a handler holds is an application of its instance.
HandlesOwnInstance ==
  \A d \in Deprovisions :
    /\ dep[d].guid # NoGuid => LookedUp(d) /\ SameInstance(dep[d].guid, d)
    /\ dep[d].pc \in Handling \ BeforeLookup => dep[d].guid # NoGuid

\* At work, it holds the only application it is responsible for.
HoldsTheResponsibility ==
  \A d \in Deprovisions : dep[d].pc \in Handling \ BeforeLookup =>
    \A p \in Provisions :
      SameInstance(p, d) /\ Live(p) /\ p \notin Overlap(d) => p = dep[d].guid

\* What a Provision has not begun to build was never there.
NotBuiltYet ==
  \A p \in Provisions : prov[p].pc \in {"idle", "begin"} =>
    app[p].state = "absent" /\ ~app[p].doomed

LooseRoute(r, g) == Exists(r) /\ route[r].dest = g /\ ~route[r].doomed

\* Once the routes are read, only a goroutine at work can have added one.
RoutesRead ==
  \A d \in Deprovisions : dep[d].pc \in {"stop", "deleteRoutes"} =>
    \A r \in Guids : LooseRoute(r, dep[d].guid) =>
      r \in dep[d].routes \cup Overlap(d)

\* A deleted application was queued first, by a call that answers for every
\* route still leading to it.
DoomedByHandler ==
  \A g \in Guids :
    /\ app[g].state = "deleted" => app[g].doomed
    /\ app[g].doomed => \E d \in Deprovisions :
         /\ dep[d].guid = g
         /\ \A r \in Guids : LooseRoute(r, g) => r \in Overlap(d)

\* Whoever else starts applications (Service has Updates that do), this much
\* holds.
IInv ==
  /\ TypeOK
  /\ UniqueName
  /\ OwnObjects
  /\ OwnRoutes
  /\ OverlapCovers
  /\ HandlesOwnInstance
  /\ HoldsTheResponsibility
  /\ SurvivorsOverlap
  /\ RoutesRead
  /\ DoomedByHandler

\* The calls of a goroutine whose route is mapped.
RoutedCalls ==
  RunningPcs \ ({"begin", "domains", "createRoute", "mapRoute"} \cup StagingCalls)

\* Whatever failed, a goroutine gets on only with what it needs done: the
\* environment before the rest of staging, the route before the start.
DoneInOrder ==
  \A p \in Provisions :
    /\ Running(p) /\ prov[p].pc \notin {"begin", "environment"} =>
         app[p].env["json"] # NoGuid
    /\ prov[p].pc \in RoutedCalls => route[p].dest = p
    /\ app[p].droplet => app[p].env["json"] # NoGuid

-----------------------------------------------------------------------------
(* The proofs. *)

(***************************************************************************)
(* The Cloud Controller keeps its records well formed.                     *)
(***************************************************************************)

\* Calls get no other replies.
LEMMA RepliesKnown ==
  ASSUME NEW valid \in BOOLEAN
  PROVE  Replies(valid) \subseteq {"ok", "lost", "error"}
BY DEF Replies

\* What a call writes of an application is an application.
LEMMA AppEffects ==
  ASSUME PlatformTypeOK, NEW g \in Guids \cup {NoGuid}
  PROVE  /\ CreatedApp(g) \in [Guids -> AppRecord]
         /\ \A e \in SUBSET EnvGroups, w \in Requests :
              PatchedEnv(g, e, w) \in [Guids -> AppRecord]
         /\ \A n \in Counts : ScaledApp(g, n) \in [Guids -> AppRecord]
         /\ DropletSet(g) \in [Guids -> AppRecord]
         /\ Startable(g) => StartedApp(g) \in [Guids -> AppRecord]
         /\ Startable(g) => RestartedApp(g) \in [Guids -> AppRecord]
         /\ StoppedApp(g) \in [Guids -> AppRecord]
         /\ DoomedApp(g) \in [Guids -> AppRecord]
<1> USE DEF PlatformTypeOK, AppRecord
<1>1. CreatedApp(g) \in [Guids -> AppRecord]
  BY DEF CreatedApp
<1>2. ASSUME NEW e \in SUBSET EnvGroups, NEW w \in Requests
      PROVE  PatchedEnv(g, e, w) \in [Guids -> AppRecord]
  <2>1. [x \in EnvGroups |-> IF x \in e THEN w ELSE app[g].env[x]] \in Environment
        \/ g \notin Guids
    BY DEF Environment
  <2>2. QED
    BY <2>1 DEF PatchedEnv
<1>8. ASSUME NEW n \in Counts
      PROVE  ScaledApp(g, n) \in [Guids -> AppRecord]
  <2>1. ASSUME NEW b \in BOOLEAN
        PROVE  [app EXCEPT ![g].instances = n, ![g].placed = b] \in [Guids -> AppRecord]
    OBVIOUS
  <2>2. (app[g].placed /\ n <= app[g].instances) \in BOOLEAN
    OBVIOUS
  <2>3. QED
    BY ONLY <2>1, <2>2 DEF ScaledApp
<1>9. NoEnv \in Environment
  BY DEF NoEnv, Environment
<1>3. DropletSet(g) \in [Guids -> AppRecord]
  BY DEF DropletSet
<1>4. Startable(g) => /\ StartedApp(g) \in [Guids -> AppRecord]
                      /\ RestartedApp(g) \in [Guids -> AppRecord]
  BY ZenonT(40) DEF StartedApp, RestartedApp, Startable, Live
<1>5. StoppedApp(g) \in [Guids -> AppRecord]
  BY ZenonT(40), <1>9 DEF StoppedApp
<1>6. DoomedApp(g) \in [Guids -> AppRecord]
  BY DEF DoomedApp
<1>7. QED
  BY <1>1, <1>2, <1>3, <1>4, <1>5, <1>6, <1>8

\* What a call writes of a route is a route.
LEMMA RouteEffects ==
  ASSUME PlatformTypeOK, NEW r \in Guids \cup {NoGuid}, NEW g \in Guids \cup {NoGuid}
  PROVE  /\ CreatedRoute(r) \in [Guids -> RouteRecord]
         /\ MappedRoute(r, g) \in [Guids -> RouteRecord]
         /\ DoomedRoute(r) \in [Guids -> RouteRecord]
BY DEF PlatformTypeOK, RouteRecord, CreatedRoute, MappedRoute, DoomedRoute

\* The ways a goroutine writes its local variables keep their types.
LEMMA ProvUpdates ==
  ASSUME ProvTypeOK, NEW p \in Provisions, NEW step \in RunningPcs \cup EndPcs,
         NEW g \in Guids \cup {NoGuid}
  PROVE  /\ [prov EXCEPT ![p].pc = step] \in [Provisions -> ProvRecord]
         /\ [prov EXCEPT ![p].pc = step, ![p].guid = g] \in [Provisions -> ProvRecord]
         /\ [prov EXCEPT ![p].pc = step, ![p].url = g] \in [Provisions -> ProvRecord]
         /\ \A c \in Counts : [prov EXCEPT ![p].pc = step, ![p].guid = g, ![p].count = c]
                               \in [Provisions -> ProvRecord]
<1> USE DEF ProvTypeOK, ProvRecord
<1>1. [prov EXCEPT ![p].pc = step] \in [Provisions -> ProvRecord]
  OBVIOUS
<1>2. [prov EXCEPT ![p].pc = step, ![p].guid = g] \in [Provisions -> ProvRecord]
  OBVIOUS
<1>3. [prov EXCEPT ![p].pc = step, ![p].url = g] \in [Provisions -> ProvRecord]
  OBVIOUS
<1>4. ASSUME NEW c \in Counts
      PROVE  [prov EXCEPT ![p].pc = step, ![p].guid = g, ![p].count = c]
               \in [Provisions -> ProvRecord]
  OBVIOUS
<1>5. QED
  BY <1>1, <1>2, <1>3, <1>4

(***************************************************************************)
(* A goroutine touches nothing but its own application and route.          *)
(***************************************************************************)

\* Of the calls, a goroutine's step moves on its own only, and never back to
\* its beginning.
LEMMA GoroutineMoves ==
  ASSUME TypeOK, OwnObjects, NEW p \in Provisions, Goroutine(p)
  PROVE  /\ Running(p)
         /\ ProvTypeOK'
         /\ OwnObjects'
         /\ prov'[p].pc \notin {"idle", "begin"}
         /\ \A q \in Provisions \ {p} : prov'[q] = prov[q]
<1> DEFINE Pcs == (RunningPcs \cup EndPcs) \ {"begin"}
           Moves == /\ ProvTypeOK' /\ OwnObjects'
                    /\ prov'[p].pc \notin {"idle", "begin"}
                    /\ \A q \in Provisions \ {p} : prov'[q] = prov[q]
<1> USE DEF TypeOK, Provisions, OwnObjects
<1>1. Running(p)
  BY DEF Running, RunningPcs, Goroutine, GoroutineStep, StartInstances,
    CreateApplication, Stage, GetDomains, CreateRoute, MapRoute,
    UpdateApplicationStart, UpdateApplicationRestart, ScaleRegistryServer, PollScale, ReadPeers,
    PatchRegistryParams, UpdateRegistryEnvironment, ReadPeersAgain, PushPeers,
    MonitorApplicationStartup, At
<1>. SUFFICES Moves
  BY <1>1
<1>2. {"idle", "begin"} \cap Pcs = {}
  BY DEF RunningPcs, StagingCalls, StartCalls, RestartCalls, EndPcs
<1>3. ASSUME NEW step \in Pcs, Goto(p, step)
      PROVE  Moves
  <2>1. ProvTypeOK'
    BY <1>3, ProvUpdates DEF Goto, ProvTypeOK
  <2>2. OwnObjects' /\ prov'[p].pc \notin {"idle", "begin"}
    BY <1>2, <1>3 DEF Goto, ProvTypeOK, ProvRecord
  <2>3. \A q \in Provisions \ {p} : prov'[q] = prov[q]
    BY <1>3 DEF Goto, ProvTypeOK
  <2>4. QED
    BY <2>1, <2>2, <2>3
<1>4. ASSUME NEW step \in Pcs, NEW reply, Proceed(p, reply, step)
      PROVE  Moves
  <2>1. "failed" \in Pcs
    BY DEF EndPcs, RunningPcs
  <2>2. QED
    BY <1>3, <1>4, <2>1 DEF Proceed
<1>5. {"failed", "done"} \subseteq Pcs
  BY DEF EndPcs
<1>6. {"environment", "createRoute", "mapRoute", "start", "restart", "pollScale",
       "registryParams", "registryEnv", "startAgain", "peers", "push", "monitor", "recover"} \subseteq Pcs
  BY DEF RunningPcs, StagingCalls, StartCalls, RestartCalls
<1>7. CASE \/ StartInstances(p) \/ PushPeers(p) \/ MonitorApplicationStartup(p)
           \/ ReadPeers(p) \/ PollScale(p)
  <2>1. \E step \in {"failed", "done", "monitor", "recover", "registryParams",
                     "peers"} : Goto(p, step)
    BY <1>7 DEF StartInstances, PushPeers, MonitorApplicationStartup, ReadPeers,
         PollScale
  <2>2. QED
    BY <2>1, <1>3, <1>5, <1>6
<1>8. CASE \/ GetDomains(p) \/ ScaleRegistryServer(p) \/ ReadPeersAgain(p)
           \/ PatchRegistryParams(p) \/ UpdateRegistryEnvironment(p) \/ MapRoute(p)
  <2>1. \E step \in {"createRoute", "pollScale", "push", "registryEnv", "startAgain",
                     "start", "restart"} : \E reply : Proceed(p, reply, step)
    BY <1>8 DEF GetDomains, ScaleRegistryServer, ReadPeersAgain, PatchRegistryParams,
         UpdateRegistryEnvironment, MapRoute
  <2>2. QED
    BY <2>1, <1>4, <1>6
<1>9. CASE CreateApplication(p)
  <2>1. CASE Goto(p, "failed")
    BY <2>1, <1>3, <1>5
  <2>2. CASE ~Goto(p, "failed")
    <3>1. PICK n \in Counts :
            prov' = [prov EXCEPT ![p].pc = "environment", ![p].guid = p,
                                 ![p].count = n]
      BY <1>9, <2>2, PlatformAssumption DEF CreateApplication
    <3>2. ProvTypeOK'
      BY <3>1, <1>6, ProvUpdates DEF ProvTypeOK
    <3>3. OwnObjects'
      BY <3>1, <1>2, <1>6 DEF ProvTypeOK, ProvRecord
    <3>4. prov'[p].pc \notin {"idle", "begin"}
      BY <3>1, <1>2, <1>6 DEF ProvTypeOK, ProvRecord
    <3>5. \A q \in Provisions \ {p} : prov'[q] = prov[q]
      BY <3>1 DEF ProvTypeOK, ProvRecord
    <3>6. QED
      BY <3>2, <3>3, <3>4, <3>5
  <2>3. QED
    BY <2>1, <2>2
<1>10. CASE Stage(p)
  <2>1. AfterStaging(prov[p].pc) \in Pcs
    BY <1>10 DEF Stage, AfterStaging, RunningPcs, StagingCalls
  <2>2. PICK reply : Proceed(p, reply, AfterStaging(prov[p].pc))
    BY <1>10 DEF Stage
  <2>3. QED
    BY <1>4, <2>1, <2>2
<1>11. CASE CreateRoute(p)
  <2>1. CASE Goto(p, "failed")
    BY <2>1, <1>3, <1>5
  <2>2. CASE ~Goto(p, "failed")
    <3>1. prov' = [prov EXCEPT ![p].pc = "mapRoute", ![p].url = p]
      BY <1>11, <2>2 DEF CreateRoute
    <3>2. ProvTypeOK'
      BY <3>1, <1>6, ProvUpdates DEF ProvTypeOK
    <3>3. OwnObjects'
      BY <3>1, <1>2, <1>6 DEF ProvTypeOK, ProvRecord
    <3>4. prov'[p].pc \notin {"idle", "begin"}
      BY <3>1, <1>2, <1>6 DEF ProvTypeOK, ProvRecord
    <3>5. \A q \in Provisions \ {p} : prov'[q] = prov[q]
      BY <3>1 DEF ProvTypeOK, ProvRecord
    <3>6. QED
      BY <3>2, <3>3, <3>4, <3>5
  <2>3. QED
    BY <2>1, <2>2
<1>12. AfterStart(p) \in Pcs
  BY DEF AfterStart, RunningPcs, EndPcs
<1>13. CASE UpdateApplicationStart(p)
  <2>1. CASE Goto(p, AfterStart(p))
    BY <2>1, <1>3, <1>12
  <2>2. CASE ~Goto(p, AfterStart(p))
    <3>1. prov' = [prov EXCEPT ![p].pc = RetryOf(prov[p].pc), ![p].guid = NoGuid]
      BY <1>13, <2>2 DEF UpdateApplicationStart
    <3>2. RetryOf(prov[p].pc) \in Pcs
      BY DEF RetryOf, RunningPcs, RestartCalls
    <3>3. ProvTypeOK'
      BY <3>1, <3>2, ProvUpdates DEF ProvTypeOK
    <3>4. OwnObjects'
      BY <3>1, <3>2, <1>2 DEF ProvTypeOK, ProvRecord
    <3>5. prov'[p].pc \notin {"idle", "begin"}
      BY <3>1, <3>2, <1>2 DEF ProvTypeOK, ProvRecord
    <3>6. \A q \in Provisions \ {p} : prov'[q] = prov[q]
      BY <3>1 DEF ProvTypeOK, ProvRecord
    <3>7. QED
      BY <3>3, <3>4, <3>5, <3>6
  <2>3. QED
    BY <2>1, <2>2
<1>14. CASE UpdateApplicationRestart(p)
  <2>1. PICK reply : Proceed(p, reply, AfterStart(p))
    BY <1>14 DEF UpdateApplicationRestart
  <2>2. QED
    BY <1>4, <1>12, <2>1
<1>15. QED
  BY <1>7, <1>8, <1>9, <1>10, <1>11, <1>13, <1>14 DEF Goroutine, GoroutineStep

\* What becomes of a goroutine's own application.
AppAfter(p) ==
  \/ app'[p].state = app[p].state
  \/ Live(p) /\ app'[p].state = "started"
  \/ prov[p].pc = "begin" /\ ~NameTaken(NameOf[p]) /\ app'[p].state = "stopped"

\* What a goroutine's step does to the applications.
LEMMA GoroutineApp ==
  ASSUME TypeOK, OwnObjects, NEW p \in Provisions, Goroutine(p)
  PROVE  /\ app' \in [Guids -> AppRecord]
         /\ \A g \in Guids \ {p} : app'[g] = app[g]
         /\ app'[p].doomed = app[p].doomed
         /\ AppAfter(p)
<1> DEFINE Own(new) == /\ new \in [Guids -> AppRecord]
                       /\ \A g \in Guids \ {p} : new[g] = app[g]
                       /\ new[p].doomed = app[p].doomed
           g == prov[p].guid
<1> USE DEF TypeOK, PlatformTypeOK, Provisions
<1>0. g \in {p, NoGuid} /\ NoGuid \notin Guids
  BY PlatformAssumption DEF OwnObjects
<1>1. ASSUME NEW groups \in SUBSET EnvGroups, NEW n \in Counts,
             NEW new \in {app, CreatedApp(p), PatchedEnv(g, groups, p), ScaledApp(g, n),
                          DropletSet(g)}
      PROVE  Own(new)
  <2>1. new \in [Guids -> AppRecord]
    <3>1. p \in Requests /\ p \in Guids \cup {NoGuid} /\ g \in Guids \cup {NoGuid}
      BY <1>0, PlatformAssumption
    <3>2. CreatedApp(p) \in [Guids -> AppRecord] /\ DropletSet(g) \in [Guids -> AppRecord]
      BY <3>1, AppEffects
    <3>3. PatchedEnv(g, groups, p) \in [Guids -> AppRecord]
      BY <3>1, AppEffects
    <3>4. ScaledApp(g, n) \in [Guids -> AppRecord]
      BY <3>1, AppEffects
    <3>5. QED
      BY <3>2, <3>3, <3>4
  <2>2. QED
    BY <1>0, <2>1 DEF CreatedApp, PatchedEnv, ScaledApp, DropletSet, AppRecord
<1>2. ASSUME Startable(g), NEW new \in {StartedApp(g), RestartedApp(g)}
      PROVE  Own(new)
  <2>1. new \in [Guids -> AppRecord]
    BY <1>0, <1>2, AppEffects, PlatformAssumption
  <2>2. QED
    BY <1>0, <1>2, <2>1 DEF StartedApp, RestartedApp, AppRecord, Startable, Live
<1>3. CASE UNCHANGED app
  BY <1>3 DEF AppAfter
<1>4. CASE CreateApplication(p) /\ ~UNCHANGED app
  <2>1. app' = CreatedApp(p) /\ prov[p].pc = "begin" /\ ~NameTaken(NameOf[p])
    BY <1>4 DEF CreateApplication, TakesEffect, Replies, At
  <2>2. app'[p].state = "stopped"
    BY <2>1 DEF CreatedApp, AppRecord
  <2>3. Own(app')
    BY <1>1, <2>1, PlatformAssumption
  <2>4. QED
    BY <2>2, <2>1, <2>3 DEF AppAfter
<1>5. CASE /\ \/ Stage(p) \/ ScaleRegistryServer(p) \/ PatchRegistryParams(p)
              \/ UpdateRegistryEnvironment(p)
           /\ ~UNCHANGED app
  <2>1. PICK groups \in SUBSET EnvGroups, n \in Counts :
          app' \in {PatchedEnv(g, groups, p), ScaledApp(g, n), DropletSet(g)}
    <3>1. prov[p].count \in Counts
      BY DEF ProvTypeOK, ProvRecord
    <3>2. QED
      BY <1>5, <3>1, PlatformAssumption DEF Stage, StagingEffect, ScaleRegistryServer,
        PatchRegistryParams, UpdateRegistryEnvironment, EnvGroups
  <2>2. app'[p].state = app[p].state
    BY <1>0, <2>1 DEF PatchedEnv, ScaledApp, DropletSet, AppRecord
  <2>3. Own(app')
    BY <1>1, <2>1
  <2>4. QED
    BY <2>2, <2>3 DEF AppAfter
<1>6. CASE (UpdateApplicationStart(p) \/ UpdateApplicationRestart(p)) /\ ~UNCHANGED app
  <2>1. app' \in {StartedApp(g), RestartedApp(g)} /\ Startable(g)
    BY <1>6 DEF UpdateApplicationStart, UpdateApplicationRestart, TakesEffect, Replies
  <2>2. Live(p) /\ g = p
    BY <1>0, <2>1 DEF Startable, Live
  <2>3. app'[p].state = "started"
    BY <2>1, <2>2 DEF StartedApp, RestartedApp, IsStarted, Live, AppRecord
  <2>4. QED
    BY <1>2, <2>1, <2>2, <2>3 DEF AppAfter
<1>7. QED
  BY <1>3, <1>4, <1>5, <1>6 DEF Goroutine, GoroutineStep, StartInstances, GetDomains,
    CreateRoute, MapRoute, PollScale, ReadPeers, ReadPeersAgain, PushPeers,
    MonitorApplicationStartup

\* What becomes of its route.
LEMMA GoroutineRoute ==
  ASSUME TypeOK, OwnObjects, NEW p \in Provisions, Goroutine(p)
  PROVE  /\ route' \in [Guids -> RouteRecord]
         /\ \A r \in Guids \ {p} : route'[r] = route[r]
         /\ route'[p].doomed = route[p].doomed
         /\ \/ route'[p].dest = route[p].dest
            \/ route'[p].dest = p
         /\ \/ route'[p].state = route[p].state
            \/ route'[p].state = "exists" /\ route'[p].dest = route[p].dest
<1> DEFINE Own(new) == /\ new \in [Guids -> RouteRecord]
                       /\ \A r \in Guids \ {p} : new[r] = route[r]
                       /\ new[p].doomed = route[p].doomed
<1> USE DEF TypeOK, PlatformTypeOK, Provisions
<1>1. CASE UNCHANGED route
  BY <1>1
<1>2. CASE CreateRoute(p) /\ ~UNCHANGED route
  <2>1. route' = CreatedRoute(p)
    BY <1>2 DEF CreateRoute
  <2>2. route' \in [Guids -> RouteRecord]
    BY <2>1, RouteEffects
  <2>3. QED
    BY <2>1, <2>2 DEF CreatedRoute, RouteRecord
<1>3. CASE MapRoute(p) /\ ~UNCHANGED route
  <2>1. /\ route' = MappedRoute(prov[p].url, prov[p].guid)
        /\ Live(prov[p].guid) /\ Exists(prov[p].url)
    BY <1>3 DEF MapRoute, TakesEffect, Replies
  <2>2. prov[p].url = p /\ prov[p].guid = p
    BY <2>1, PlatformAssumption DEF OwnObjects, Live, Exists
  <2>3. route' \in [Guids -> RouteRecord]
    BY <2>1, <2>2, RouteEffects
  <2>4. QED
    BY <2>1, <2>2, <2>3 DEF MappedRoute, RouteRecord
<1>4. QED
  BY <1>1, <1>2, <1>3 DEF Goroutine, GoroutineStep, StartInstances, CreateApplication,
    Stage, GetDomains, UpdateApplicationStart, UpdateApplicationRestart,
    ScaleRegistryServer, PollScale, ReadPeers, PatchRegistryParams,
    UpdateRegistryEnvironment, ReadPeersAgain,
    PushPeers, MonitorApplicationStartup

(***************************************************************************)
(* The steps of a Deprovision handler, one at a time.                      *)
(***************************************************************************)
\* The ways a handler writes its local variables keep their types.
LEMMA DepUpdates ==
  ASSUME DepTypeOK, NEW d \in Deprovisions, NEW g \in Guids \cup {NoGuid},
         NEW s \in SUBSET Guids,
         NEW step \in {"ok", "failed"} \cup Handling
  PROVE  /\ [dep EXCEPT ![d].pc = step] \in [Deprovisions -> DepRecord]
         /\ [dep EXCEPT ![d].pc = step, ![d].guid = g] \in [Deprovisions -> DepRecord]
         /\ [dep EXCEPT ![d].pc = step, ![d].routes = s] \in [Deprovisions -> DepRecord]
         /\ [dep EXCEPT ![d].routes = s] \in [Deprovisions -> DepRecord]
<1> USE DEF DepTypeOK, DepRecord
<1>1. [dep EXCEPT ![d].pc = step] \in [Deprovisions -> DepRecord]
  OBVIOUS
<1>2. [dep EXCEPT ![d].pc = step, ![d].guid = g] \in [Deprovisions -> DepRecord]
  OBVIOUS
<1>3. [dep EXCEPT ![d].pc = step, ![d].routes = s] \in [Deprovisions -> DepRecord]
  OBVIOUS
<1>4. [dep EXCEPT ![d].routes = s] \in [Deprovisions -> DepRecord]
  OBVIOUS
<1>5. QED
  BY <1>1, <1>2, <1>3, <1>4

(***************************************************************************)
(* Init and every step establish or preserve IInv.                         *)
(***************************************************************************)
\* The broker starts without applications, goroutines or handlers.
LEMMA InitIInv == Init => IInv
<1> SUFFICES ASSUME Init PROVE IInv
  OBVIOUS
<1> USE DEF Init, PlatformInit, ProvInit, DepInit, Provisions
<1>1. PlatformTypeOK
  <2>1. NoEnv \in Environment
    BY DEF NoEnv, Environment
  <2>2. QED
    BY <2>1, PlatformAssumption DEF PlatformTypeOK, AppRecord, RouteRecord
<1>2. ProvTypeOK /\ OwnObjects
  BY PlatformAssumption DEF ProvTypeOK, ProvRecord, OwnObjects
<1>3. DepTypeOK
  BY DEF DepTypeOK, DepRecord
<1>4. TypeOK
  BY <1>1, <1>2, <1>3 DEF TypeOK
<1>5. \A d \in Deprovisions : dep[d].pc = "idle" /\ ~LookedUp(d) /\ dep[d].guid = NoGuid
  BY DEF LookedUp, BeforeLookup
<1>6. \A g \in Guids : ~Live(g) /\ ~app[g].doomed /\ app[g].state # "deleted"
  BY DEF Live
<1>7. UniqueName /\ OverlapCovers /\ HandlesOwnInstance /\ OwnRoutes /\ HoldsTheResponsibility
      /\ SurvivorsOverlap /\ RoutesRead /\ DoomedByHandler
  BY <1>5, <1>6 DEF UniqueName, OverlapCovers, HandlesOwnInstance,
    HoldsTheResponsibility, SurvivorsOverlap, RoutesRead,
    DoomedByHandler, Handling, BeforeLookup, DepAt, OwnRoutes
<1>8. QED
  BY <1>2, <1>4, <1>7 DEF IInv

\* A new Provision call joins the history of every handler past its lookup.
LEMMA ProvisionCallStep ==
  ASSUME IInv, NEW p \in Provisions, ProvisionCall(p)
  PROVE  IInv'
<1> USE DEF IInv, Provisions
<1>1. /\ UNCHANGED <<app, route, dep, during>>
      /\ prov' = [prov EXCEPT ![p].pc = "begin"]
  BY DEF ProvisionCall, Provision, Goto
<1>2. /\ later' \in [Deprovisions -> SUBSET Provisions]
      /\ \A d \in Deprovisions :
           /\ later[d] \subseteq later'[d]
           /\ LookedUp(d) /\ SameInstance(p, d) => p \in later'[d]
  BY DEF ProvisionCall, TypeOK
<1>3. TypeOK'
  <2>1. "begin" \in RunningPcs
    BY DEF RunningPcs
  <2>2. ProvTypeOK'
    BY <1>1, <2>1, ProvUpdates DEF TypeOK, ProvTypeOK
  <2>3. QED
    BY <1>1, <1>2, <2>2 DEF TypeOK, PlatformTypeOK, DepTypeOK
<1>4. OwnObjects'
  BY <1>1 DEF OwnObjects, TypeOK, ProvTypeOK, ProvRecord
<1>5. \A d \in Deprovisions : Overlap(d) \subseteq Overlap(d)'
  BY <1>1, <1>2 DEF Overlap
<1>6. OverlapCovers'
  <2> SUFFICES ASSUME NEW d \in Deprovisions, NEW q \in Provisions, LookedUp(d),
                      SameInstance(q, d), Running(q)'
               PROVE  q \in Overlap(d)'
    BY <1>1 DEF OverlapCovers, LookedUp, SameInstance
  <2>1. CASE q = p
    BY <2>1, <1>2 DEF Overlap
  <2>2. CASE q # p
    BY <2>2, <1>1, <1>5 DEF OverlapCovers, Running, TypeOK, ProvTypeOK
  <2>3. QED
    BY <2>1, <2>2
<1>7. UniqueName' /\ HandlesOwnInstance' /\ OwnRoutes'
  BY <1>1 DEF UniqueName, OwnRoutes, HandlesOwnInstance, Live, LookedUp, SameInstance
<1>8. HoldsTheResponsibility' /\ SurvivorsOverlap'
  BY <1>1, <1>5 DEF HoldsTheResponsibility, SurvivorsOverlap, Live, Condemned,
    SameInstance
<1>9. RoutesRead' /\ DoomedByHandler'
  BY <1>1, <1>5 DEF RoutesRead, DoomedByHandler, LooseRoute,
    Exists
<1>10. QED
  BY <1>3, <1>4, <1>6, <1>7, <1>8, <1>9

\* A goroutine at work is in the history of every handler it can disturb.
LEMMA GoroutineIStep ==
  ASSUME IInv, NEW p \in Provisions, Goroutine(p)
  PROVE  IInv'
<1> USE DEF Provisions
<1>1. UNCHANGED <<dep, during, later>>
  BY DEF Goroutine
<1>2. /\ Running(p) /\ ProvTypeOK' /\ OwnObjects'
      /\ \A q \in Provisions \ {p} : prov'[q] = prov[q]
  BY GoroutineMoves DEF IInv
<1>3. /\ app' \in [Guids -> AppRecord]
      /\ \A g \in Guids \ {p} : app'[g] = app[g]
      /\ app'[p].doomed = app[p].doomed
      /\ AppAfter(p)
  BY GoroutineApp DEF IInv
<1>4. /\ route' \in [Guids -> RouteRecord]
      /\ \A r \in Guids \ {p} : route'[r] = route[r]
      /\ route'[p].dest \in {route[p].dest, p}
  BY GoroutineRoute DEF IInv
<1>5. TypeOK'
  BY <1>1, <1>2, <1>3, <1>4 DEF IInv, TypeOK, PlatformTypeOK, DepTypeOK
<1>6. \A d \in Deprovisions : Overlap(d)' = Overlap(d) /\ LookedUp(d)' = LookedUp(d)
  BY <1>1 DEF Overlap, LookedUp
<1>7. \A d \in Deprovisions : LookedUp(d) /\ SameInstance(p, d) => p \in Overlap(d)
  BY <1>2 DEF IInv, OverlapCovers
<1>8. UniqueName'
  <2> SUFFICES ASSUME NEW g \in Guids, NEW h \in Guids, Live(g)', Live(h)',
                      NameOf[g] = NameOf[h], g # h
               PROVE  FALSE
    BY DEF UniqueName
  <2>1. \A x \in Guids : Live(x)' => Live(x) \/ (x = p /\ ~NameTaken(NameOf[p]))
    BY <1>3 DEF Live, AppAfter
  <2>2. QED
    BY <2>1 DEF IInv, UniqueName, NameTaken
<1>9. OverlapCovers'
  BY <1>1, <1>2, <1>6, <1>7 DEF IInv, OverlapCovers, Running, SameInstance
<1>10. HandlesOwnInstance'
  BY <1>1, <1>6 DEF IInv, HandlesOwnInstance, SameInstance
<1>11. \A d \in Deprovisions, q \in Provisions :
         LookedUp(d) /\ SameInstance(q, d) /\ q \notin Overlap(d) => app'[q] = app[q]
  BY <1>3, <1>7
<1>12. HoldsTheResponsibility'
  BY <1>1, <1>6, <1>11 DEF IInv, HoldsTheResponsibility, Live, SameInstance, LookedUp
<1>13. SurvivorsOverlap'
  BY <1>1, <1>6, <1>11 DEF IInv, SurvivorsOverlap, Condemned, Live, SameInstance,
    LookedUp, BeforeLookup
<1>14. OwnRoutes'
  BY <1>4 DEF IInv, OwnRoutes
<1>15. RoutesRead'
  <2> SUFFICES ASSUME NEW d \in Deprovisions, dep[d].pc \in {"stop", "deleteRoutes"},
                      NEW r \in Guids, LooseRoute(r, dep[d].guid)',
                      r \notin dep[d].routes \cup Overlap(d)
               PROVE  FALSE
    BY <1>1, <1>6 DEF RoutesRead, LooseRoute, Exists
  <2>1. LookedUp(d) /\ SameInstance(dep[d].guid, d) /\ dep[d].guid # NoGuid
    BY DEF IInv, HandlesOwnInstance, Handling, BeforeLookup
  <2>2. CASE r # p
    BY <1>1, <1>4, <2>2 DEF IInv, RoutesRead, LooseRoute, Exists
  <2>3. CASE r = p
    <3>1. dep[d].guid = p
      BY <1>1, <1>14, <2>1, <2>3 DEF LooseRoute, OwnRoutes
    <3>2. QED
      BY <1>7, <2>1, <2>3, <3>1
  <2>4. QED
    BY <2>2, <2>3
<1>16. DoomedByHandler'
  <2> SUFFICES ASSUME NEW g \in Guids
               PROVE  /\ app'[g].state = "deleted" => app'[g].doomed
                      /\ app'[g].doomed => \E d \in Deprovisions :
                           /\ dep[d].guid = g
                           /\ \A r \in Guids : LooseRoute(r, g)' => r \in Overlap(d)
    BY <1>1, <1>6 DEF DoomedByHandler
  <2>1. /\ app'[g].doomed = app[g].doomed
        /\ app'[g].state = "deleted" => app[g].state = "deleted"
    BY <1>3 DEF AppAfter, Live
  <2>2. ASSUME app[g].doomed
        PROVE  \E d \in Deprovisions :
                 /\ dep[d].guid = g
                 /\ \A r \in Guids : LooseRoute(r, g)' => r \in Overlap(d)
    <3>1. PICK d \in Deprovisions :
            /\ dep[d].guid = g
            /\ \A r \in Guids : LooseRoute(r, g) => r \in Overlap(d)
      BY <2>2 DEF IInv, DoomedByHandler
    <3>2. LookedUp(d) /\ SameInstance(g, d)
      BY <3>1, PlatformAssumption DEF IInv, HandlesOwnInstance
    <3>3. ASSUME NEW r \in Guids, LooseRoute(r, g)'
          PROVE  r \in Overlap(d)
      <4>1. CASE r # p
        BY <1>4, <3>1, <3>3, <4>1 DEF LooseRoute, Exists
      <4>2. CASE r = p
        <5>1. g = p
          BY <1>14, <3>3, <4>2, PlatformAssumption DEF LooseRoute, OwnRoutes
        <5>2. QED
          BY <1>7, <3>2, <4>2, <5>1
      <4>3. QED
        BY <4>1, <4>2
    <3>4. QED
      BY <3>1, <3>3
  <2>3. QED
    BY <2>1, <2>2 DEF IInv, DoomedByHandler
<1>17. QED
  BY <1>2, <1>5, <1>8, <1>9, <1>10, <1>12, <1>13, <1>14, <1>15, <1>16 DEF IInv

\* An accepted Deprovision has not looked anything up yet.
LEMMA DeprovisionCallStep ==
  ASSUME IInv, NEW d \in Deprovisions, DeprovisionCall(d)
  PROVE  IInv'
<1> USE DEF Provisions
<1>1. /\ UNCHANGED <<app, route, prov, during, later>>
      /\ dep' = [dep EXCEPT ![d].pc = "lookup"]
      /\ dep[d].pc = "idle"
  BY DEF DeprovisionCall, Deprovision, DepGoto, DepAt
<1>2. DepTypeOK'
  <2>1. [dep EXCEPT ![d].pc = "lookup"] \in [Deprovisions -> DepRecord]
    BY DepUpdates DEF IInv, TypeOK, Handling
  <2>2. QED
    BY <1>1, <2>1 DEF DepTypeOK
<1>3. TypeOK'
  BY <1>1, <1>2 DEF IInv, TypeOK, PlatformTypeOK, ProvTypeOK
<1>4. /\ \A e \in Deprovisions \ {d} : dep'[e] = dep[e]
      /\ dep'[d].pc = "lookup" /\ dep'[d].guid = dep[d].guid
  BY <1>1 DEF IInv, TypeOK, DepTypeOK, DepRecord
<1>5. \A e \in Deprovisions : LookedUp(e)' = LookedUp(e) /\ Overlap(e)' = Overlap(e)
  BY <1>1, <1>4 DEF LookedUp, BeforeLookup, Overlap
<1>6. UniqueName' /\ OwnObjects' /\ OwnRoutes' /\ OverlapCovers'
  BY <1>1, <1>5 DEF IInv, UniqueName, OwnObjects, OwnRoutes, OverlapCovers, Live,
    Running, SameInstance
<1>7. HandlesOwnInstance' /\ HoldsTheResponsibility' /\ SurvivorsOverlap'
  BY <1>1, <1>4, <1>5 DEF IInv, HandlesOwnInstance, HoldsTheResponsibility,
    SurvivorsOverlap, BeforeLookup, SameInstance, Live, Condemned
<1>8. RoutesRead'
  BY <1>1, <1>4, <1>5 DEF IInv, RoutesRead, LooseRoute, Exists
<1>9. DoomedByHandler'
  BY <1>1, <1>4, <1>5 DEF IInv, DoomedByHandler, LooseRoute, Exists
<1>10. QED
  BY <1>3, <1>6, <1>7, <1>8, <1>9 DEF IInv

\* The parts of IInv that no handler step can disturb, given what they all do.
LEMMA HandlerFrame ==
  ASSUME IInv, NEW d \in Deprovisions, DepTypeOK', app' \in [Guids -> AppRecord],
         route' \in [Guids -> RouteRecord], during' \in [Deprovisions -> SUBSET Provisions],
         UNCHANGED <<prov, later>>,
         \A e \in Deprovisions \ {d} : dep'[e] = dep[e] /\ during'[e] = during[e],
         \A g \in Guids : Live(g)' => Live(g),
         \A r \in Guids : route'[r].dest = route[r].dest
  PROVE  TypeOK' /\ UniqueName' /\ OwnObjects' /\ OwnRoutes'
<1>1. TypeOK'
  BY DEF IInv, TypeOK, PlatformTypeOK, ProvTypeOK
<1>2. UniqueName' /\ OwnObjects' /\ OwnRoutes'
  BY DEF IInv, UniqueName, OwnObjects, OwnRoutes, Provisions
<1>3. QED
  BY <1>1, <1>2

\* The lookup finds the only application of the name, and records who overlaps.
LEMMA LookupStep ==
  ASSUME IInv, NEW d \in Deprovisions, Handler(d), GetApplicationByNameAndSpace(d)
  PROVE  IInv'
<1> USE DEF Provisions
<1>1. /\ UNCHANGED <<app, route, prov, later>>
      /\ dep[d].pc = "lookup" /\ dep[d].guid = NoGuid
      /\ during' = [during EXCEPT ![d] =
                      {p \in Provisions : SameInstance(p, d) /\ Running(p)}]
  BY DEF Handler, GetApplicationByNameAndSpace, DepAt, IInv, HandlesOwnInstance,
    LookedUp, BeforeLookup
<1>2. \/ \E g \in Guids :
           /\ Live(g) /\ SameInstance(g, d)
           /\ dep' = [dep EXCEPT ![d].pc = "readRoutes", ![d].guid = g]
      \/ ~NameTaken(TargetOf[d]) /\ dep' = [dep EXCEPT ![d].pc = "ok"]
      \/ dep' = [dep EXCEPT ![d].pc = "failed"]
  BY DEF GetApplicationByNameAndSpace, DepGoto, SameInstance
<1>3. DepTypeOK'
  <2>1. /\ \A step \in {"ok", "failed"} :
             [dep EXCEPT ![d].pc = step] \in [Deprovisions -> DepRecord]
        /\ \A g \in Guids : [dep EXCEPT ![d].pc = "readRoutes", ![d].guid = g]
                             \in [Deprovisions -> DepRecord]
    BY DepUpdates DEF IInv, TypeOK, Handling
  <2>2. QED
    BY <1>2, <2>1 DEF DepTypeOK, Live
<1>4. /\ \A e \in Deprovisions \ {d} : dep'[e] = dep[e] /\ during'[e] = during[e]
      /\ \/ /\ dep'[d].pc = "readRoutes" /\ dep'[d].guid \in Guids
            /\ Live(dep'[d].guid) /\ SameInstance(dep'[d].guid, d)
         \/ dep'[d].pc = "ok" /\ dep'[d].guid = NoGuid /\ ~NameTaken(TargetOf[d])
         \/ dep'[d].pc = "failed" /\ dep'[d].guid = NoGuid
  BY <1>1, <1>2 DEF IInv, TypeOK, DepTypeOK, DepRecord
<1>5. /\ LookedUp(d)' /\ ~LookedUp(d)
      /\ \A e \in Deprovisions \ {d} :
           LookedUp(e)' = LookedUp(e) /\ Overlap(e)' = Overlap(e)
      /\ during'[d] = {p \in Provisions : SameInstance(p, d) /\ Running(p)}
      /\ during' \in [Deprovisions -> SUBSET Provisions]
  BY <1>1, <1>4 DEF LookedUp, BeforeLookup, Overlap, IInv, TypeOK
<1>6. TypeOK' /\ UniqueName' /\ OwnObjects' /\ OwnRoutes'
  <2>1. /\ app' \in [Guids -> AppRecord] /\ route' \in [Guids -> RouteRecord]
        /\ \A g \in Guids : Live(g)' => Live(g)
        /\ \A r \in Guids : route'[r].dest = route[r].dest
    BY <1>1 DEF IInv, TypeOK, PlatformTypeOK, Live
  <2>2. QED
    BY <1>1, <1>3, <1>4, <1>5, <2>1, HandlerFrame
<1>7. OverlapCovers'
  BY <1>1, <1>5 DEF IInv, OverlapCovers, Overlap, Running, SameInstance
<1>8. HandlesOwnInstance'
  BY <1>4, <1>5, PlatformAssumption DEF IInv, HandlesOwnInstance, Handling, SameInstance
<1>9. HoldsTheResponsibility'
  <2> SUFFICES ASSUME NEW e \in Deprovisions, dep'[e].pc \in Handling \ BeforeLookup,
                      NEW p \in Provisions, SameInstance(p, e), Live(p),
                      p \notin Overlap(e)'
               PROVE  p = dep'[e].guid
    BY <1>1 DEF HoldsTheResponsibility, SameInstance, Live
  <2>1. CASE e # d
    BY <1>4, <1>5, <2>1 DEF IInv, HoldsTheResponsibility
  <2>2. CASE e = d
    BY <1>4, <2>2 DEF IInv, UniqueName, SameInstance, Handling
  <2>3. QED
    BY <2>1, <2>2
<1>10. SurvivorsOverlap'
  <2> SUFFICES ASSUME NEW e \in Deprovisions, dep'[e].pc = "ok",
                      NEW p \in Provisions, SameInstance(p, e), ~Condemned(p)
               PROVE  p \in Overlap(e)'
    BY <1>1 DEF SurvivorsOverlap, SameInstance, Condemned, Live
  <2>1. CASE e # d
    BY <1>4, <1>5, <2>1 DEF IInv, SurvivorsOverlap
  <2>2. CASE e = d
    BY <1>4, <2>2 DEF Condemned, NameTaken, SameInstance
  <2>3. QED
    BY <2>1, <2>2
<1>11. RoutesRead'
  BY <1>1, <1>4, <1>5 DEF IInv, RoutesRead, LooseRoute, Exists
<1>12. DoomedByHandler'
  BY <1>1, <1>4, <1>5, PlatformAssumption DEF IInv, DoomedByHandler, LooseRoute, Exists
<1>13. QED
  BY <1>6, <1>7, <1>8, <1>9, <1>10, <1>11, <1>12 DEF IInv

\* Past the lookup a handler keeps its history, its application and whatever
\* other handlers rely on.
LEMMA WorkingHandler ==
  ASSUME IInv, NEW d \in Deprovisions, Handler(d), ~DepAt(d, "lookup"),
         NEW step \in {"stop", "deleteRoutes", "ok", "failed"},
         NEW s \in SUBSET Guids,
         \/ dep' = [dep EXCEPT ![d].pc = step]
         \/ dep' = [dep EXCEPT ![d].pc = step, ![d].routes = s]
         \/ dep' = [dep EXCEPT ![d].routes = s] /\ dep[d].pc = step
  PROVE  /\ UNCHANGED <<prov, during, later>>
         /\ DepTypeOK'
         /\ \A e \in Deprovisions : /\ Overlap(e)' = Overlap(e)
                                    /\ LookedUp(e)' = LookedUp(e)
                                    /\ dep'[e].guid = dep[e].guid
         /\ \A e \in Deprovisions \ {d} : dep'[e] = dep[e]
         /\ dep'[d].pc = step
         /\ OverlapCovers'
         /\ HandlesOwnInstance'
<1>1. UNCHANGED <<prov, during, later>>
  BY DEF Handler
<1>2. DepTypeOK'
  <2>1. /\ [dep EXCEPT ![d].pc = step] \in [Deprovisions -> DepRecord]
        /\ [dep EXCEPT ![d].pc = step, ![d].routes = s] \in [Deprovisions -> DepRecord]
        /\ [dep EXCEPT ![d].routes = s] \in [Deprovisions -> DepRecord]
    BY DepUpdates DEF IInv, TypeOK, Handling
  <2>2. QED
    BY <2>1 DEF DepTypeOK
<1>3. /\ \A e \in Deprovisions \ {d} : dep'[e] = dep[e]
      /\ dep'[d].pc = step /\ dep'[d].guid = dep[d].guid
  BY DEF IInv, TypeOK, DepTypeOK, DepRecord
<1>4. dep[d].pc \in Handling \ BeforeLookup
  BY DEF Handler, HandlerStep, GetApplicationByNameAndSpace, GetApplicationRoutes,
    UpdateApplicationStop, DeleteRoute, DeleteApplication, DepAt, Handling, BeforeLookup
<1>5. \A e \in Deprovisions : /\ Overlap(e)' = Overlap(e)
                              /\ LookedUp(e)' = LookedUp(e)
                              /\ dep'[e].guid = dep[e].guid
  BY <1>1, <1>3, <1>4 DEF Overlap, LookedUp, BeforeLookup
<1>6. OverlapCovers'
  BY <1>1, <1>5 DEF IInv, OverlapCovers, Running, SameInstance
<1>7. HandlesOwnInstance'
  BY <1>3, <1>4, <1>5 DEF IInv, HandlesOwnInstance, SameInstance, Handling
<1>8. QED
  BY <1>1, <1>2, <1>3, <1>5, <1>6, <1>7

\* The routes read are all that lead to the application, but for later ones.
LEMMA ReadRoutesStep ==
  ASSUME IInv, NEW d \in Deprovisions, Handler(d), GetApplicationRoutes(d)
  PROVE  IInv'
<1> USE DEF Provisions
<1>1. UNCHANGED <<app, route>> /\ dep[d].pc = "readRoutes" /\ ~DepAt(d, "lookup")
  BY DEF GetApplicationRoutes, DepAt
<1>2. PICK step \in {"stop", "failed"} :
        \/ /\ step = "stop" /\ Live(dep[d].guid)
           /\ dep' = [dep EXCEPT ![d].pc = step, ![d].routes = RoutesOf(dep[d].guid)]
        \/ step = "failed" /\ dep' = [dep EXCEPT ![d].pc = step]
  BY DEF GetApplicationRoutes, DepGoto, Replies
<1>3. /\ UNCHANGED <<prov, during, later>> /\ DepTypeOK'
      /\ \A e \in Deprovisions : /\ Overlap(e)' = Overlap(e)
                                 /\ LookedUp(e)' = LookedUp(e)
                                 /\ dep'[e].guid = dep[e].guid
      /\ \A e \in Deprovisions \ {d} : dep'[e] = dep[e]
      /\ dep'[d].pc = step
      /\ OverlapCovers' /\ HandlesOwnInstance'
  <2>1. RoutesOf(dep[d].guid) \in SUBSET Guids
    BY DEF RoutesOf
  <2>2. PICK s \in SUBSET Guids :
          \/ dep' = [dep EXCEPT ![d].pc = step]
          \/ dep' = [dep EXCEPT ![d].pc = step, ![d].routes = s]
          \/ dep' = [dep EXCEPT ![d].routes = s] /\ dep[d].pc = step
    BY <1>2, <2>1
  <2>3. QED
    BY <1>1, <2>2, WorkingHandler
<1>4. dep'[d].pc = "stop" =>
        dep'[d].routes = RoutesOf(dep[d].guid) /\ Live(dep[d].guid)
  BY <1>2 DEF IInv, TypeOK, DepTypeOK, DepRecord
<1>5. TypeOK' /\ UniqueName' /\ OwnObjects' /\ OwnRoutes'
  BY <1>1, <1>3 DEF IInv, TypeOK, PlatformTypeOK, ProvTypeOK, UniqueName, Live,
    OwnObjects, OwnRoutes
<1>6. HoldsTheResponsibility' /\ SurvivorsOverlap'
  BY <1>1, <1>3 DEF IInv, HoldsTheResponsibility, SurvivorsOverlap,
    Live, Condemned, SameInstance, Handling, BeforeLookup
<1>7. RoutesRead'
  BY <1>1, <1>3, <1>4 DEF IInv, RoutesRead, LooseRoute, Exists, RoutesOf
<1>8. DoomedByHandler'
  BY <1>1, <1>3 DEF IInv, DoomedByHandler, LooseRoute, Exists
<1>9. QED
  BY <1>3, <1>5, <1>6, <1>7, <1>8 DEF IInv

\* Stopping an application takes nothing from any handler.
LEMMA StopStep ==
  ASSUME IInv, NEW d \in Deprovisions, Handler(d), UpdateApplicationStop(d)
  PROVE  IInv'
<1> USE DEF Provisions
<1>1. UNCHANGED route /\ dep[d].pc = "stop" /\ ~DepAt(d, "lookup")
  BY DEF UpdateApplicationStop, DepAt
<1>2. PICK step \in {"deleteRoutes", "failed"} :
        /\ dep' = [dep EXCEPT ![d].pc = step]
        /\ \/ app' = app /\ step = "failed"
           \/ Live(dep[d].guid) /\ app' = StoppedApp(dep[d].guid)
  BY DEF UpdateApplicationStop, DepProceed, DepGoto, TakesEffect, Replies
<1>3. /\ UNCHANGED <<prov, during, later>> /\ DepTypeOK'
      /\ \A e \in Deprovisions : /\ Overlap(e)' = Overlap(e)
                                 /\ LookedUp(e)' = LookedUp(e)
                                 /\ dep'[e].guid = dep[e].guid
      /\ \A e \in Deprovisions \ {d} : dep'[e] = dep[e]
      /\ dep'[d].pc = step
      /\ OverlapCovers' /\ HandlesOwnInstance'
  BY <1>1, <1>2, WorkingHandler
<1>4. dep'[d].routes = dep[d].routes
  BY <1>2 DEF IInv, TypeOK, DepTypeOK, DepRecord
<1>5. app' \in [Guids -> AppRecord]
  <2>1. Live(dep[d].guid) => StoppedApp(dep[d].guid) \in [Guids -> AppRecord]
    BY AppEffects DEF IInv, TypeOK, Live
  <2>2. QED
    BY <1>2, <2>1 DEF IInv, TypeOK, PlatformTypeOK
<1>6. \A g \in Guids : /\ app'[g].doomed = app[g].doomed
                       /\ Live(g)' = Live(g)
                       /\ app'[g].state = "deleted" => app[g].state = "deleted"
                       /\ IsStarted(g)' => IsStarted(g)
  BY <1>2 DEF StoppedApp, Live, IsStarted, IInv, TypeOK, PlatformTypeOK, AppRecord
<1>7. step = "deleteRoutes" => ~IsStarted(dep[d].guid)'
  BY <1>2 DEF StoppedApp, Live, IsStarted, IInv, TypeOK, PlatformTypeOK, AppRecord
<1>8. TypeOK' /\ UniqueName' /\ OwnObjects' /\ OwnRoutes'
  BY <1>1, <1>3, <1>5, <1>6 DEF IInv, TypeOK, PlatformTypeOK, ProvTypeOK, UniqueName,
    OwnObjects, OwnRoutes
<1>9. HoldsTheResponsibility'
  BY <1>1, <1>3, <1>6 DEF IInv, HoldsTheResponsibility, SameInstance, Handling,
    BeforeLookup
<1>10. SurvivorsOverlap'
  BY <1>3, <1>6 DEF IInv, SurvivorsOverlap, Condemned, SameInstance
<1>11. RoutesRead'
  BY <1>1, <1>3, <1>4 DEF IInv, RoutesRead, LooseRoute, Exists
<1>12. DoomedByHandler'
  BY <1>1, <1>3, <1>6 DEF IInv, DoomedByHandler, LooseRoute, Exists
<1>13. QED
  BY <1>3, <1>8, <1>9, <1>10, <1>11, <1>12 DEF IInv

\* A route leaves the list only once its deletion is queued.
LEMMA DeleteRouteStep ==
  ASSUME IInv, NEW d \in Deprovisions, Handler(d), DeleteRoute(d)
  PROVE  IInv'
<1> USE DEF Provisions
<1>1. UNCHANGED app /\ dep[d].pc = "deleteRoutes" /\ ~DepAt(d, "lookup")
  BY DEF DeleteRoute, DepAt
<1>2. PICK r \in dep[d].routes :
        \/ /\ dep' = [dep EXCEPT ![d].routes = @ \ {r}]
           /\ route' = DoomedRoute(r)
        \/ /\ dep' = [dep EXCEPT ![d].pc = "failed"]
           /\ route' \in {route, DoomedRoute(r)}
  BY DEF DeleteRoute, DepGoto, TakesEffect
<1>3. r \in Guids /\ dep[d].routes \ {r} \in SUBSET Guids
  BY DEF IInv, TypeOK, DepTypeOK, DepRecord
<1>4. PICK step \in {"deleteRoutes", "failed"} :
        \/ /\ step = "deleteRoutes" /\ dep[d].pc = step
           /\ dep' = [dep EXCEPT ![d].routes = dep[d].routes \ {r}]
        \/ step = "failed" /\ dep' = [dep EXCEPT ![d].pc = step]
  BY <1>1, <1>2
<1>5. /\ UNCHANGED <<prov, during, later>> /\ DepTypeOK'
      /\ \A e \in Deprovisions : /\ Overlap(e)' = Overlap(e)
                                 /\ LookedUp(e)' = LookedUp(e)
                                 /\ dep'[e].guid = dep[e].guid
      /\ \A e \in Deprovisions \ {d} : dep'[e] = dep[e]
      /\ dep'[d].pc = step
      /\ OverlapCovers' /\ HandlesOwnInstance'
  <2>1. PICK s \in SUBSET Guids :
          \/ dep' = [dep EXCEPT ![d].pc = step]
          \/ dep' = [dep EXCEPT ![d].pc = step, ![d].routes = s]
          \/ dep' = [dep EXCEPT ![d].routes = s] /\ dep[d].pc = step
    BY <1>3, <1>4
  <2>2. QED
    BY <1>1, <2>1, WorkingHandler
<1>6. dep'[d].pc = "deleteRoutes" =>
        dep'[d].routes = dep[d].routes \ {r} /\ route'[r].doomed
  BY <1>2, <1>3 DEF DoomedRoute, IInv, TypeOK, PlatformTypeOK, RouteRecord, DepTypeOK,
    DepRecord
<1>7. /\ route' \in [Guids -> RouteRecord]
      /\ \A x \in Guids : /\ route'[x].dest = route[x].dest
                          /\ route'[x].state = route[x].state
                          /\ route[x].doomed => route'[x].doomed
  <2>1. DoomedRoute(r) \in [Guids -> RouteRecord]
    BY <1>3, RouteEffects DEF IInv, TypeOK
  <2>2. route' \in [Guids -> RouteRecord]
    BY <1>2, <2>1 DEF IInv, TypeOK, PlatformTypeOK
  <2>3. CASE route' = route
    BY <2>2, <2>3
  <2>4. CASE route' = DoomedRoute(r)
    BY <1>3, <2>2, <2>4 DEF DoomedRoute, IInv, TypeOK, PlatformTypeOK, RouteRecord
  <2>5. QED
    BY <1>2, <2>3, <2>4
<1>8. \A x, g \in Guids : LooseRoute(x, g)' => LooseRoute(x, g)
  BY <1>7 DEF LooseRoute, Exists, IInv, TypeOK, PlatformTypeOK, RouteRecord
<1>9. TypeOK' /\ UniqueName' /\ OwnObjects' /\ OwnRoutes'
  BY <1>1, <1>5, <1>7 DEF IInv, TypeOK, PlatformTypeOK, ProvTypeOK, UniqueName, Live,
    OwnObjects, OwnRoutes
<1>10. HoldsTheResponsibility' /\ SurvivorsOverlap'
  BY <1>1, <1>5 DEF IInv, HoldsTheResponsibility, SurvivorsOverlap,
    Live, Condemned, SameInstance, Handling, BeforeLookup
<1>11. RoutesRead'
  <2> SUFFICES ASSUME NEW e \in Deprovisions, dep'[e].pc \in {"stop", "deleteRoutes"},
                      NEW x \in Guids, LooseRoute(x, dep[e].guid)'
               PROVE  x \in dep'[e].routes \cup Overlap(e)
    BY <1>5 DEF RoutesRead, LooseRoute
  <2>1. dep[e].pc \in {"stop", "deleteRoutes"}
    BY <1>1, <1>5
  <2>2. dep[e].guid \in Guids
    BY <2>1 DEF IInv, HandlesOwnInstance, Handling, BeforeLookup, TypeOK, DepTypeOK,
      DepRecord
  <2>3. LooseRoute(x, dep[e].guid)
    BY <1>5, <1>8, <2>2 DEF LooseRoute
  <2>4. x \in dep[e].routes \cup Overlap(e)
    BY <2>1, <2>3 DEF IInv, RoutesRead
  <2>5. CASE e = d
    BY <1>5, <1>6, <2>4, <2>5 DEF LooseRoute
  <2>6. CASE e # d
    BY <1>5, <2>4, <2>6
  <2>7. QED
    BY <2>5, <2>6
<1>12. DoomedByHandler'
  BY <1>1, <1>5, <1>8 DEF IInv, DoomedByHandler
<1>13. QED
  BY <1>5, <1>9, <1>10, <1>11, <1>12 DEF IInv

\* The application is queued once none of the routes read is left.
LEMMA DeleteApplicationStep ==
  ASSUME IInv, NEW d \in Deprovisions, Handler(d), DeleteApplication(d)
  PROVE  IInv'
<1> USE DEF Provisions
<1>1. /\ UNCHANGED route /\ dep[d].pc = "deleteRoutes" /\ dep[d].routes = {}
      /\ ~DepAt(d, "lookup")
  BY DEF DeleteApplication, DepAt
<1>2. PICK step \in {"ok", "failed"} :
        /\ dep' = [dep EXCEPT ![d].pc = step]
        /\ \/ app' = app /\ step = "failed"
           \/ Live(dep[d].guid) /\ app' = DoomedApp(dep[d].guid)
  BY DEF DeleteApplication, DepProceed, DepGoto, TakesEffect, Replies
<1>3. /\ UNCHANGED <<prov, during, later>> /\ DepTypeOK'
      /\ \A e \in Deprovisions : /\ Overlap(e)' = Overlap(e)
                                 /\ LookedUp(e)' = LookedUp(e)
                                 /\ dep'[e].guid = dep[e].guid
      /\ \A e \in Deprovisions \ {d} : dep'[e] = dep[e]
      /\ dep'[d].pc = step
      /\ OverlapCovers' /\ HandlesOwnInstance'
  BY <1>1, <1>2, WorkingHandler
<1>4. app' \in [Guids -> AppRecord]
  <2>1. Live(dep[d].guid) => DoomedApp(dep[d].guid) \in [Guids -> AppRecord]
    BY AppEffects DEF IInv, TypeOK, Live
  <2>2. QED
    BY <1>2, <2>1 DEF IInv, TypeOK, PlatformTypeOK
<1>5. /\ \A g \in Guids : /\ app'[g].state = app[g].state
                          /\ app[g].doomed => app'[g].doomed
                          /\ app'[g].doomed => app[g].doomed \/ g = dep[d].guid
      /\ step = "ok" => app'[dep[d].guid].doomed
  BY <1>2 DEF DoomedApp, Live, IInv, TypeOK, PlatformTypeOK, AppRecord
<1>6. TypeOK' /\ UniqueName' /\ OwnObjects' /\ OwnRoutes'
  BY <1>1, <1>3, <1>4, <1>5 DEF IInv, TypeOK, PlatformTypeOK, ProvTypeOK, UniqueName,
    OwnObjects, OwnRoutes, Live
<1>7. HoldsTheResponsibility' /\ RoutesRead'
  BY <1>1, <1>3, <1>5 DEF IInv, HoldsTheResponsibility, RoutesRead, SameInstance,
    Live, LooseRoute, Exists, Handling, BeforeLookup
<1>8. SurvivorsOverlap'
  <2> SUFFICES ASSUME NEW e \in Deprovisions, dep'[e].pc = "ok", NEW p \in Guids,
                      SameInstance(p, e), ~Condemned(p)'
               PROVE  p \in Overlap(e)
    BY <1>3 DEF SurvivorsOverlap, SameInstance
  <2>1. ~Condemned(p)
    BY <1>5 DEF Condemned, Live
  <2>2. CASE e # d
    BY <1>3, <2>1, <2>2 DEF IInv, SurvivorsOverlap
  <2>3. CASE e = d /\ p = dep[d].guid
    BY <1>3, <1>5, <2>3 DEF Condemned
  <2>4. CASE e = d /\ p # dep[d].guid
    BY <1>1, <2>1, <2>4 DEF IInv, HoldsTheResponsibility, Condemned, Handling,
      BeforeLookup
  <2>5. QED
    BY <2>2, <2>3, <2>4
<1>9. DoomedByHandler'
  <2> SUFFICES ASSUME NEW g \in Guids
               PROVE  /\ app'[g].state = "deleted" => app'[g].doomed
                      /\ app'[g].doomed => \E e \in Deprovisions :
                           /\ dep[e].guid = g
                           /\ \A r \in Guids : LooseRoute(r, g) => r \in Overlap(e)
    BY <1>1, <1>3 DEF DoomedByHandler, LooseRoute, Exists
  <2>1. CASE app[g].doomed \/ ~app'[g].doomed
    BY <1>5, <2>1 DEF IInv, DoomedByHandler
  <2>2. CASE app'[g].doomed /\ g = dep[d].guid
    BY <1>1, <1>5, <2>2 DEF IInv, DoomedByHandler, RoutesRead
  <2>3. QED
    BY <1>5, <2>1, <2>2
<1>10. QED
  BY <1>3, <1>6, <1>7, <1>8, <1>9 DEF IInv

\* The jobs remove only what was queued, and start nothing.
LEMMA JobStep ==
  ASSUME IInv, NEW x \in Guids,
         PlaceInstances(x) \/ DeleteAppJob(x) \/ DeleteRouteJob(x),
         UNCHANGED <<prov, dep, during, later>>
  PROVE  IInv'
<1> USE DEF Provisions
<1>1. /\ app' \in [Guids -> AppRecord]
      /\ \A g \in Guids : /\ app'[g].doomed = app[g].doomed
                          /\ Live(g)' => Live(g)
                          /\ IsStarted(g)' => IsStarted(g)
                          /\ app'[g].state = "deleted" => app[g].state = "deleted"
                                                          \/ app[g].doomed
  <2>1. CASE DeleteAppJob(x)
    <3>1. /\ app' = [app EXCEPT ![x].state = "deleted", ![x].running = NoEnv,
                               ![x].placed = FALSE]
          /\ app[x].doomed
      BY <2>1 DEF DeleteAppJob
    <3>2. app' \in [Guids -> AppRecord]
      <4>1. NoEnv \in Environment
        BY DEF NoEnv, Environment
      <4>2. app \in [Guids -> AppRecord]
        BY DEF IInv, TypeOK, PlatformTypeOK
      <4>3. app' = [app EXCEPT ![x] = [app[x] EXCEPT !.state = "deleted",
                                       !.running = NoEnv, !.placed = FALSE]]
        BY <3>1, <4>2 DEF AppRecord
      <4>4. [app[x] EXCEPT !.state = "deleted", !.running = NoEnv, !.placed = FALSE]
              \in AppRecord
        BY <4>1, <4>2 DEF AppRecord
      <4>5. QED
        BY ONLY <4>2, <4>3, <4>4
    <3>3. QED
      BY <3>1, <3>2 DEF IInv, TypeOK, PlatformTypeOK, AppRecord, Live, IsStarted
  <2>2. CASE DeleteRouteJob(x)
    BY <2>2 DEF DeleteRouteJob, IInv, TypeOK, PlatformTypeOK, Live, IsStarted
  <2>3. CASE PlaceInstances(x)
    BY <2>3 DEF PlaceInstances, IInv, TypeOK, PlatformTypeOK, AppRecord, Live, IsStarted
  <2>4. QED
    BY <2>1, <2>2, <2>3
<1>2. /\ route' \in [Guids -> RouteRecord]
      /\ \A r \in Guids : /\ route'[r].dest = route[r].dest
                          /\ route'[r].doomed = route[r].doomed
                          /\ Exists(r)' => Exists(r)
  BY DEF PlaceInstances, DeleteAppJob, DeleteRouteJob, IInv, TypeOK, PlatformTypeOK,
    RouteRecord, Exists
<1>3. \A r, g \in Guids : LooseRoute(r, g)' => LooseRoute(r, g)
  BY <1>2 DEF LooseRoute
<1>4. \A d \in Deprovisions : Overlap(d)' = Overlap(d) /\ LookedUp(d)' = LookedUp(d)
  BY DEF Overlap, LookedUp
<1>5. TypeOK' /\ UniqueName' /\ OwnObjects' /\ OwnRoutes'
  BY <1>1, <1>2 DEF IInv, TypeOK, PlatformTypeOK, ProvTypeOK, DepTypeOK, UniqueName,
    OwnObjects, OwnRoutes
<1>6. OverlapCovers' /\ HandlesOwnInstance'
  BY <1>4 DEF IInv, OverlapCovers, HandlesOwnInstance, Running, SameInstance
<1>7. HoldsTheResponsibility' /\ SurvivorsOverlap'
  BY <1>1, <1>4 DEF IInv, HoldsTheResponsibility, SurvivorsOverlap, Condemned,
    SameInstance
<1>8. RoutesRead'
  <2> SUFFICES ASSUME NEW d \in Deprovisions, dep[d].pc \in {"stop", "deleteRoutes"},
                      NEW r \in Guids, LooseRoute(r, dep[d].guid)'
               PROVE  r \in dep[d].routes \cup Overlap(d)
    BY <1>4 DEF RoutesRead
  <2>1. dep[d].guid \in Guids
    BY DEF IInv, HandlesOwnInstance, Handling, BeforeLookup, TypeOK, DepTypeOK, DepRecord
  <2>2. LooseRoute(r, dep[d].guid)
    BY <1>2, <2>1 DEF LooseRoute
  <2>3. QED
    BY <2>2 DEF IInv, RoutesRead
<1>9. DoomedByHandler'
  BY <1>1, <1>3, <1>4 DEF IInv, DoomedByHandler
<1>10. QED
  BY <1>5, <1>6, <1>7, <1>8, <1>9 DEF IInv

\* A crash ends goroutines and handlers and leaves the platform alone.
LEMMA CrashStep ==
  ASSUME IInv, Crash
  PROVE  IInv'
<1> USE DEF Provisions
<1>1. UNCHANGED <<app, route, during, later>>
  BY DEF Crash
<1>2. /\ prov' \in [Provisions -> ProvRecord]
      /\ \A p \in Provisions : /\ ~Running(p)'
                               /\ prov'[p].guid = prov[p].guid
                               /\ prov'[p].url = prov[p].url
  <2>1. "failed" \in EndPcs /\ "failed" \notin RunningPcs
    BY DEF EndPcs, RunningPcs, StagingCalls, StartCalls, RestartCalls
  <2>2. QED
    BY <2>1 DEF Crash, IInv, TypeOK, ProvTypeOK, ProvRecord, Running
<1>3. /\ dep' \in [Deprovisions -> DepRecord]
      /\ \A d \in Deprovisions :
           /\ dep'[d].guid = dep[d].guid
           /\ \/ dep'[d].pc = "failed" /\ dep[d].pc \in Handling
              \/ dep'[d] = dep[d] /\ dep[d].pc \notin Handling
  BY DEF Crash, IInv, TypeOK, DepTypeOK, DepRecord
<1>4. \A d \in Deprovisions : /\ Overlap(d)' = Overlap(d)
                              /\ LookedUp(d) => LookedUp(d)'
                              /\ dep'[d].pc \notin Handling
                              /\ dep'[d].pc = "ok" => dep[d].pc = "ok"
  BY <1>1, <1>3 DEF Overlap, LookedUp, BeforeLookup, Handling
<1>5. TypeOK' /\ UniqueName' /\ OwnObjects' /\ OwnRoutes'
  BY <1>1, <1>2, <1>3 DEF IInv, TypeOK, PlatformTypeOK, ProvTypeOK, DepTypeOK,
    UniqueName, OwnObjects, OwnRoutes, Live
<1>6. OverlapCovers' /\ HandlesOwnInstance' /\ HoldsTheResponsibility'
  BY <1>1, <1>2, <1>3, <1>4 DEF IInv, OverlapCovers, HandlesOwnInstance,
    HoldsTheResponsibility, SameInstance
<1>7. SurvivorsOverlap'
  BY <1>1, <1>4 DEF IInv, SurvivorsOverlap, Condemned, Live, SameInstance
<1>8. RoutesRead'
  BY <1>4 DEF RoutesRead, Handling
<1>9. DoomedByHandler'
  BY <1>1, <1>3, <1>4 DEF IInv, DoomedByHandler, LooseRoute, Exists
<1>10. QED
  BY <1>5, <1>6, <1>7, <1>8, <1>9 DEF IInv

\* Every step preserves the invariant.
LEMMA NextStep == IInv /\ [Next]_vars => IInv'
<1> SUFFICES ASSUME IInv, [Next]_vars PROVE IInv'
  OBVIOUS
<1>1. CASE \E p \in Provisions : ProvisionCall(p) \/ Goroutine(p)
  BY <1>1, ProvisionCallStep, GoroutineIStep
<1>2. CASE \E d \in Deprovisions : DeprovisionCall(d) \/ Handler(d)
  BY <1>2, DeprovisionCallStep, LookupStep, ReadRoutesStep, StopStep, DeleteRouteStep,
    DeleteApplicationStep DEF Handler, HandlerStep
<1>3. CASE Job
  BY <1>3, JobStep DEF Job
<1>4. CASE Crash
  BY <1>4, CrashStep
<1>5. CASE UNCHANGED vars
  BY <1>5 DEF vars, IInv, TypeOK, PlatformTypeOK, ProvTypeOK, DepTypeOK, UniqueName,
    OwnObjects, OwnRoutes, OverlapCovers, HandlesOwnInstance, HoldsTheResponsibility,
    SurvivorsOverlap, RoutesRead, DoomedByHandler, LooseRoute, Exists, Live, Condemned,
    Running, Overlap, LookedUp, SameInstance
<1>6. QED
  BY <1>1, <1>2, <1>3, <1>4, <1>5 DEF Next, LifecycleStep

(***************************************************************************)
(* Stopped applications.                                                   *)
(***************************************************************************)
\* Whether handler d is about to delete an application that has been started.
DeletesStarted(d) == DepAt(d, "deleteRoutes") /\ IsStarted(dep[d].guid)

\* The application a handler has stopped is started by nobody but a goroutine
\* in the handler's history.
LEMMA StartedByOverlap ==
  ASSUME IInv, [Next]_vars, NEW d \in Deprovisions, DeletesStarted(d)'
  PROVE  /\ Overlap(d) \subseteq Overlap(d)'
         /\ \/ DeletesStarted(d) /\ dep'[d].guid = dep[d].guid
            \/ dep'[d].guid \in Overlap(d)'
<1> USE DEF IInv, TypeOK, PlatformTypeOK, DeletesStarted, DepAt, IsStarted, Provisions
<1>1. CASE \E p \in Provisions : ProvisionCall(p)
  BY <1>1 DEF ProvisionCall, Provision, Overlap
<1>2. CASE \E p \in Provisions : Goroutine(p)
  <2>1. PICK p \in Provisions : Goroutine(p)
    BY <1>2
  <2>2. /\ UNCHANGED <<dep, during, later>>
        /\ \A g \in Guids \ {p} : app'[g] = app[g]
        /\ Running(p)
    BY <2>1, GoroutineApp, GoroutineMoves DEF Goroutine
  <2>3. LookedUp(d) /\ SameInstance(dep[d].guid, d)
    BY <2>2, PlatformAssumption DEF HandlesOwnInstance
  <2>4. QED
    BY <2>2, <2>3 DEF OverlapCovers, Overlap
<1>3. CASE \E e \in Deprovisions : DeprovisionCall(e)
  BY <1>3 DEF DeprovisionCall, Deprovision, DepGoto, DepTypeOK, DepRecord, Overlap
<1>4. CASE \E e \in Deprovisions : Handler(e)
  <2>1. PICK e \in Deprovisions : Handler(e)
    BY <1>4
  <2>2. CASE GetApplicationByNameAndSpace(e)
    <3>1. app' = app /\ later' = later /\ e # d
      BY <2>1, <2>2 DEF Handler, GetApplicationByNameAndSpace, DepGoto, DepTypeOK,
        DepRecord
    <3>2. dep'[d] = dep[d] /\ during'[d] = during[d]
      BY <2>1, <2>2, <3>1 DEF Handler, GetApplicationByNameAndSpace, DepGoto, DepTypeOK
    <3>3. QED
      BY <3>1, <3>2 DEF Overlap
  <2>3. CASE GetApplicationRoutes(e)
    <3>1. app' = app /\ UNCHANGED <<during, later>> /\ dep'[d] = dep[d]
      BY <2>1, <2>3 DEF Handler, GetApplicationRoutes, DepGoto, DepTypeOK, DepRecord
    <3>2. QED
      BY <3>1 DEF Overlap
  <2>4. CASE UpdateApplicationStop(e)
    <3>1. UNCHANGED <<during, later>>
      BY <2>1, <2>4 DEF Handler, UpdateApplicationStop
    <3>2. PICK reply \in Replies(Live(dep[e].guid)) :
            /\ app' = IF TakesEffect(reply) THEN StoppedApp(dep[e].guid) ELSE app
            /\ DepProceed(e, reply, "deleteRoutes")
      BY <2>4 DEF UpdateApplicationStop
    <3>3. TakesEffect(reply) => dep[e].guid \in Guids
      BY <3>2 DEF Replies, TakesEffect, Live
    <3>4. \A g \in Guids : app'[g].state = "started" => app[g].state = "started"
      BY <3>2, <3>3 DEF StoppedApp, AppRecord
    <3>5. e # d
      <4>1. SUFFICES ASSUME e = d PROVE FALSE
        OBVIOUS
      <4>2. reply = "ok" /\ dep'[d].guid = dep[d].guid
        BY <2>4, <3>2, <4>1 DEF UpdateApplicationStop, DepProceed, DepGoto, DepTypeOK,
          DepRecord
      <4>3. app'[dep[d].guid].state = "stopped"
        BY <3>2, <3>3, <4>1, <4>2 DEF StoppedApp, AppRecord, TakesEffect
      <4>4. QED
        BY <4>2, <4>3
    <3>6. dep'[d] = dep[d]
      BY <3>2, <3>5 DEF DepProceed, DepGoto, DepTypeOK
    <3>7. QED
      BY <3>1, <3>4, <3>6 DEF Overlap
  <2>5. CASE DeleteRoute(e) \/ DeleteApplication(e)
    <3>1. /\ UNCHANGED <<during, later>>
          /\ dep'[d].guid = dep[d].guid
          /\ DepAt(d, "deleteRoutes")' => DepAt(d, "deleteRoutes")
      BY <2>1, <2>5 DEF Handler, DeleteRoute, DeleteApplication, DepProceed, DepGoto,
        DepTypeOK, DepRecord
    <3>2. \A g \in Guids : app'[g].state = app[g].state
      BY <2>5 DEF DeleteRoute, DeleteApplication, DoomedApp, AppRecord
    <3>3. QED
      BY <3>1, <3>2 DEF Overlap
  <2>6. QED
    BY <2>1, <2>2, <2>3, <2>4, <2>5 DEF Handler, HandlerStep
<1>5. CASE Job
  <2>1. \A g \in Guids : app'[g].state = "started" => app[g].state = "started"
    BY <1>5 DEF Job, PlaceInstances, DeleteAppJob, DeleteRouteJob, IsStarted, AppRecord
  <2>2. QED
    BY <1>5, <2>1 DEF Job, Overlap
<1>6. CASE Crash
  <2>1. ~DepAt(d, "deleteRoutes")'
    BY <1>6 DEF Crash, Handling, DepTypeOK, DepRecord
  <2>2. QED
    BY <2>1
<1>7. CASE UNCHANGED vars
  BY <1>7 DEF vars, Overlap
<1>8. QED
  BY <1>1, <1>2, <1>3, <1>4, <1>5, <1>6, <1>7 DEF Next, LifecycleStep

(***************************************************************************)
(* What instances run with.                                                *)
(***************************************************************************)
\* Nothing has begun at the start.
LEMMA NothingBegun ==
  Init => \A p \in Provisions : /\ prov[p].pc = "idle" /\ ~Running(p)
                                /\ prov[p].pc \notin RoutedCalls
                                /\ app[p].state = "absent" /\ ~app[p].droplet
<1>1. Init => \A p \in Provisions : prov[p].pc = "idle"
  BY DEF Init, ProvInit
<1>2. Init => \A p \in Provisions : app[p].state = "absent" /\ ~app[p].droplet
  BY DEF Init, PlatformInit, Provisions
<1>3. "idle" \notin RunningPcs /\ "idle" \notin RoutedCalls
  BY DEF RunningPcs, StagingCalls, StartCalls, RestartCalls, RoutedCalls
<1>4. QED
  BY <1>1, <1>2, <1>3 DEF Running

\* The calls that come after the route is mapped, one by one.
LEMMA RoutedCallsAre ==
  RoutedCalls = StartCalls \cup RestartCalls \cup
    {"scale", "pollScale", "peers", "registryParams", "registryEnv", "peersAgain",
     "push", "monitor"}
BY DEF RoutedCalls, RunningPcs, StagingCalls, StartCalls, RestartCalls

\* What the order of the code says of call p; its application may run without a
\* route only if somebody else has hold of it.
InOrder(p, held) ==
  /\ Running(p) /\ prov[p].pc \notin {"begin", "environment"} =>
       app[p].env["json"] # NoGuid
  /\ prov[p].pc \in RoutedCalls => route[p].dest = p
  /\ app[p].droplet => app[p].env["json"] # NoGuid
  /\ IsStarted(p) => app[p].running["json"] # NoGuid /\ (route[p].dest = p \/ held)

\* A goroutine keeps to the order of the code.
LEMMA GoroutineInOrder ==
  ASSUME TypeOK, TypeOK', OwnObjects, NEW p \in Provisions, NEW held \in BOOLEAN,
         InOrder(p, held), Goroutine(p)
  PROVE  InOrder(p, held)'
<1> DEFINE g == prov[p].guid
<1> USE DEF TypeOK, PlatformTypeOK, ProvTypeOK, Provisions, InOrder, Running, IsStarted
<1>0. /\ p \in Guids /\ p # NoGuid /\ NoGuid \notin Guids
      /\ g \in {p, NoGuid} /\ prov[p].url \in {p, NoGuid}
  BY PlatformAssumption DEF OwnObjects
<1>1. \A step : Goto(p, step) => prov'[p].pc = step
  BY DEF Goto, ProvRecord
<1>2. \A reply, step : Proceed(p, reply, step) =>
        prov'[p].pc = IF reply = "ok" THEN step ELSE "failed"
  BY <1>1 DEF Proceed
<1>3. {"failed", "done"} \cap RunningPcs = {} /\ RoutedCalls \subseteq RunningPcs
  BY DEF RoutedCalls, RunningPcs, StagingCalls, StartCalls, RestartCalls
<1>4. {"begin", "domains", "createRoute", "mapRoute"} \cap RoutedCalls = {}
      /\ StagingCalls \cap RoutedCalls = {} /\ RoutedCalls \cap {"begin", "environment"} = {}
  BY DEF RoutedCalls, StagingCalls
<1>5. CASE \/ StartInstances(p) \/ PollScale(p) \/ ReadPeers(p) \/ ReadPeersAgain(p)
           \/ PushPeers(p) \/ MonitorApplicationStartup(p)
  <2>1. UNCHANGED <<app, route>>
    BY <1>5 DEF StartInstances, PollScale, ReadPeers, ReadPeersAgain, PushPeers,
      MonitorApplicationStartup
  <2>2. prov'[p].pc \in {"failed", "done"} \/ prov[p].pc \in RoutedCalls
    BY <1>1, <1>5, RoutedCallsAre DEF StartInstances, PollScale, ReadPeers, ReadPeersAgain,
      PushPeers, MonitorApplicationStartup, At
  <2>3. QED
    BY <1>3, <1>4, <2>1, <2>2
<1>6. CASE CreateApplication(p)
  <2>1. prov'[p].pc \in {"environment", "failed"} /\ route' = route
    BY <1>1, <1>6 DEF CreateApplication, ProvRecord
  <2>2. /\ app'[p].state = "started" => app'[p] = app[p]
        /\ app'[p].env = app[p].env /\ app'[p].droplet = app[p].droplet
    BY <1>0, <1>6 DEF CreateApplication, CreatedApp, AppRecord
  <2>3. "environment" \notin RoutedCalls
    BY <1>4
  <2>4. QED
    BY <1>3, <2>1, <2>2, <2>3
<1>7. CASE Stage(p)
  <2>1. PICK reply \in Replies(Live(g)) :
          /\ app' = IF TakesEffect(reply) THEN StagingEffect(prov[p].pc, g, p) ELSE app
          /\ Proceed(p, reply, AfterStaging(prov[p].pc))
    BY <1>7 DEF Stage
  <2>2. prov[p].pc \in StagingCalls /\ route' = route
    BY <1>7 DEF Stage
  <2>3. prov'[p].pc \notin RoutedCalls
    <3>1. AfterStaging(prov[p].pc) \in StagingCalls \cup {"domains"}
      BY DEF AfterStaging, StagingCalls
    <3>2. QED
      BY <1>2, <1>3, <1>4, <2>1, <3>1
  <2>4. app'[p].state = app[p].state /\ app'[p].running = app[p].running
    BY <1>0, <2>1 DEF StagingEffect, PatchedEnv, DropletSet, AppRecord
  <2>5. app[p].env["json"] # NoGuid => app'[p].env["json"] # NoGuid
    BY <1>0, <2>1 DEF StagingEffect, PatchedEnv, DropletSet, AppRecord, EnvGroups
  <2>6. prov[p].pc = "environment" /\ reply = "ok" => app'[p].env["json"] # NoGuid
    <3>1. SUFFICES ASSUME prov[p].pc = "environment", reply = "ok"
                   PROVE  app'[p].env["json"] # NoGuid
      OBVIOUS
    <3>2. g = p
      BY <1>0, <2>1, <3>1 DEF Replies, Live
    <3>3. app' = PatchedEnv(p, {"params", "profiles", "json"}, p)
      BY <2>1, <3>1, <3>2 DEF TakesEffect, StagingEffect
    <3>4. QED
      BY <1>0, <3>3 DEF PatchedEnv, AppRecord, EnvGroups
  <2>7. "begin" \notin StagingCalls /\ StagingCalls \subseteq RunningPcs
    BY DEF StagingCalls, RunningPcs
  <2>8. app'[p].droplet => app[p].droplet \/ prov[p].pc = "droplet"
    BY <1>0, <2>1 DEF StagingEffect, PatchedEnv, DropletSet, AppRecord
  <2>9. app'[p].droplet => app'[p].env["json"] # NoGuid
    BY <2>2, <2>5, <2>7, <2>8
  <2>10. QED
    BY <1>2, <1>3, <2>1, <2>2, <2>3, <2>4, <2>5, <2>6, <2>7, <2>9
<1>8. CASE GetDomains(p) \/ CreateRoute(p)
  <2>1. app' = app /\ route' \in {route, CreatedRoute(p)}
    BY <1>8 DEF GetDomains, CreateRoute
  <2>5. route'[p].dest = route[p].dest
    BY <1>0, <2>1 DEF CreatedRoute, RouteRecord
  <2>2. prov'[p].pc \in {"createRoute", "mapRoute", "failed"}
    <3>1. GetDomains(p) => prov'[p].pc \in {"createRoute", "failed"}
      BY <1>2 DEF GetDomains
    <3>2. CreateRoute(p) => prov'[p].pc \in {"mapRoute", "failed"}
      BY <1>1 DEF CreateRoute, ProvRecord
    <3>3. QED
      BY <1>8, <3>1, <3>2
  <2>3. prov[p].pc \in RunningPcs \ {"begin", "environment"}
    BY <1>8 DEF GetDomains, CreateRoute, At, RunningPcs
  <2>4. QED
    BY <1>3, <1>4, <2>1, <2>2, <2>3, <2>5
<1>9. CASE MapRoute(p)
  <2>1. PICK reply \in Replies(Live(g) /\ Exists(prov[p].url)) :
          /\ route' = IF TakesEffect(reply) THEN MappedRoute(prov[p].url, g) ELSE route
          /\ Proceed(p, reply, IF IsRegistry(NameOf[p]) THEN "start" ELSE "restart")
    BY <1>9 DEF MapRoute
  <2>2. app' = app /\ prov[p].pc \in RunningPcs \ {"begin", "environment"}
    BY <1>9 DEF MapRoute, At, RunningPcs
  <2>3. TakesEffect(reply) => g = p /\ prov[p].url = p
    BY <1>0, <2>1 DEF Replies, TakesEffect, Live, Exists
  <2>4. route'[p].dest = IF TakesEffect(reply) THEN p ELSE route[p].dest
    BY <1>0, <2>1, <2>3 DEF MappedRoute, RouteRecord
  <2>5. prov'[p].pc = "failed" \/ TakesEffect(reply)
    BY <1>2, <2>1 DEF TakesEffect
  <2>6. QED
    BY <1>3, <2>2, <2>4, <2>5
<1>10. CASE UpdateApplicationStart(p) \/ UpdateApplicationRestart(p)
  <2>1. prov[p].pc \in RoutedCalls /\ route' = route
    BY <1>10, RoutedCallsAre DEF UpdateApplicationStart, UpdateApplicationRestart
  <2>2. app[p].env["json"] # NoGuid /\ route[p].dest = p
    BY <1>3, <1>4, <2>1
  <2>3. \/ app' = app
        \/ Startable(g) /\ app' \in {StartedApp(g), RestartedApp(g)}
    BY <1>10 DEF UpdateApplicationStart, UpdateApplicationRestart, Replies, TakesEffect
  <2>4. app'[p].env = app[p].env /\ app'[p].droplet = app[p].droplet
        /\ app'[p].running \in {app[p].running, app[p].env}
        /\ (IsStarted(p)' => IsStarted(p) \/ app'[p].running = app[p].env)
    <3>1. CASE app' = app
      BY <3>1
    <3>2. CASE Startable(g) /\ app' \in {StartedApp(g), RestartedApp(g)}
      <4>1. g = p
        BY <1>0, <3>2 DEF Startable, Live
      <4>2. QED
        BY <1>0, <3>2, <4>1 DEF StartedApp, RestartedApp, AppRecord
    <3>3. QED
      BY <2>3, <3>1, <3>2
  <2>5. QED
    BY <2>1, <2>2, <2>4
<1>11. CASE ScaleRegistryServer(p) \/ PatchRegistryParams(p) \/ UpdateRegistryEnvironment(p)
  <2>1. prov[p].pc \in RoutedCalls /\ route' = route
    BY <1>11, RoutedCallsAre DEF ScaleRegistryServer, PatchRegistryParams,
      UpdateRegistryEnvironment, At
  <2>2. PICK n \in Counts, groups \in SUBSET EnvGroups :
          app' \in {app, ScaledApp(g, n), PatchedEnv(g, groups, p)}
    <3>1. prov[p].count \in Counts
      BY DEF ProvRecord
    <3>2. QED
      BY <1>11, <3>1 DEF ScaleRegistryServer, PatchRegistryParams,
        UpdateRegistryEnvironment, EnvGroups
  <2>3. /\ app[p].env["json"] # NoGuid => app'[p].env["json"] # NoGuid
        /\ app'[p].state = app[p].state /\ app'[p].running = app[p].running
        /\ app'[p].droplet = app[p].droplet
    BY <1>0, <2>2 DEF ScaledApp, PatchedEnv, AppRecord, EnvGroups
  <2>4. QED
    BY <1>3, <1>4, <2>1, <2>3
<1>12. QED
  BY <1>5, <1>6, <1>7, <1>8, <1>9, <1>10, <1>11 DEF Goroutine, GoroutineStep

\* So does everybody else: handlers and jobs start nothing, and unmap nothing.
LEMMA InOrderStep ==
  ASSUME IInv, IInv', [Next]_vars, NEW p \in Provisions, NEW held \in BOOLEAN,
         InOrder(p, held)
  PROVE  InOrder(p, held)'
<1> DEFINE Kept == /\ app'[p].env = app[p].env /\ app'[p].droplet = app[p].droplet
                   /\ app'[p].state = "started" =>
                        app[p].state = "started" /\ app'[p].running = app[p].running
                   /\ route'[p].dest = route[p].dest
                   /\ prov'[p].pc = prov[p].pc \/ prov'[p].pc \in {"begin", "failed"}
<1> USE DEF IInv, TypeOK, PlatformTypeOK, ProvTypeOK, Provisions
<1>1. ASSUME Kept PROVE InOrder(p, held)'
  <2>1. {"begin", "failed"} \cap RoutedCalls = {} /\ "failed" \notin RunningPcs
    BY DEF RoutedCalls, RunningPcs, StagingCalls, StartCalls, RestartCalls
  <2>2. QED
    BY <1>1, <2>1 DEF InOrder, Running, IsStarted
<1>2. CASE \E q \in Provisions : ProvisionCall(q)
  BY <1>1, <1>2 DEF ProvisionCall, Provision, Goto, ProvRecord
<1>3. CASE Goroutine(p)
  BY <1>3, GoroutineInOrder
<1>4. CASE \E q \in Provisions \ {p} : Goroutine(q)
  BY <1>1, <1>4, GoroutineMoves, GoroutineApp, GoroutineRoute
<1>5. CASE \E d \in Deprovisions : DeprovisionCall(d)
  BY <1>1, <1>5 DEF DeprovisionCall, Deprovision
<1>6. CASE \E d \in Deprovisions : Handler(d)
  <2>1. PICK d \in Deprovisions : Handler(d)
    BY <1>6
  <2>2. prov' = prov
    BY <2>1 DEF Handler
  <2>3. \/ app' = app
        \/ Live(dep[d].guid) /\ app' \in {StoppedApp(dep[d].guid), DoomedApp(dep[d].guid)}
    BY <2>1 DEF Handler, HandlerStep, GetApplicationByNameAndSpace, GetApplicationRoutes,
      UpdateApplicationStop, DeleteRoute, DeleteApplication, TakesEffect, Replies
  <2>4. route' = route \/ \E r \in dep[d].routes : route' = DoomedRoute(r)
    BY <2>1 DEF Handler, HandlerStep, GetApplicationByNameAndSpace, GetApplicationRoutes,
      UpdateApplicationStop, DeleteRoute, DeleteApplication
  <2>5. route'[p].dest = route[p].dest
    BY <2>4 DEF DoomedRoute, RouteRecord
  <2>6. Kept
    BY <2>2, <2>3, <2>5 DEF StoppedApp, DoomedApp, AppRecord, Live
  <2>7. QED
    BY <1>1, <2>6
<1>7. CASE Job
  <2>1. PICK g \in Guids : PlaceInstances(g) \/ DeleteAppJob(g) \/ DeleteRouteJob(g)
    BY <1>7 DEF Job
  <2>2. prov' = prov
    BY <1>7 DEF Job
  <2>3. CASE DeleteAppJob(g)
    BY <1>1, <2>2, <2>3 DEF DeleteAppJob, AppRecord
  <2>4. CASE DeleteRouteJob(g)
    BY <1>1, <2>2, <2>4 DEF DeleteRouteJob, RouteRecord
  <2>5. CASE PlaceInstances(g)
    BY <1>1, <2>2, <2>5 DEF PlaceInstances, AppRecord
  <2>6. QED
    BY <2>1, <2>3, <2>4, <2>5
<1>8. CASE Crash
  BY <1>1, <1>8 DEF Crash, ProvRecord
<1>9. CASE UNCHANGED vars
  BY <1>1, <1>9 DEF vars
<1>10. QED
  BY <1>2, <1>3, <1>4, <1>5, <1>6, <1>7, <1>8, <1>9 DEF Next, LifecycleStep

(***************************************************************************)
(* Routes that lead nowhere.                                               *)
(***************************************************************************)
\* Only CreateRoute makes such a route, and only MapRoute or a failure comes
\* after it.
LEMMA StrayStep ==
  ASSUME IInv, StrayRoutesExplained, [Next]_vars
  PROVE  StrayRoutesExplained'
<1> DEFINE Stray(r) == Exists(r) /\ route[r].dest = NoGuid
<1> USE DEF IInv, TypeOK, PlatformTypeOK, ProvTypeOK, Provisions, At, Exists
<1>1. SUFFICES ASSUME NEW r \in Guids, Stray(r)'
               PROVE  prov'[r].pc \in {"mapRoute", "failed"}
  BY DEF StrayRoutesExplained
<1>2. Stray(r) => prov[r].pc \in {"mapRoute", "failed"}
  BY DEF StrayRoutesExplained
<1>3. "mapRoute" \in RunningPcs /\ "failed" \notin RunningPcs
  BY DEF RunningPcs, StagingCalls, StartCalls, RestartCalls
<1>4. CASE \E q \in Provisions : ProvisionCall(q)
  <2>1. PICK q \in Provisions : ProvisionCall(q)
    BY <1>4
  <2>2. prov[q].pc = "idle" /\ route' = route /\ prov' = [prov EXCEPT ![q].pc = "begin"]
    BY <2>1 DEF ProvisionCall, Provision, Goto
  <2>3. QED
    BY <1>1, <1>2, <2>2
<1>5. CASE Goroutine(r)
  <2>1. \A step : Goto(r, step) => prov'[r].pc = step
    BY DEF Goto, ProvRecord
  <2>2. CASE CreateRoute(r)
    BY <2>1, <2>2 DEF CreateRoute, ProvRecord
  <2>3. CASE MapRoute(r)
    <3>1. PICK reply \in Replies(Live(prov[r].guid) /\ Exists(prov[r].url)) :
            /\ route' = IF TakesEffect(reply)
                          THEN MappedRoute(prov[r].url, prov[r].guid) ELSE route
            /\ Proceed(r, reply, IF IsRegistry(NameOf[r]) THEN "start" ELSE "restart")
      BY <2>3 DEF MapRoute
    <3>2. CASE reply = "ok"
      <4>1. prov[r].url = r /\ prov[r].guid = r
        BY <3>1, <3>2, PlatformAssumption DEF Replies, Live, OwnObjects
      <4>2. route'[r].dest = r
        BY <3>1, <3>2, <4>1 DEF TakesEffect, MappedRoute, RouteRecord
      <4>3. QED
        BY <1>1, <4>2, PlatformAssumption
    <3>3. CASE reply # "ok"
      BY <2>1, <3>1, <3>3 DEF Proceed
    <3>4. QED
      BY <3>2, <3>3
  <2>4. CASE ~CreateRoute(r) /\ ~MapRoute(r)
    <3>1. route' = route /\ prov[r].pc \notin {"mapRoute", "failed"}
      BY <1>3, <1>5, <2>4 DEF Goroutine, GoroutineStep, StartInstances, CreateApplication,
        Stage, GetDomains, UpdateApplicationStart, UpdateApplicationRestart,
        ScaleRegistryServer, PollScale, ReadPeers, PatchRegistryParams,
        UpdateRegistryEnvironment, ReadPeersAgain, PushPeers, MonitorApplicationStartup,
        StagingCalls, StartCalls, RestartCalls
    <3>2. QED
      BY <1>1, <1>2, <3>1
  <2>5. QED
    BY <2>2, <2>3, <2>4
<1>6. CASE \E q \in Provisions \ {r} : Goroutine(q)
  BY <1>1, <1>2, <1>6, GoroutineMoves, GoroutineRoute
<1>7. CASE \E d \in Deprovisions : DeprovisionCall(d) \/ Handler(d)
  <2>1. PICK d \in Deprovisions : DeprovisionCall(d) \/ Handler(d)
    BY <1>7
  <2>2. prov' = prov /\ (route' = route \/ \E x \in dep[d].routes : route' = DoomedRoute(x))
    BY <2>1 DEF DeprovisionCall, Deprovision, Handler, HandlerStep,
      GetApplicationByNameAndSpace, GetApplicationRoutes, UpdateApplicationStop,
      DeleteRoute, DeleteApplication
  <2>3. route'[r].state = route[r].state /\ route'[r].dest = route[r].dest
    BY <2>2 DEF DoomedRoute, RouteRecord
  <2>4. QED
    BY <1>1, <1>2, <2>2, <2>3
<1>8. CASE Job
  BY <1>1, <1>2, <1>8 DEF Job, PlaceInstances, DeleteAppJob, DeleteRouteJob, RouteRecord
<1>9. CASE Crash
  BY <1>1, <1>2, <1>9 DEF Crash, ProvRecord
<1>10. CASE UNCHANGED vars
  BY <1>1, <1>2, <1>10 DEF vars
<1>11. QED
  BY <1>4, <1>5, <1>6, <1>7, <1>8, <1>9, <1>10 DEF Next, LifecycleStep

(***************************************************************************)
(* The results.                                                            *)
(***************************************************************************)

\* The strengthening holds of every behaviour of the broker and the platform.
THEOREM Invariance == Spec => []IInv
<1>1. Init => IInv
  BY InitIInv
<1>2. IInv /\ [Next]_vars => IInv'
  BY NextStep
<1>3. QED
  BY <1>1, <1>2, PTL DEF Spec

\* Every variable keeps its type.
THEOREM TypeCorrect == Spec => []TypeOK
<1>1. IInv => TypeOK
  BY DEF IInv
<1>2. QED
  BY <1>1, Invariance, PTL

\* Of two Provision calls of one instance the loser never disturbs what the
\* winner builds (create_registry_server_instance.go:68-335): a goroutine, at
\* whatever call it is and whatever fails, changes no application and no route
\* but those it created.
THEOREM LeavesOthersAloneHolds == Spec => LeavesOthersAlone
<1>1. IInv /\ [Next]_vars =>
        \A p \in Provisions : prov'[p] # prov[p] =>
          \A g \in Guids \ {p} : app'[g] = app[g] /\ route'[g] = route[g]
  <2> SUFFICES ASSUME IInv, [Next]_vars, NEW p \in Provisions, prov'[p] # prov[p],
                      NEW g \in Guids \ {p}
               PROVE  app'[g] = app[g] /\ route'[g] = route[g]
    OBVIOUS
  <2>1. CASE \E q \in Provisions : ProvisionCall(q)
    BY <2>1 DEF ProvisionCall, Provision
  <2>2. CASE \E q \in Provisions : Goroutine(q)
    <3>1. PICK q \in Provisions : Goroutine(q)
      BY <2>2
    <3>2. q = p
      BY <3>1, GoroutineMoves DEF IInv
    <3>3. QED
      BY <3>1, <3>2, GoroutineApp, GoroutineRoute DEF IInv
  <2>3. CASE \/ \E d \in Deprovisions : DeprovisionCall(d) \/ Handler(d)
             \/ Job
             \/ UNCHANGED vars
    BY <2>3 DEF DeprovisionCall, Handler, Job, vars
  <2>4. CASE Crash
    BY <2>4 DEF Crash
  <2>5. QED
    BY <2>1, <2>2, <2>3, <2>4 DEF Next, LifecycleStep
<1>2. QED
  BY <1>1, Invariance, PTL DEF Spec, LeavesOthersAlone

\* A successful Deprovision leaves standing only what a Provision that
\* overlapped it, or came later, created (deprovision.go:11-55).
THEOREM SurvivorsOverlapHolds == Spec => []SurvivorsOverlap
<1>1. IInv => SurvivorsOverlap
  BY DEF IInv
<1>2. QED
  BY <1>1, Invariance, PTL

\* An application whose routes a Deprovision deletes stays stopped
\* (deprovision.go:34) unless the goroutine that created it is at work.
THEOREM StoppedWhileDeletedHolds == Spec => []StoppedWhileDeleted
<1>1. Init => StoppedWhileDeleted
  BY DEF Init, DepInit, StoppedWhileDeleted, DepAt
<1>2. IInv /\ StoppedWhileDeleted /\ [Next]_vars => StoppedWhileDeleted'
  <2> SUFFICES ASSUME IInv, StoppedWhileDeleted, [Next]_vars, NEW d \in Deprovisions,
                      DeletesStarted(d)'
               PROVE  dep'[d].guid \in Overlap(d)'
    BY DEF StoppedWhileDeleted, DeletesStarted
  <2>1. QED
    BY StartedByOverlap DEF StoppedWhileDeleted, DeletesStarted
<1>3. QED
  BY <1>1, <1>2, Invariance, PTL DEF Spec

\* A deleted application had been queued by a handler that answers for its
\* routes.
LEMMA OrphansByIInv == IInv => OrphanRoutesExplained
<1> SUFFICES ASSUME IInv, NEW r \in Provisions, Exists(r), ~route[r].doomed,
                    route[r].dest # NoGuid, app[route[r].dest].state = "deleted"
             PROVE  \E d \in Deprovisions :
                      dep[d].guid = route[r].dest /\ r \in Overlap(d)
  BY DEF OrphanRoutesExplained
<1>1. route[r].dest = r /\ r \in Guids
  BY DEF IInv, OwnRoutes, Provisions
<1>2. QED
  BY <1>1 DEF IInv, DoomedByHandler, LooseRoute

\* Routes outlive their application only when its goroutine raced the
\* Deprovision that read them (deprovision.go:29-52).
THEOREM OrphanRoutesExplainedHolds == Spec => []OrphanRoutesExplained
BY OrphansByIInv, Invariance, PTL

\* Instances run only with the environment UpdateAppEnvironment wrote and with
\* their route mapped (create_config_server_instance.go:65 and 170,
\* create_registry_server_instance.go:86 and 191), whatever fails on the way.
THEOREM RunsConfiguredHolds == Spec => []RunsConfigured
<1>1. Init => DoneInOrder /\ RunsConfigured
  BY NothingBegun DEF DoneInOrder, RunsConfigured, IsStarted
<1>2. IInv /\ IInv' /\ DoneInOrder /\ RunsConfigured /\ [Next]_vars
        => DoneInOrder' /\ RunsConfigured'
  <2> SUFFICES ASSUME IInv, IInv', DoneInOrder, RunsConfigured, [Next]_vars
               PROVE  DoneInOrder' /\ RunsConfigured'
    OBVIOUS
  <2>1. \A p \in Provisions : InOrder(p, FALSE)
    BY DEF DoneInOrder, RunsConfigured, InOrder
  <2>2. \A p \in Provisions : InOrder(p, FALSE)'
    BY <2>1, InOrderStep
  <2>3. QED
    BY <2>2 DEF DoneInOrder, RunsConfigured, InOrder
<1>3. QED
  BY <1>1, <1>2, Invariance, PTL DEF Spec

\* A route that leads nowhere is one that its goroutine is about to map, or
\* failed to (create_registry_server_instance.go:184-194).
THEOREM StrayRoutesExplainedHolds == Spec => []StrayRoutesExplained
<1>1. Init => StrayRoutesExplained
  BY DEF Init, PlatformInit, StrayRoutesExplained, Exists
<1>2. QED
  BY <1>1, StrayStep, Invariance, PTL DEF Spec

-----------------------------------------------------------------------------
(***************************************************************************)
(* Lifecycle implements InstanceLife: every step is one step of the life   *)
(* of one application, a request to go, or nothing.                        *)
(***************************************************************************)
\* The phase of an application record, case by case.
LEMMA PhaseCases ==
  ASSUME NEW a \in AppRecord
  PROVE  /\ PhaseOf(a) = "absent"  <=> a.state = "absent"
         /\ PhaseOf(a) = "gone"    <=> a.state = "deleted"
         /\ PhaseOf(a) = "going"   <=> a.state \in {"stopped", "started"} /\ a.doomed
         /\ PhaseOf(a) = "idle"    <=> a.state = "stopped" /\ ~a.doomed
         /\ PhaseOf(a) = "running" <=> a.state = "started" /\ ~a.doomed
<1>1. a.state \in {"absent", "stopped", "started", "deleted"} /\ a.doomed \in BOOLEAN
  BY DEF AppRecord
<1>2. CASE a.state = "absent"
  BY <1>2 DEF PhaseOf
<1>3. CASE a.state = "deleted"
  BY <1>3 DEF PhaseOf
<1>4. CASE a.state = "stopped"
  BY <1>4, <1>1 DEF PhaseOf
<1>5. CASE a.state = "started"
  BY <1>5, <1>1 DEF PhaseOf
<1>6. QED
  BY <1>1, <1>2, <1>3, <1>4, <1>5

\* A step that keeps state and mark of every application but one changes no
\* other phase.
LEMMA OthersKeepPhase ==
  ASSUME PlatformTypeOK, PlatformTypeOK', NEW x \in Guids,
         \A g \in Guids \ {x} :
           app'[g].state = app[g].state /\ app'[g].doomed = app[g].doomed
  PROVE  Phase' = [Phase EXCEPT ![x] = PhaseOf(app'[x])]
<1>1. \A g \in Guids \ {x} : PhaseOf(app'[g]) = PhaseOf(app[g])
  BY DEF PhaseOf
<1>2. QED
  BY <1>1 DEF Phase

\* Calls keep being made; nothing else is a request to go.
LEMMA AskedGrows ==
  ASSUME DepTypeOK, NEW d \in Deprovisions, dep[d].pc # "idle",
         \A e \in Deprovisions \ {d} : dep'[e] = dep[e],
         dep'[d].pc # "idle"
  PROVE  Asked' = Asked
<1>1. \A e \in Deprovisions : dep'[e].pc # "idle" <=> dep[e].pc # "idle"
  OBVIOUS
<1>2. QED
  BY <1>1 DEF Asked

(***************************************************************************)
(* One more invariant: what has not begun was never there.                 *)
(***************************************************************************)
LEMMA NotBuiltYetInit == Init => NotBuiltYet
BY DEF Init, PlatformInit, ProvInit, NotBuiltYet, Provisions

\* Only the goroutine itself creates its application, and it is past its
\* beginning then.
LEMMA NotBuiltYetStep ==
  ASSUME IInv, NotBuiltYet, [Next]_vars
  PROVE  NotBuiltYet'
<1> USE DEF IInv, TypeOK, PlatformTypeOK, Provisions
<1>1. CASE \E p \in Provisions : ProvisionCall(p)
  <2>1. PICK p \in Provisions : ProvisionCall(p)
    BY <1>1
  <2>2. app' = app /\ prov[p].pc = "idle"
    BY <2>1 DEF ProvisionCall, Provision, At
  <2>3. \A q \in Provisions \ {p} : prov'[q] = prov[q]
    BY <2>1 DEF ProvisionCall, Provision, Goto, ProvTypeOK
  <2>4. QED
    BY <2>2, <2>3 DEF NotBuiltYet
<1>2. CASE \E p \in Provisions : Goroutine(p)
  <2>1. PICK p \in Provisions : Goroutine(p)
    BY <1>2
  <2>2. /\ prov'[p].pc \notin {"idle", "begin"}
        /\ \A q \in Provisions \ {p} : prov'[q] = prov[q]
    BY <2>1, GoroutineMoves
  <2>3. \A g \in Guids \ {p} : app'[g] = app[g]
    BY <2>1, GoroutineApp
  <2>4. QED
    BY <2>2, <2>3 DEF NotBuiltYet
<1>3. CASE \E d \in Deprovisions : DeprovisionCall(d)
  BY <1>3 DEF DeprovisionCall, Deprovision, NotBuiltYet
<1>4. CASE \E d \in Deprovisions : Handler(d)
  <2>1. PICK d \in Deprovisions : Handler(d)
    BY <1>4
  <2>2. prov' = prov
    BY <2>1 DEF Handler
  <2>3. \/ app' = app
        \/ Live(dep[d].guid) /\ app' \in {StoppedApp(dep[d].guid), DoomedApp(dep[d].guid)}
    BY <2>1 DEF Handler, HandlerStep, GetApplicationByNameAndSpace, GetApplicationRoutes,
      UpdateApplicationStop, DeleteRoute, DeleteApplication, TakesEffect, Replies
  <2>4. \A g \in Guids : app[g].state = "absent" => app'[g] = app[g]
    BY <2>3 DEF StoppedApp, DoomedApp, Live
  <2>5. QED
    BY <2>2, <2>4 DEF NotBuiltYet
<1>5. CASE Job
  <2>1. \A g \in Guids : app[g].state = "absent" => app'[g] = app[g]
    BY <1>5 DEF Job, PlaceInstances, DeleteAppJob, DeleteRouteJob, IsStarted, Live
  <2>2. QED
    BY <1>5, <2>1 DEF Job, NotBuiltYet
<1>6. CASE Crash
  <2>1. \A p \in Provisions : prov'[p].pc \in {"idle", "begin"} => prov[p].pc \in {"idle", "begin"}
    BY <1>6 DEF Crash, Running, ProvTypeOK, ProvRecord
  <2>2. QED
    BY <1>6, <2>1 DEF Crash, NotBuiltYet
<1>7. CASE UNCHANGED vars
  BY <1>7 DEF vars, NotBuiltYet
<1>8. QED
  BY <1>1, <1>2, <1>3, <1>4, <1>5, <1>6, <1>7 DEF Next, LifecycleStep

(***************************************************************************)
(* The refinement, step by step.                                           *)
(***************************************************************************)
\* The space is empty and nobody has asked for anything.
LEMMA LifeInitHolds == Init => Life!LifeInit
<1> SUFFICES ASSUME Init PROVE Life!LifeInit
  OBVIOUS
<1>1. Phase = [g \in Guids |-> "absent"]
  BY DEF Init, PlatformInit, Phase, PhaseOf
<1>2. Asked = {}
  BY DEF Init, DepInit, Asked
<1>3. QED
  BY <1>1, <1>2 DEF Life!LifeInit

\* A goroutine builds its application once, and runs it.
LEMMA GoroutineLives ==
  ASSUME IInv, IInv', NotBuiltYet, NEW p \in Provisions, Goroutine(p)
  PROVE  [Life!LifeNext]_(Life!lifeVars)
<1> USE DEF IInv, TypeOK, PlatformTypeOK, Provisions
<1>1. /\ \A g \in Guids \ {p} : app'[g] = app[g]
      /\ app'[p].doomed = app[p].doomed
      /\ AppAfter(p)
  BY GoroutineApp
<1>2. Phase' = [Phase EXCEPT ![p] = PhaseOf(app'[p])]
  BY <1>1, OthersKeepPhase
<1>3. Asked' = Asked
  BY DEF Goroutine, Asked
<1>4. app[p] \in AppRecord /\ app'[p] \in AppRecord
  OBVIOUS
<1>5. CASE app'[p].state = app[p].state
  <2>1. PhaseOf(app'[p]) = PhaseOf(app[p])
    BY <1>1, <1>5 DEF PhaseOf
  <2>2. Phase' = Phase
    BY <1>2, <2>1 DEF Phase
  <2>3. QED
    BY <1>3, <2>2 DEF Life!lifeVars
<1>6. CASE Live(p) /\ app'[p].state = "started"
  <2>1. CASE PhaseOf(app'[p]) = PhaseOf(app[p])
    BY <1>2, <1>3, <2>1 DEF Phase, Life!lifeVars
  <2>2. CASE PhaseOf(app'[p]) # PhaseOf(app[p])
    <3>1. PhaseOf(app[p]) = "idle" /\ PhaseOf(app'[p]) = "running"
      BY <1>1, <1>4, <1>6, <2>2, PhaseCases DEF Live
    <3>2. Life!Run(p)
      BY <1>2, <1>3, <3>1 DEF Phase, Life!Run, Life!Enter
    <3>3. QED
      BY <3>2 DEF Life!LifeNext
  <2>3. QED
    BY <2>1, <2>2
<1>7. CASE prov[p].pc = "begin" /\ ~NameTaken(NameOf[p]) /\ app'[p].state = "stopped"
  <2>1. PhaseOf(app[p]) = "absent" /\ PhaseOf(app'[p]) = "idle"
    BY <1>1, <1>4, <1>7, PhaseCases DEF NotBuiltYet
  <2>2. \A g \in Guids : NameOf[g] = NameOf[p] => ~Live(g)
    BY <1>7 DEF NameTaken
  <2>3. \A g \in Guids : NameOf[g] = NameOf[p] =>
          PhaseOf(app[g]) \notin {"idle", "running", "going"}
    BY <2>2, PhaseCases DEF Live
  <2>4. Life!Standing(NameOf[p]) = {}
    BY <2>3 DEF Life!Standing, Phase
  <2>5. Life!Build(p)
    BY <1>2, <1>3, <2>1, <2>4 DEF Phase, Life!Build, Life!Enter
  <2>6. QED
    BY <2>5 DEF Life!LifeNext
<1>8. QED
  BY <1>1, <1>5, <1>6, <1>7 DEF AppAfter

\* A handler stops or condemns an application of the instance it was asked
\* to remove.
LEMMA HandlerLives ==
  ASSUME IInv, IInv', NEW d \in Deprovisions, Handler(d)
  PROVE  [Life!LifeNext]_(Life!lifeVars)
<1> DEFINE g == dep[d].guid
<1> USE DEF IInv, TypeOK, PlatformTypeOK, Provisions
<1>1. /\ dep[d].pc # "idle" /\ dep'[d].pc # "idle"
      /\ \A e \in Deprovisions \ {d} : dep'[e] = dep[e]
  BY DEF Handler, HandlerStep, GetApplicationByNameAndSpace, GetApplicationRoutes,
    UpdateApplicationStop, DeleteRoute, DeleteApplication, DepAt, DepGoto, DepProceed,
    DepTypeOK, DepRecord
<1>2. Asked' = Asked /\ TargetOf[d] \in Asked
  BY <1>1, AskedGrows DEF Asked
<1>3. CASE app' = app
  BY <1>2, <1>3 DEF Phase, Life!lifeVars
<1>4. CASE Live(g) /\ app' \in {StoppedApp(g), DoomedApp(g)}
  <2>1. g \in Guids /\ NameOf[g] = TargetOf[d]
    BY <1>4, PlatformAssumption DEF Live, HandlesOwnInstance, SameInstance
  <2>2. /\ \A x \in Guids \ {g} : app'[x] = app[x]
        /\ app[g].state \in {"stopped", "started"}
        /\ \/ app'[g].state = "stopped" /\ app'[g].doomed = app[g].doomed
           \/ app'[g].state = app[g].state /\ app'[g].doomed
    BY <1>4, <2>1 DEF StoppedApp, DoomedApp, Live, AppRecord
  <2>3. Phase' = [Phase EXCEPT ![g] = PhaseOf(app'[g])]
    BY <2>1, <2>2, OthersKeepPhase
  <2>4. app[g] \in AppRecord /\ app'[g] \in AppRecord
    BY <2>1
  <2>5. CASE PhaseOf(app'[g]) = PhaseOf(app[g])
    <3>1. Phase' = Phase
      BY <2>1, <2>3, <2>5 DEF Phase
    <3>2. QED
      BY <1>2, <3>1 DEF Life!lifeVars
  <2>6. CASE PhaseOf(app'[g]) # PhaseOf(app[g])
    <3>1. \/ PhaseOf(app[g]) = "running" /\ PhaseOf(app'[g]) = "idle"
          \/ PhaseOf(app[g]) \in {"idle", "running"} /\ PhaseOf(app'[g]) = "going"
      BY <2>2, <2>4, <2>6, PhaseCases
    <3>2. Life!Stop(g) \/ Life!Condemn(g)
      BY <1>2, <2>1, <2>3, <3>1 DEF Phase, Life!Stop, Life!Condemn, Life!Enter
    <3>3. QED
      BY <2>1, <3>2 DEF Life!LifeNext
  <2>7. QED
    BY <2>5, <2>6
<1>5. QED
  BY <1>3, <1>4 DEF Handler, HandlerStep, GetApplicationByNameAndSpace,
    GetApplicationRoutes, UpdateApplicationStop, DeleteRoute, DeleteApplication,
    TakesEffect, Replies

\* Every step of the broker and the platform is one of a plain life.
LEMMA StepLives ==
  ASSUME IInv, IInv', NotBuiltYet, [Next]_vars
  PROVE  [Life!LifeNext]_(Life!lifeVars)
<1> USE DEF IInv, TypeOK, PlatformTypeOK, Provisions
<1>1. CASE \E p \in Provisions : ProvisionCall(p)
  <2>1. app' = app /\ dep' = dep
    BY <1>1 DEF ProvisionCall, Provision
  <2>2. QED
    BY <2>1 DEF Phase, Asked, Life!lifeVars
<1>2. CASE \E p \in Provisions : Goroutine(p)
  BY <1>2, GoroutineLives
<1>3. CASE \E d \in Deprovisions : DeprovisionCall(d)
  <2>1. PICK d \in Deprovisions : DeprovisionCall(d)
    BY <1>3
  <2>2. app' = app /\ dep' = [dep EXCEPT ![d].pc = "lookup"]
    BY <2>1 DEF DeprovisionCall, Deprovision, DepGoto
  <2>3. \A e \in Deprovisions : dep'[e].pc # "idle" <=> dep[e].pc # "idle" \/ e = d
    BY <2>2 DEF DepTypeOK, DepRecord
  <2>4. Asked' = Asked \cup {TargetOf[d]} /\ Phase' = Phase
    BY <2>2, <2>3 DEF Asked, Phase
  <2>5. TargetOf[d] \in Names
    BY DeprovisionAssumption
  <2>6. QED
    BY <2>4, <2>5 DEF Life!LifeNext, Life!Ask
<1>4. CASE \E d \in Deprovisions : Handler(d)
  BY <1>4, HandlerLives
<1>5. CASE Job
  <2>1. Asked' = Asked
    BY <1>5 DEF Job, Asked
  <2>2. CASE app' = app
    BY <2>1, <2>2 DEF Phase, Life!lifeVars
  <2>3. PICK x \in Guids : PlaceInstances(x) \/ DeleteAppJob(x) \/ DeleteRouteJob(x)
    BY <1>5 DEF Job
  <2>4. CASE DeleteRouteJob(x)
    BY <2>2, <2>4 DEF DeleteRouteJob
  <2>5. CASE PlaceInstances(x)
    <3>1. /\ \A g \in Guids \ {x} : app'[g] = app[g]
          /\ app'[x].state = app[x].state /\ app'[x].doomed = app[x].doomed
      BY <2>5 DEF PlaceInstances, AppRecord
    <3>2. PhaseOf(app'[x]) = PhaseOf(app[x])
      BY <3>1 DEF PhaseOf
    <3>3. Phase' = Phase
      BY <3>1, <3>2 DEF Phase
    <3>4. QED
      BY <2>1, <3>3 DEF Life!lifeVars
  <2>6. CASE DeleteAppJob(x)
    <3>1. /\ \A g \in Guids \ {x} : app'[g] = app[g]
          /\ app[x].state \in {"stopped", "started"} /\ app[x].doomed
          /\ app'[x].state = "deleted"
      BY <2>6 DEF DeleteAppJob, Live, AppRecord
    <3>2. PhaseOf(app[x]) = "going" /\ PhaseOf(app'[x]) = "gone"
      BY <3>1, PhaseCases
    <3>3. Phase' = [Phase EXCEPT ![x] = "gone"]
      BY <3>1, <3>2, OthersKeepPhase
    <3>4. Life!Vanish(x)
      BY <2>1, <3>2, <3>3 DEF Phase, Life!Vanish, Life!Enter
    <3>5. QED
      BY <3>4 DEF Life!LifeNext
  <2>7. QED
    BY <2>3, <2>4, <2>5, <2>6
<1>6. CASE Crash
  <2>1. app' = app
    BY <1>6 DEF Crash
  <2>2. \A d \in Deprovisions : dep'[d].pc # "idle" <=> dep[d].pc # "idle"
    BY <1>6 DEF Crash, Handling, DepTypeOK, DepRecord
  <2>3. QED
    BY <2>1, <2>2 DEF Phase, Asked, Life!lifeVars
<1>7. CASE UNCHANGED vars
  BY <1>7 DEF vars, Phase, Asked, Life!lifeVars
<1>8. QED
  BY <1>1, <1>2, <1>3, <1>4, <1>5, <1>6, <1>7 DEF Next, LifecycleStep

\* Seen from outside, an application is built once and beside no other of its
\* instance, and stops or goes for good only after a Deprovision of the
\* instance was made, for any number of calls and any faults.
THEOREM LifeImplemented == Spec => ImplementsLife
<1>1. Init => Life!LifeInit /\ NotBuiltYet
  BY LifeInitHolds, NotBuiltYetInit
<1>2. IInv /\ NotBuiltYet /\ [Next]_vars => NotBuiltYet'
  BY NotBuiltYetStep
<1>3. IInv /\ IInv' /\ NotBuiltYet /\ [Next]_vars => [Life!LifeNext]_(Life!lifeVars)
  BY StepLives
<1>4. QED
  BY <1>1, <1>2, <1>3, Invariance, PTL DEF Spec, ImplementsLife, Life!LifeSpec
=============================================================================
