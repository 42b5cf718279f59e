---------------------------- MODULE Provisioning ----------------------------
(***************************************************************************)
(* Provision and the goroutine it leaves behind (provision.go,             *)
(* create_service_instances.go, create_config_server_instance.go,          *)
(* create_registry_server_instance.go).  The handler answers at once; the  *)
(* goroutine then makes one Cloud Controller call after another, and gives *)
(* up at the first error without undoing anything.                         *)
(*                                                                         *)
(* One action is one call to the Cloud Controller with the code that acts  *)
(* on its reply.                                                           *)
(***************************************************************************)
EXTENDS Platform

VARIABLE prov           \* the Provision calls and their goroutines

Provisions == Guids

\* Calls that need nothing but the application, in the order of the code.
StagingCalls ==
  { "environment", "javaConfig", "package", "upload", "pollPackage", "build",
    "pollBuild", "droplet" }

StartCalls   == {"start", "startAgain", "recover"}
RestartCalls == {"restart", "startRetry", "startAgainRetry", "recoverRetry"}

RunningPcs ==
  {"begin"} \cup StagingCalls \cup {"domains", "createRoute", "mapRoute"}
    \cup StartCalls \cup RestartCalls
    \cup { "scale", "pollScale", "peers", "registryParams", "registryEnv",
           "peersAgain", "push", "monitor" }

EndPcs == {"done", "failed"}      \* failed: an error, or the broker died

ProvRecord ==
  [ pc    : {"idle"} \cup RunningPcs \cup EndPcs,
    guid  : Guids \cup {NoGuid},   \* app.GUID
    url   : Guids \cup {NoGuid},   \* route.GUID
    count : Counts ]               \* the instances asked for

ProvTypeOK == prov \in [Provisions -> ProvRecord]

ProvInit ==
  prov = [p \in Provisions |-> [ pc |-> "idle", guid |-> NoGuid, url |-> NoGuid,
                                 count |-> 1 ]]

Running(p)   == prov[p].pc \in RunningPcs
Clustered(p) == prov[p].count > 1

At(p, step) == prov[p].pc = step

Goto(p, step) == prov' = [prov EXCEPT ![p].pc = step]

\* Any error ends the goroutine; what it has built stays.
Proceed(p, reply, next) == Goto(p, IF reply = "ok" THEN next ELSE "failed")

(***************************************************************************)
(* The handler: spawn the goroutine and report success.                    *)
(***************************************************************************)
Provision(p) ==
  /\ At(p, "idle")
  /\ Goto(p, "begin")
  /\ UNCHANGED <<app, route>>

(***************************************************************************)
(* The goroutine, up to its first call: parameters that do not parse, an   *)
(* invalid count, or no session with the Cloud Controller end it.          *)
(***************************************************************************)
StartInstances(p) ==
  /\ At(p, "begin")
  /\ Faults \cap {"params", "error"} # {}
  /\ Goto(p, "failed")
  /\ UNCHANGED <<app, route>>

\* Mutant: on a name conflict, carry on with the application that has the name.
AdoptApplication(p) ==
  /\ At(p, "begin")
  /\ \E g \in Guids :
       /\ IF NameTaken(NameOf[p]) THEN Live(g) /\ NameOf[g] = NameOf[p] ELSE g = p
       /\ app' = IF NameTaken(NameOf[p]) THEN app ELSE CreatedApp(p)
       /\ prov' = [prov EXCEPT ![p].pc = "environment", ![p].guid = g]
  /\ UNCHANGED route

CreateApplication(p) ==
  /\ At(p, "begin")
  /\ \E reply \in Replies(~NameTaken(NameOf[p])),
        n \in IF IsRegistry(NameOf[p]) THEN Counts ELSE {1} :
       /\ app' = IF TakesEffect(reply) THEN CreatedApp(p) ELSE app
       /\ IF reply = "ok"
            THEN prov' = [prov EXCEPT ![p].pc = "environment", ![p].guid = p,
                                      ![p].count = n]
            ELSE Goto(p, "failed")
  /\ UNCHANGED route

\* The order of the calls from CreateApplication to CreateRoute.
\* Mutant: the droplet is never set.
SkipDroplet(step) ==
  CASE step = "environment" -> "javaConfig"
    [] step = "javaConfig"  -> "package"
    [] step = "package"     -> "upload"
    [] step = "upload"      -> "pollPackage"
    [] step = "pollPackage" -> "build"
    [] step = "build"       -> "pollBuild"
    [] OTHER                -> "domains"

AfterStaging(step) ==
  CASE step = "environment" -> "javaConfig"
    [] step = "javaConfig"  -> "package"
    [] step = "package"     -> "upload"
    [] step = "upload"      -> "pollPackage"
    [] step = "pollPackage" -> "build"
    [] step = "build"       -> "pollBuild"
    [] step = "pollBuild"   -> "droplet"
    [] OTHER                -> "domains"

StagingEffect(step, g, writer) ==
  CASE step = "environment" -> PatchedEnv(g, {"params", "profiles", "json"}, writer)
    [] step = "droplet"     -> DropletSet(g)
    [] OTHER                -> app

Stage(p) ==
  /\ prov[p].pc \in StagingCalls
  /\ \E reply \in Replies(Live(prov[p].guid)) :
       /\ app' = IF TakesEffect(reply)
                   THEN StagingEffect(prov[p].pc, prov[p].guid, p) ELSE app
       /\ Proceed(p, reply, AfterStaging(prov[p].pc))
  /\ UNCHANGED route

GetDomains(p) ==
  /\ At(p, "domains")
  /\ \E reply \in Replies(TRUE) : Proceed(p, reply, "createRoute")
  /\ UNCHANGED <<app, route>>

CreateRoute(p) ==
  /\ At(p, "createRoute")
  /\ \E reply \in Replies(~HostTaken(NameOf[p])) :
       /\ route' = IF TakesEffect(reply) THEN CreatedRoute(p) ELSE route
       /\ IF reply = "ok"
            THEN prov' = [prov EXCEPT ![p].pc = "mapRoute", ![p].url = p]
            ELSE Goto(p, "failed")
  /\ UNCHANGED app

\* Mutant: an error of MapRoute is logged and forgotten.
MapRouteUnchecked(p) ==
  /\ At(p, "mapRoute")
  /\ \E reply \in Replies(Live(prov[p].guid) /\ Exists(prov[p].url)) :
       route' = IF TakesEffect(reply)
                  THEN MappedRoute(prov[p].url, prov[p].guid) ELSE route
  /\ Goto(p, IF IsRegistry(NameOf[p]) THEN "start" ELSE "restart")
  /\ UNCHANGED app

\* Mutant: the route is created and never mapped.
ForgetsToMap(p) ==
  /\ At(p, "mapRoute")
  /\ Goto(p, IF IsRegistry(NameOf[p]) THEN "start" ELSE "restart")
  /\ UNCHANGED <<app, route>>

MapRoute(p) ==
  /\ At(p, "mapRoute")
  /\ \E reply \in Replies(Live(prov[p].guid) /\ Exists(prov[p].url)) :
       /\ route' = IF TakesEffect(reply)
                     THEN MappedRoute(prov[p].url, prov[p].guid) ELSE route
       /\ Proceed(p, reply, IF IsRegistry(NameOf[p]) THEN "start" ELSE "restart")
  /\ UNCHANGED app

(***************************************************************************)
(* Starting.  The registry's goroutine assigns the reply of Start to its   *)
(* variable app even when the call fails, and the reply of a failed call   *)
(* is a zero Application: the Restart it then tries names no application.  *)
(***************************************************************************)
RetryOf(step) ==
  CASE step = "start"      -> "startRetry"
    [] step = "startAgain" -> "startAgainRetry"
    [] OTHER               -> "recoverRetry"

AfterStart(p) ==
  CASE prov[p].pc \in {"start", "startRetry"} ->
         IF Clustered(p) THEN "scale" ELSE "registryParams"
    [] prov[p].pc \in {"startAgain", "startAgainRetry"} -> "peersAgain"
    [] OTHER -> "done"

UpdateApplicationStart(p) ==
  /\ prov[p].pc \in StartCalls
  /\ \E reply \in Replies(Startable(prov[p].guid)) :
       /\ app' = IF TakesEffect(reply) THEN StartedApp(prov[p].guid) ELSE app
       /\ IF reply = "ok"
            THEN Goto(p, AfterStart(p))
            ELSE prov' = [prov EXCEPT ![p].pc = RetryOf(prov[p].pc),
                                      ![p].guid = NoGuid]
  /\ UNCHANGED route

UpdateApplicationRestart(p) ==
  /\ prov[p].pc \in RestartCalls
  /\ \E reply \in Replies(Startable(prov[p].guid)) :
       /\ app' = IF TakesEffect(reply) THEN RestartedApp(prov[p].guid) ELSE app
       /\ Proceed(p, reply, AfterStart(p))
  /\ UNCHANGED route

(***************************************************************************)
(* The rest is the registry's.  A refused scale is only logged; the poll   *)
(* of the zero Process it returned fails in its place.                     *)
(***************************************************************************)
ScaleRegistryServer(p) ==
  /\ At(p, "scale")
  /\ \E reply \in Replies(Live(prov[p].guid)) :
       /\ app' = IF TakesEffect(reply)
                   THEN ScaledApp(prov[p].guid, prov[p].count) ELSE app
       /\ Proceed(p, reply, "pollScale")
  /\ UNCHANGED route

(***************************************************************************)
(* pollScale has no timeout: it ends when it counts exactly as many        *)
(* instances as were asked for, or when a poll fails.                      *)
(***************************************************************************)
\* Mutant: instances that are starting count as well.
CountStarting(p) ==
  /\ At(p, "pollScale")
  /\ IsStarted(prov[p].guid) /\ Goto(p, "peers")
  /\ UNCHANGED <<app, route>>

PollScale(p) ==
  /\ At(p, "pollScale")
  /\ \/ MayCount(prov[p].guid, prov[p].count) /\ Goto(p, "peers")
     \/ /\ ~Live(prov[p].guid) \/ "error" \in Faults
        /\ Goto(p, "failed")
  /\ UNCHANGED <<app, route>>

\* The statistics have an entry for every instance of the application, with the
\* ports of those that have been placed; see LacksPorts for the others.  Without
\* statistics the goroutine returns no error this first time.
ReadPeers(p) ==
  /\ At(p, "peers")
  /\ \/ \E reply \in Replies(Live(prov[p].guid)) :
          /\ reply = "ok" => HavePorts(prov[p].guid)
          /\ Goto(p, IF reply = "ok" THEN "registryParams" ELSE "done")
     \/ "error" \in Faults /\ Goto(p, "failed")        \* GetCommunity
  /\ UNCHANGED <<app, route>>

\* UpdateRegistryEnvironment patches the parameters, one by one, and then the
\* rest at once.
PatchRegistryParams(p) ==
  /\ At(p, "registryParams")
  /\ \E reply \in Replies(Live(prov[p].guid)) :
       /\ app' = IF TakesEffect(reply)
                   THEN PatchedEnv(prov[p].guid, {"params"}, p) ELSE app
       /\ Proceed(p, reply, "registryEnv")
  /\ UNCHANGED route

UpdateRegistryEnvironment(p) ==
  /\ At(p, "registryEnv")
  /\ \E reply \in Replies(Live(prov[p].guid)) :
       /\ app' = IF TakesEffect(reply)
                   THEN PatchedEnv(prov[p].guid, {"profiles", "peers"}, p) ELSE app
       /\ Proceed(p, reply, "startAgain")
  /\ UNCHANGED route

ReadPeersAgain(p) ==
  /\ At(p, "peersAgain")
  /\ \E reply \in Replies(Clustered(p) => Live(prov[p].guid)) :
       /\ reply = "ok" /\ Clustered(p) => HavePorts(prov[p].guid)
       /\ Proceed(p, reply, "push")
  /\ UNCHANGED <<app, route>>

\* An answer of any status is as good as another; see MayPanic for none.
PushPeers(p) ==
  /\ At(p, "push")
  /\ Goto(p, "monitor")
  /\ UNCHANGED <<app, route>>

\* Mutant: timepassed is never incremented, so only a failure ends the watch.
WatchForever(p) ==
  /\ At(p, "monitor")
  /\ ~IsStarted(prov[p].guid)
  /\ Goto(p, "recover")
  /\ UNCHANGED <<app, route>>

\* An instance may crash while it is watched, or be seen in good health for
\* thirty seconds; without instances the watch fails.
MonitorApplicationStartup(p) ==
  /\ At(p, "monitor")
  /\ \/ Goto(p, "recover")
     \/ IsStarted(prov[p].guid) /\ Goto(p, "done")
  /\ UNCHANGED <<app, route>>

(***************************************************************************)
(* A panic in a goroutine is not recovered.  The first element of an empty *)
(* InstancePorts is one: the instances that pollScale has counted have     *)
(* been restarted or stopped since.  That takes no fault.  Others do:      *)
(* parameters the parser rejects with log.Panicf, an instance that has     *)
(* crashed (which counts as scaled), and a peer that does not answer (the  *)
(* response is nil and is dereferenced all the same).                      *)
(***************************************************************************)
LacksPorts(p) ==
  /\ Clustered(p) /\ prov[p].pc \in {"peers", "peersAgain"}
  /\ Live(prov[p].guid) /\ ~HavePorts(prov[p].guid)

MayPanic(p) ==
  \/ LacksPorts(p)
  \/ /\ "panic" \in Faults
     /\ \/ At(p, "begin")
        \/ Clustered(p) /\ prov[p].pc \in {"peers", "peersAgain", "push"}

GoroutineStep(p) ==
  \/ StartInstances(p) \/ CreateApplication(p) \/ Stage(p) \/ GetDomains(p)
  \/ CreateRoute(p) \/ MapRoute(p)
  \/ UpdateApplicationStart(p) \/ UpdateApplicationRestart(p)
  \/ ScaleRegistryServer(p) \/ PollScale(p) \/ ReadPeers(p)
  \/ PatchRegistryParams(p) \/ UpdateRegistryEnvironment(p)
  \/ ReadPeersAgain(p) \/ PushPeers(p) \/ MonitorApplicationStartup(p)
=============================================================================
