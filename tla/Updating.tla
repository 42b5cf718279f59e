------------------------------ MODULE Updating ------------------------------
(***************************************************************************)
(* Update (update.go, update_config_server_instance.go,                    *)
(* update_registry_server_instance.go): find the application by name,      *)
(* patch its environment, scale a registry, restart, tell the peers.  An   *)
(* error is returned at once and nothing is undone; a panic is recovered   *)
(* by net/http and is one more way to fail.                                *)
(***************************************************************************)
EXTENDS Platform

CONSTANTS
  Updates,        \* the Update calls
  UpdateTarget,   \* UpdateTarget[u]: the application name call u is about
  Parameterless   \* the Update calls whose request has no parameters

ASSUME UpdateAssumption ==
  /\ UpdateTarget \in [Updates -> Names]
  /\ Updates \subseteq Requests
  /\ Parameterless \subseteq Updates

VARIABLE upd      \* the handlers of the Update calls

\* The calls that either fail, which ends the handler, or lead to the next.
PlainCalls ==
  {"environment", "updateApp", "scale", "registryParams", "registryEnv", "restart"}

Updating == {"lookup", "processes", "pollScale", "peers", "routes", "push"} \cup PlainCalls

UpdRecord ==
  [ pc    : {"idle", "ok", "failed"} \cup Updating,
    guid  : Guids \cup {NoGuid},   \* app.GUID
    count : Counts ]

UpdTypeOK == upd \in [Updates -> UpdRecord]

UpdInit == upd = [u \in Updates |-> [pc |-> "idle", guid |-> NoGuid, count |-> 1]]

UpdAt(u, step) == upd[u].pc = step

UpdGoto(u, step) == upd' = [upd EXCEPT ![u].pc = step]

\* Mutant: the reply is returned as it came.
UpdReturnsReply(u, reply, next) == UpdGoto(u, IF reply = "ok" THEN next ELSE reply)

UpdProceed(u, reply, next) == UpdGoto(u, IF reply = "ok" THEN next ELSE "failed")

ForRegistry(u) == IsRegistry(UpdateTarget[u])

Update(u) ==
  /\ UpdAt(u, "idle")
  /\ UpdGoto(u, "lookup")
  /\ UNCHANGED <<app, route>>

\* Besides a refused call, the count may be invalid and the parameters may not
\* parse; those of a request without any are an empty text, which never does.
FindApplication(u) ==
  /\ UpdAt(u, "lookup")
  /\ \/ \E g \in Guids, n \in IF ForRegistry(u) THEN Counts ELSE {1} :
          /\ Live(g) /\ NameOf[g] = UpdateTarget[u]
          /\ upd' = [upd EXCEPT ![u].guid = g, ![u].count = n,
               ![u].pc = IF u \in Parameterless THEN "failed" ELSE "environment"]
     \/ /\ ~NameTaken(UpdateTarget[u]) \/ Faults \cap {"error", "params"} # {}
        /\ UpdGoto(u, "failed")
  /\ UNCHANGED <<app, route>>

AfterScale(u) == IF upd[u].count > 1 THEN "peers" ELSE "registryParams"

AfterPlainCall(u) ==
  CASE UpdAt(u, "environment")    -> "updateApp"
    [] UpdAt(u, "updateApp")      -> IF ForRegistry(u) THEN "processes" ELSE "restart"
    [] UpdAt(u, "scale")          -> "pollScale"
    [] UpdAt(u, "registryParams") -> "registryEnv"
    [] UpdAt(u, "registryEnv")    -> "restart"
    [] OTHER                      -> IF ForRegistry(u) THEN "routes" ELSE "ok"

\* The groups of variables a call stores.
Stores(u) ==
  CASE UpdAt(u, "environment")    -> {"params", "profiles", "json"}
    [] UpdAt(u, "registryParams") -> {"params"}
    [] UpdAt(u, "registryEnv")    -> {"profiles", "peers"}
    [] OTHER                      -> {}

\* Mutant: the application is started instead of restarted.
StartsOnly(u) ==
  CASE UpdAt(u, "scale")   -> ScaledApp(upd[u].guid, upd[u].count)
    [] UpdAt(u, "restart") -> StartedApp(upd[u].guid)
    [] OTHER               -> PatchedEnv(upd[u].guid, Stores(u), u)

\* Mutant: UpdateApplication sends the looked-up state back as well.
SendsStateBack(u) ==
  CASE UpdAt(u, "scale")     -> ScaledApp(upd[u].guid, upd[u].count)
    [] UpdAt(u, "updateApp") -> StoppedApp(upd[u].guid)
    [] UpdAt(u, "restart")   -> RestartedApp(upd[u].guid)
    [] OTHER                 -> PatchedEnv(upd[u].guid, Stores(u), u)

\* UpdateApplication sends back what the lookup read (SafeApp): name, buildpack
\* and metadata, which the broker never changes; the marshaller of the client
\* library leaves the state out.
PlainEffect(u) ==
  CASE UpdAt(u, "scale")   -> ScaledApp(upd[u].guid, upd[u].count)
    [] UpdAt(u, "restart") -> RestartedApp(upd[u].guid)
    [] OTHER               -> PatchedEnv(upd[u].guid, Stores(u), u)

PlainCall(u) ==
  /\ upd[u].pc \in PlainCalls
  /\ \E reply \in Replies(IF UpdAt(u, "restart") THEN Startable(upd[u].guid)
                                                 ELSE Live(upd[u].guid)) :
       /\ app' = IF TakesEffect(reply) THEN PlainEffect(u) ELSE app
       /\ UpdProceed(u, reply, AfterPlainCall(u))
  /\ UNCHANGED route

\* Mutant: the scale is polled for and never asked for.
PollsUnscaled(u) ==
  /\ UpdAt(u, "processes")
  /\ \E reply \in Replies(Live(upd[u].guid)) :
       UpdProceed(u, reply, IF app[upd[u].guid].instances # upd[u].count
                              THEN "pollScale" ELSE AfterScale(u))
  /\ UNCHANGED <<app, route>>

\* Scale only if the desired number of instances is not the one asked for.
CountProcesses(u) ==
  /\ UpdAt(u, "processes")
  /\ \E reply \in Replies(Live(upd[u].guid)) :
       UpdProceed(u, reply, IF app[upd[u].guid].instances # upd[u].count
                              THEN "scale" ELSE AfterScale(u))
  /\ UNCHANGED <<app, route>>

\* Mutant: instances that are starting count as well.
CountsStarting(u) ==
  /\ UpdAt(u, "pollScale")
  /\ IsStarted(upd[u].guid) /\ UpdGoto(u, AfterScale(u))
  /\ UNCHANGED <<app, route>>

\* Ends as the poll of Provisioning does.
PollUpdateScale(u) ==
  /\ UpdAt(u, "pollScale")
  /\ \/ MayCount(upd[u].guid, upd[u].count) /\ UpdGoto(u, AfterScale(u))
     \/ /\ ~Live(upd[u].guid) \/ "error" \in Faults
        /\ UpdGoto(u, "failed")
  /\ UNCHANGED <<app, route>>

\* No statistics is an error; an instance without ports is a panic, be it that
\* it has not been placed yet or (a fault) that it has crashed.
ReadUpdatePeers(u) ==
  /\ UpdAt(u, "peers")
  /\ \/ \E reply \in Replies(HavePorts(upd[u].guid)) :
          UpdProceed(u, reply, "registryParams")
     \/ "panic" \in Faults /\ UpdGoto(u, "failed")
  /\ UNCHANGED <<app, route>>

\* The error of GetApplicationRoutes is only logged, and the first route is
\* used at once: without one this is a panic.  Peers are pushed to a cluster.
ReadFirstRoute(u) ==
  /\ UpdAt(u, "routes")
  /\ \E reply \in Replies(Live(upd[u].guid)) :
       UpdGoto(u, IF reply # "ok" \/ RoutesOf(upd[u].guid) = {} THEN "failed"
                  ELSE IF upd[u].count > 1 THEN "push" ELSE "ok")
  /\ UNCHANGED <<app, route>>

\* A peer that does not answer is a panic; any answer will do.
PushUpdate(u) ==
  /\ UpdAt(u, "push")
  /\ \/ UpdGoto(u, "ok")
     \/ "panic" \in Faults /\ UpdGoto(u, "failed")
  /\ UNCHANGED <<app, route>>

UpdateStep(u) ==
  \/ FindApplication(u) \/ PlainCall(u) \/ CountProcesses(u) \/ PollUpdateScale(u)
  \/ ReadUpdatePeers(u) \/ ReadFirstRoute(u) \/ PushUpdate(u)
=============================================================================
