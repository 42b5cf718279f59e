--------------------------- MODULE Deprovisioning ---------------------------
(***************************************************************************)
(* Deprovision (deprovision.go): find the application by name, read its    *)
(* routes, stop it, delete the routes one by one, delete the application.  *)
(* Both deletions are jobs whose outcome nobody waits for.                 *)
(***************************************************************************)
EXTENDS Platform

CONSTANTS
  Deprovisions,   \* the Deprovision calls
  TargetOf        \* TargetOf[d]: the application name call d is about

ASSUME DeprovisionAssumption == TargetOf \in [Deprovisions -> Names]

VARIABLE dep      \* the handlers of the Deprovision calls

BeforeLookup == {"idle", "lookup"}
Handling     == {"lookup", "readRoutes", "stop", "deleteRoutes"}

DepRecord ==
  [ pc     : {"idle", "ok", "failed"} \cup Handling,
    guid   : Guids \cup {NoGuid},   \* app.GUID
    routes : SUBSET Guids ]         \* routes not deleted yet

DepTypeOK == dep \in [Deprovisions -> DepRecord]

DepInit ==
  dep = [d \in Deprovisions |-> [pc |-> "idle", guid |-> NoGuid, routes |-> {}]]

DepAt(d, step) == dep[d].pc = step

DepGoto(d, step) == dep' = [dep EXCEPT ![d].pc = step]

\* Mutant: the reply is returned as it came.
ReturnReply(d, reply, next) == DepGoto(d, IF reply = "ok" THEN next ELSE reply)

DepProceed(d, reply, next) ==
  DepGoto(d, IF reply = "ok" THEN next ELSE "failed")

Deprovision(d) ==
  /\ DepAt(d, "idle")
  /\ DepGoto(d, "lookup")
  /\ UNCHANGED <<app, route>>

\* Mutant: every error of the lookup is taken for "not found".
LookupErrorIsNotFound(d) ==
  /\ DepAt(d, "lookup")
  /\ \/ \E g \in Guids :
          /\ Live(g) /\ NameOf[g] = TargetOf[d]
          /\ dep' = [dep EXCEPT ![d].pc = "readRoutes", ![d].guid = g]
     \/ /\ ~NameTaken(TargetOf[d]) \/ "error" \in Faults
        /\ DepGoto(d, "ok")
  /\ UNCHANGED <<app, route>>

\* Mutant: the lookup takes any application of the space.
LookupAnyName(d) ==
  /\ DepAt(d, "lookup")
  /\ \E g \in Guids :
       /\ Live(g)
       /\ dep' = [dep EXCEPT ![d].pc = "readRoutes", ![d].guid = g]
  /\ UNCHANGED <<app, route>>

\* No such application: there is nothing to do, which is success.
GetApplicationByNameAndSpace(d) ==
  /\ DepAt(d, "lookup")
  /\ \/ \E g \in Guids :
          /\ Live(g) /\ NameOf[g] = TargetOf[d]
          /\ dep' = [dep EXCEPT ![d].pc = "readRoutes", ![d].guid = g]
     \/ ~NameTaken(TargetOf[d]) /\ DepGoto(d, "ok")
     \/ "error" \in Faults /\ DepGoto(d, "failed")
  /\ UNCHANGED <<app, route>>

\* Mutant: no return on error, as in update_registry_server_instance.go:146-150.
RoutesUnchecked(d) ==
  /\ DepAt(d, "readRoutes")
  /\ \E reply \in Replies(Live(dep[d].guid)) :
       dep' = [dep EXCEPT ![d].pc = "stop",
                          ![d].routes = IF reply = "ok" THEN RoutesOf(dep[d].guid)
                                                        ELSE {}]
  /\ UNCHANGED <<app, route>>

GetApplicationRoutes(d) ==
  /\ DepAt(d, "readRoutes")
  /\ \E reply \in Replies(Live(dep[d].guid)) :
       IF reply = "ok"
         THEN dep' = [dep EXCEPT ![d].pc = "stop",
                                 ![d].routes = RoutesOf(dep[d].guid)]
         ELSE DepGoto(d, "failed")
  /\ UNCHANGED <<app, route>>

\* Mutant: an error of the stop is logged and forgotten.
StopUnchecked(d) ==
  /\ DepAt(d, "stop")
  /\ \E reply \in Replies(Live(dep[d].guid)) :
       app' = IF TakesEffect(reply) THEN StoppedApp(dep[d].guid) ELSE app
  /\ DepGoto(d, "deleteRoutes")
  /\ UNCHANGED route

UpdateApplicationStop(d) ==
  /\ DepAt(d, "stop")
  /\ \E reply \in Replies(Live(dep[d].guid)) :
       /\ app' = IF TakesEffect(reply) THEN StoppedApp(dep[d].guid) ELSE app
       /\ DepProceed(d, reply, "deleteRoutes")
  /\ UNCHANGED route

DeleteRoute(d) ==
  /\ DepAt(d, "deleteRoutes")
  /\ \E r \in dep[d].routes : \E reply \in Replies(Exists(r)) :
       /\ route' = IF TakesEffect(reply) THEN DoomedRoute(r) ELSE route
       /\ IF reply = "ok" THEN dep' = [dep EXCEPT ![d].routes = @ \ {r}]
                          ELSE DepGoto(d, "failed")
  /\ UNCHANGED app

\* Mutant: an error of the deletion is reported as success, as Unbind does.
DeleteUnchecked(d) ==
  /\ DepAt(d, "deleteRoutes")
  /\ dep[d].routes = {}
  /\ \E reply \in Replies(Live(dep[d].guid)) :
       app' = IF TakesEffect(reply) THEN DoomedApp(dep[d].guid) ELSE app
  /\ DepGoto(d, "ok")
  /\ UNCHANGED route

DeleteApplication(d) ==
  /\ DepAt(d, "deleteRoutes")
  /\ dep[d].routes = {}
  /\ \E reply \in Replies(Live(dep[d].guid)) :
       /\ app' = IF TakesEffect(reply) THEN DoomedApp(dep[d].guid) ELSE app
       /\ DepProceed(d, reply, "ok")
  /\ UNCHANGED route

HandlerStep(d) ==
  \/ GetApplicationByNameAndSpace(d) \/ GetApplicationRoutes(d)
  \/ UpdateApplicationStop(d) \/ DeleteRoute(d) \/ DeleteApplication(d)
=============================================================================
