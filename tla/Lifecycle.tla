----------------------------- MODULE Lifecycle ------------------------------
(***************************************************************************)
(* The life of service instances: Provision calls with their goroutines,   *)
(* Deprovision calls, the jobs of the Cloud Controller, and the death      *)
(* of the broker process, all interleaved one Cloud Controller call at a   *)
(* time.  The broker keeps nothing but what its goroutines hold, so what   *)
(* survives its death is the Cloud Controller's state.                     *)
(***************************************************************************)
EXTENDS Provisioning, Deprovisioning

(***************************************************************************)
(* History of call d, for the properties only: the Provision calls of its  *)
(* instance whose goroutines were running when d looked the application    *)
(* up, and those that arrived after that.                                  *)
(***************************************************************************)
VARIABLES during, later

history == <<during, later>>
vars    == <<app, route, prov, dep, during, later>>

SameInstance(p, d) == NameOf[p] = TargetOf[d]

Overlap(d) == during[d] \cup later[d]

TypeOK ==
  /\ PlatformTypeOK
  /\ ProvTypeOK
  /\ DepTypeOK
  /\ during \in [Deprovisions -> SUBSET Provisions]
  /\ later \in [Deprovisions -> SUBSET Provisions]

Init ==
  /\ PlatformInit
  /\ ProvInit
  /\ DepInit
  /\ during = [d \in Deprovisions |-> {}]
  /\ later = [d \in Deprovisions |-> {}]

LookedUp(d) == dep[d].pc \notin BeforeLookup

ProvisionCall(p) ==
  /\ Provision(p)
  /\ later' = [d \in Deprovisions |->
       IF LookedUp(d) /\ SameInstance(p, d) THEN later[d] \cup {p} ELSE later[d]]
  /\ UNCHANGED <<dep, during>>

Goroutine(p) == GoroutineStep(p) /\ UNCHANGED <<dep, during, later>>

DeprovisionCall(d) == Deprovision(d) /\ UNCHANGED <<prov, during, later>>

Handler(d) ==
  /\ HandlerStep(d)
  /\ during' = IF DepAt(d, "lookup")
       THEN [during EXCEPT ![d] = {p \in Provisions : SameInstance(p, d) /\ Running(p)}]
       ELSE during
  /\ UNCHANGED <<prov, later>>

Job ==
  /\ \E g \in Guids : PlaceInstances(g) \/ DeleteAppJob(g) \/ DeleteRouteJob(g)
  /\ UNCHANGED <<prov, dep, during, later>>

(***************************************************************************)
(* The process ends: killed, or by a panic outside an HTTP handler, which  *)
(* need not be that of a goroutine of the same instance.  Every goroutine  *)
(* and handler is gone; the platform restarts the broker, which resumes    *)
(* nothing.                                                                *)
(***************************************************************************)
Crash ==
  /\ "crash" \in Faults \/ \E p \in Provisions : MayPanic(p)
  /\ prov' = [p \in Provisions |->
       IF Running(p) THEN [prov[p] EXCEPT !.pc = "failed"] ELSE prov[p]]
  /\ dep' = [d \in Deprovisions |->
       IF dep[d].pc \in Handling THEN [dep[d] EXCEPT !.pc = "failed"] ELSE dep[d]]
  /\ UNCHANGED <<app, route, during, later>>

LifecycleStep ==
  \/ \E p \in Provisions : ProvisionCall(p) \/ Goroutine(p)
  \/ \E d \in Deprovisions : DeprovisionCall(d) \/ Handler(d)
  \/ Job

Next == LifecycleStep \/ Crash

Spec == Init /\ [][Next]_vars

(***************************************************************************)
(* Go schedules every goroutine that can run, net/http serves the handler  *)
(* of every accepted request, every Cloud Controller call returns, and the *)
(* platform places the instances and gets to every job.  What a goroutine  *)
(* does with entries without ports is to end the process.  Nobody has to   *)
(* call the broker, and the poll of a stopped application need not fail.   *)
(***************************************************************************)
PollsForever(p) == At(p, "pollScale") /\ NeverScaled(prov[p].guid, prov[p].count)

Fairness ==
  /\ \A p \in Provisions :
       WF_vars((Goroutine(p) /\ ~PollsForever(p)) \/ (LacksPorts(p) /\ Crash))
  /\ \A d \in Deprovisions : WF_vars(Handler(d))
  /\ WF_vars(Job)

FairSpec == Spec /\ Fairness

-----------------------------------------------------------------------------
(* What holds of the broker. *)

\* A Deprovision that reported success (deprovision.go:22-24 and 54) leaves an
\* application of its instance standing only if that application comes from a
\* Provision whose goroutine was at work at the lookup or was asked for later:
\* everything older is gone or queued for deletion.
SurvivorsOverlap ==
  \A d \in Deprovisions : dep[d].pc = "ok" =>
    \A p \in Provisions :
      SameInstance(p, d) /\ ~Condemned(p) => p \in Overlap(d)

\* No route is left behind by the deletion of its application, except where
\* the goroutine that mapped it (create_*_server_instance.go) was racing the
\* Deprovision that read the routes (deprovision.go:29) before deleting.
OrphanRoutesExplained ==
  \A r \in Provisions :
    Exists(r) /\ ~route[r].doomed /\ route[r].dest # NoGuid
      /\ app[route[r].dest].state = "deleted"
    => \E d \in Deprovisions : dep[d].guid = route[r].dest /\ r \in Overlap(d)

\* A route that leads nowhere keeps the host of its instance taken, and no
\* Deprovision finds it (deprovision.go:29 reads the routes of the application):
\* there is one only while its goroutine is between the two calls
\* (create_registry_server_instance.go:184 and 191), or after it failed.
StrayRoutesExplained ==
  \A r \in Provisions :
    Exists(r) /\ route[r].dest = NoGuid => At(r, "mapRoute") \/ At(r, "failed")

\* While the Deprovision that has stopped an application (deprovision.go:34)
\* deletes its routes, nobody starts it again but the goroutine that created it,
\* if that is still at work.
StoppedWhileDeleted ==
  \A d \in Deprovisions :
    DepAt(d, "deleteRoutes") /\ IsStarted(dep[d].guid)
    => dep[d].guid \in Overlap(d)

\* Instances run only with the environment UpdateAppEnvironment wrote
\* (create_config_server_instance.go:65, create_registry_server_instance.go:86)
\* and once their route is mapped, whatever fails on the way.
RunsConfigured ==
  \A g \in Provisions : IsStarted(g) =>
    /\ app[g].running["json"] # NoGuid
    /\ route[g].dest = g

\* Of two Provision calls of one instance, which the platform may repeat, the
\* loser never disturbs what the winner builds: from its first call
\* (create_registry_server_instance.go:68) to its last, at whatever call either
\* of them fails, and when the process ends, what a goroutine does changes no
\* application and no route but those it created.
LeavesOthersAlone ==
  [][\A p \in Provisions : prov'[p] # prov[p] =>
       \A g \in Guids \ {p} : app'[g] = app[g] /\ route'[g] = route[g]]_vars

(***************************************************************************)
(* The applications as InstanceLife sees them.                             *)
(***************************************************************************)
PhaseOf(a) ==
  CASE a.state = "absent"  -> "absent"
    [] a.state = "deleted" -> "gone"
    [] a.state = "stopped" -> IF a.doomed THEN "going" ELSE "idle"
    [] a.state = "started" -> IF a.doomed THEN "going" ELSE "running"

Phase == [g \in Guids |-> PhaseOf(app[g])]

Asked == {TargetOf[d] : d \in {e \in Deprovisions : dep[e].pc # "idle"}}

Life == INSTANCE InstanceLife WITH phase <- Phase, asked <- Asked

\* Whatever goroutines, handlers and retries do at the same time, to the
\* platform's users it is a plain life: an application is built at most once
\* and never beside another of its instance, and it stops or goes only if a
\* Deprovision of that instance was made (deprovision.go:19-20 finds it by
\* name); once it is going nothing keeps it.
ImplementsLife == Life!LifeSpec

\* Every goroutine ends, with one exception: pollScale (poll_scale.go:23-47)
\* waits for the instances of an application that Deprovision has stopped.
ProvisioningEnds ==
  \A p \in Provisions :
    Running(p) ~> ~Running(p) \/ PollsForever(p)

Serving(p) == IsStarted(p) /\ Exists(p) /\ route[p].dest = p

\* Without faults a Provision that was reported to succeed (provision.go:17)
\* does lead to an instance that serves and keeps serving, unless the instance
\* is deprovisioned, or a goroutine that builds several instances of another
\* one ends the process.
EventuallyServing ==
  \A p \in Provisions :
    At(p, "begin") ~>
      \/ [](\E q \in Provisions : NameOf[q] = NameOf[p] /\ Serving(q))
      \/ \E d \in Deprovisions : SameInstance(p, d) /\ dep[d].pc # "idle"
      \/ \E q \in Provisions :
           NameOf[q] # NameOf[p] /\ Clustered(q) /\ At(q, "failed")

\* After a successful Deprovision the applications it was responsible for do
\* disappear, and stay away.
EventuallyGone ==
  \A d \in Deprovisions :
    dep[d].pc = "ok" ~>
      [](\A p \in Provisions \ Overlap(d) : SameInstance(p, d) => ~Live(p))

-----------------------------------------------------------------------------
(* What the code, or the interface it implements, says of itself and does  *)
(* not keep.                                                               *)

\* "Deprovision deletes an existing service instance"
\* (brokerapi/v13/domain/service_broker.go:24): after a success nothing is left
\* of what was asked for before the lookup.
DeprovisionDeletes ==
  \A d \in Deprovisions : dep[d].pc = "ok" =>
    \A p \in Provisions : SameInstance(p, d) /\ ~Condemned(p) => p \in later[d]

\* "Application Start Failed, Trying restart"
\* (create_registry_server_instance.go:202): the second attempt is made on the
\* goroutine's application.
RetryTargetsApplication ==
  \A p \in Provisions : prov[p].pc \in RestartCalls => prov[p].guid = p
=============================================================================
