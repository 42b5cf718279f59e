------------------------------ MODULE Service -------------------------------
(***************************************************************************)
(* The whole broker: everything Broker has, and Update handlers at work on *)
(* the same applications.  The platform sends one operation at a time for  *)
(* an instance, but it stops waiting after a timeout while the handler     *)
(* goes on (no call of the handler looks at the request's context), and a  *)
(* Provision was answered before it began.                                 *)
(***************************************************************************)
EXTENDS Broker, Updating

\* A call is of one kind.
ASSUME ServiceAssumption ==
  /\ Updates \cap (Provisions \cup Deprovisions) = {}
  /\ Provisions \cap Deprovisions = {}

(***************************************************************************)
(* History, for the properties only: alone[c] until a rival of Update or   *)
(* Deprovision c is at work when c looks the application up, or arrives    *)
(* after that.  The rivals of an Update are all other calls of its         *)
(* instance; those of a Deprovision are the Updates (Lifecycle follows the *)
(* Provisions).                                                            *)
(***************************************************************************)
VARIABLE alone

serviceVars == <<brokerVars, upd, alone>>

Rivals(c) ==
  IF c \in Updates THEN (Provisions \cup Deprovisions \cup Updates) \ {c} ELSE Updates

Target(c) ==
  CASE c \in Provisions   -> NameOf[c]
    [] c \in Deprovisions -> TargetOf[c]
    [] c \in Updates      -> UpdateTarget[c]

AtWork(c) ==
  CASE c \in Provisions   -> Running(c)
    [] c \in Deprovisions -> dep[c].pc \in Handling
    [] c \in Updates      -> upd[c].pc \in Updating

HasLookedUp(c) ==
  IF c \in Updates THEN upd[c].pc \notin BeforeLookup ELSE LookedUp(c)

ServiceTypeOK ==
  /\ BrokerTypeOK
  /\ UpdTypeOK
  /\ alone \in [Updates \cup Deprovisions -> BOOLEAN]

ServiceInit ==
  /\ BrokerInit
  /\ UpdInit
  /\ alone = [c \in Updates \cup Deprovisions |-> TRUE]

\* Request r arrives.
Arrives(r) ==
  alone' = [c \in Updates \cup Deprovisions |->
    alone[c] /\ ~(HasLookedUp(c) /\ r \in Rivals(c) /\ Target(r) = Target(c))]

\* Call c looks its application up.
LooksUp(c) ==
  alone' = [alone EXCEPT ![c] =
    \A r \in Rivals(c) : Target(r) = Target(c) => ~AtWork(r)]

UpdateCall(u) ==
  /\ Update(u)
  /\ Arrives(u)
  /\ UNCHANGED <<prov, dep, history, bindVars>>

UpdateHandler(u) ==
  /\ UpdateStep(u)
  /\ IF UpdAt(u, "lookup") THEN LooksUp(u) ELSE UNCHANGED alone
  /\ UNCHANGED <<prov, dep, history, bindVars>>

LifeStep ==
  /\ \/ \E p \in Provisions : ProvisionCall(p) /\ Arrives(p)
     \/ \E p \in Provisions : Goroutine(p) /\ UNCHANGED alone
     \/ \E d \in Deprovisions : DeprovisionCall(d) /\ Arrives(d)
     \/ \E d \in Deprovisions :
          /\ Handler(d)
          /\ IF DepAt(d, "lookup") THEN LooksUp(d) ELSE UNCHANGED alone
     \/ Job /\ UNCHANGED alone
  /\ UNCHANGED <<bindVars, upd>>

BindingStep ==
  /\ \/ \E k \in Binds : BindCall(k) \/ BindHandler(k)
     \/ \E u \in Unbinds : UnbindCall(u) \/ UnbindHandler(u)
  /\ UNCHANGED <<upd, alone>>

ServiceCrash ==
  /\ BrokerCrash
  /\ upd' = [u \in Updates |->
       IF upd[u].pc \in Updating THEN [upd[u] EXCEPT !.pc = "failed"] ELSE upd[u]]
  /\ UNCHANGED alone

ServiceNext ==
  \/ LifeStep
  \/ BindingStep
  \/ \E u \in Updates : UpdateCall(u) \/ UpdateHandler(u)
  \/ ServiceCrash

ServiceSpec == ServiceInit /\ [][ServiceNext]_serviceVars

(***************************************************************************)
(* net/http serves every Update it has accepted; a poll for a number of    *)
(* instances that nothing will bring about need not fail.                  *)
(***************************************************************************)
UpdatePolls(u) == UpdAt(u, "pollScale") /\ NeverScaled(upd[u].guid, upd[u].count)

ServiceFairness ==
  /\ Fairness
  /\ BrokerFairness
  /\ \A u \in Updates : WF_serviceVars(UpdateHandler(u) /\ ~UpdatePolls(u))

FairServiceSpec == ServiceSpec /\ ServiceFairness

-----------------------------------------------------------------------------
(* What holds of updates. *)

GroupsOf(u) ==
  IF ForRegistry(u) THEN EnvGroups ELSE EnvGroups \ {"peers"}

\* An Update that reported success (update_registry_server_instance.go:197,
\* update_config_server_instance.go:66) without a rival has taken hold: the
\* instances run, as many as asked for, with the environment it stored.
UpdateTakesHold ==
  \A u \in Updates :
    LET g == upd[u].guid
    IN  UpdAt(u, "ok") /\ alone[u] /\ Live(g) =>
          /\ IsStarted(g)
          /\ app[g].instances = upd[u].count \/ ~ForRegistry(u)
          /\ \A e \in GroupsOf(u) : app[g].env[e] = u /\ app[g].running[e] = u

\* With Updates, too, instances run only with the environment that
\* UpdateAppEnvironment wrote (create_registry_server_instance.go:86), whatever
\* fails on the way; and only an Update (update_registry_server_instance.go:140)
\* starts them before their route is mapped.
StartedConfigured ==
  \A g \in Provisions : IsStarted(g) =>
    /\ app[g].running["json"] # NoGuid
    /\ route[g].dest = g \/ \E u \in Updates : upd[u].guid = g

\* While the Deprovision that has stopped an application (deprovision.go:34)
\* deletes its routes, nobody starts it but the goroutine that created it, if
\* that is at work, and an Update (update_registry_server_instance.go:140).
StaysStopped ==
  \A d \in Deprovisions :
    DepAt(d, "deleteRoutes") /\ IsStarted(dep[d].guid)
    => dep[d].guid \in Overlap(d) \/ ~alone[d]

Deprovisioned(n) == \E d \in Deprovisions : TargetOf[d] = n /\ dep[d].pc # "idle"

\* Update u may have scaled or restarted application g.
HasTouched(u, g) ==
  /\ upd[u].guid = g /\ u \notin Parameterless
  /\ upd[u].pc \notin {"environment", "updateApp", "processes", "scale"}

\* The process is about to end: a goroutine, of this instance or of another,
\* reads the statistics of instances that have no ports, since an Update has
\* restarted them or had some added, or a Deprovision has stopped them.
Perishing ==
  \E q \in Provisions : LacksPorts(q) /\
    (Deprovisioned(NameOf[q]) \/ \E u \in Updates : HasTouched(u, q))

\* Without faults a goroutine fails only because another Provision of its
\* instance has built the application (create_registry_server_instance.go:68),
\* because a Deprovision is taking away what it has built, or because the
\* process ends (lines 234 and 272).  So once it has scaled it reads ports and
\* nothing else (pollScale waits for them), unless somebody interferes.
ProvisionFailureExplained ==
  [][\A p \in Provisions :
       At(p, "failed")' /\ ~At(p, "failed") =>
         \/ \E q \in Provisions \ {p} : NameOf[q] = NameOf[p] /\ Live(q)
         \/ Deprovisioned(NameOf[p])
         \/ Perishing
    ]_serviceVars

\* Without faults an Update that has found its application fails only because
\* its goroutine has not finished and the droplet, the route or the ports are
\* not there yet (update_registry_server_instance.go:140, 159 and 129), because
\* another Update has restarted or scaled the instances and they have no ports
\* yet (line 129 again), because a Deprovision is taking it all away, because
\* the request had no parameters, or because the process ends.  Its own scale
\* never makes it fail.
FailureExplained ==
  [][\A u \in Updates :
       LET g == upd'[u].guid
       IN  UpdAt(u, "failed")' /\ ~UpdAt(u, "failed") /\ Live(g) =>
             \/ /\ ~At(g, "done")
                /\ ~app[g].droplet \/ RoutesOf(g) = {} \/ ~HavePorts(g)
             \/ ~HavePorts(g) /\ \E v \in Updates \ {u} : HasTouched(v, g)
             \/ Deprovisioned(UpdateTarget[u])
             \/ u \in Parameterless
             \/ Perishing
    ]_serviceVars

\* Without faults what a goroutine has finished (create_registry_server_instance.go:335)
\* serves, and goes on serving while Updates restart it, or the process ends,
\* until it is deprovisioned.
DoneServes ==
  \A p \in Provisions : At(p, "done") => Serving(p) \/ Deprovisioned(NameOf[p])

\* Without faults a Bind fails (bind.go:36-74) only because its instance does
\* not serve yet, another Bind of its binding was made, the instance is
\* deprovisioned, or the process ends.
BindFailureExplained ==
  [][\A k \in Binds :
       BindAt(k, "failed")' /\ ~BindAt(k, "failed") =>
         \/ ~ServingName(BindTarget[k])
         \/ \E j \in Binds \ {k} : BindingOf[j] = BindingOf[k] /\ ~BindAt(j, "idle")
         \/ Deprovisioned(BindTarget[k])
         \/ Perishing
    ]_serviceVars

\* An Update ends, unless it waits for instances (poll_scale.go:23-47) of an
\* application that is stopped, or whose scale a rival has changed.
UpdatesEnd ==
  \A u \in Updates :
    AtWork(u) ~> ~AtWork(u) \/ ~alone[u] \/ ~IsStarted(upd[u].guid)

-----------------------------------------------------------------------------
(* What is said of updates and does not hold. *)

\* "Update modifies an existing service instance"
\* (brokerapi/v13/domain/service_broker.go:32): what a successful Update stored
\* stays until another Update or a Deprovision is asked for.
UpdateSticks ==
  \A u \in Updates :
    UpdAt(u, "ok") =>
      \/ \A e \in GroupsOf(u) : app[upd[u].guid].env[e] = u
      \/ \E v \in Updates \ {u} : UpdateTarget[v] = UpdateTarget[u] /\ ~UpdAt(v, "idle")
      \/ Deprovisioned(UpdateTarget[u])
=============================================================================
