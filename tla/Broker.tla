------------------------------- MODULE Broker -------------------------------
(***************************************************************************)
(* The broker with its bindings: everything Lifecycle has, and Bind and    *)
(* Unbind handlers that read the same applications and routes.             *)
(***************************************************************************)
EXTENDS Lifecycle, Binding

(***************************************************************************)
(* History of Unbind u, for the properties only: the Bind calls of its     *)
(* binding that had not created their client when u deleted it, and those  *)
(* that arrived after that.                                                *)
(***************************************************************************)
VARIABLE pending

bindVars   == <<client, bind, unbind, pending>>
brokerVars == <<vars, bindVars>>

BrokerTypeOK ==
  /\ TypeOK
  /\ BindingTypeOK
  /\ pending \in [Unbinds -> SUBSET Binds]

BrokerInit ==
  /\ Init
  /\ BindingInit
  /\ pending = [u \in Unbinds |-> {}]

SameBinding(k, u) == BindingOf[k] = BindingOf[u]

Provisioned(n) == \E p \in Provisions : NameOf[p] = n /\ prov[p].pc # "idle"

\* Cloud Foundry binds only to instances whose creation was reported done.
BindCall(k) ==
  /\ Provisioned(BindTarget[k])
  /\ Bind(k)
  /\ pending' = [u \in Unbinds |->
       IF Unbound(u) /\ SameBinding(k, u) THEN pending[u] \cup {k}
                                           ELSE pending[u]]
  /\ UNCHANGED vars

BindHandler(k) == BindStep(k) /\ UNCHANGED <<pending, vars>>

UnbindCall(u) == Unbind(u) /\ UNCHANGED <<pending, vars>>

UnbindHandler(u) ==
  /\ DeleteClient(u)
  /\ pending' = [pending EXCEPT ![u] =
       {k \in Binds : SameBinding(k, u) /\ BindAt(k, "createClient")}]
  /\ UNCHANGED vars

BrokerCrash ==
  /\ Crash
  /\ bind' = [k \in Binds |->
       IF bind[k].pc \in Binding THEN [bind[k] EXCEPT !.pc = "failed"] ELSE bind[k]]
  /\ unbind' = [u \in Unbinds |->
       IF unbind[u] = "deleteClient" THEN "failed" ELSE unbind[u]]
  /\ UNCHANGED <<client, pending>>

BrokerNext ==
  \/ LifecycleStep /\ UNCHANGED bindVars
  \/ \E k \in Binds : BindCall(k) \/ BindHandler(k)
  \/ \E u \in Unbinds : UnbindCall(u) \/ UnbindHandler(u)
  \/ BrokerCrash

BrokerSpec == BrokerInit /\ [][BrokerNext]_brokerVars

\* net/http serves every Bind it has accepted.
BrokerFairness == \A k \in Binds : WF_brokerVars(BindHandler(k))

FairBrokerSpec == BrokerSpec /\ BrokerFairness

-----------------------------------------------------------------------------
(* What holds of bindings. *)

\* The credentials Bind returned (bind.go:71-79) are the ones UAA accepts, as
\* long as no Unbind of the binding was asked for: no other Bind, failing or
\* retried, replaces or revokes them, and they lead to an application of the
\* instance that was bound.
CredentialsWork ==
  \A k \in Binds : bind[k].pc = "ok" =>
    /\ NameOf[bind[k].uri] = BindTarget[k]
    /\ \/ client[BindingOf[k]] = k
       \/ \E u \in Unbinds : SameBinding(k, u) /\ unbind[u] # "idle"

\* No client of the binding but one that a Bind which overlapped the Unbind, or
\* came later, has created.
Clean(u) == client[BindingOf[u]] \in pending[u] \cup {NoSecret}

\* An Unbind whose deletion UAA confirmed (unbind.go:25-31) leaves no client
\* behind, and no Bind brings one back unless it overlapped the Unbind or came
\* later, whatever is refused, lost or retried.
UnbindFinal ==
  \A u \in Unbinds : unbind[u] = "ok" => Clean(u)

(***************************************************************************)
(* The secrets as BindingLife sees them.                                   *)
(***************************************************************************)
Secret == [k \in Binds |->
  IF client[BindingOf[k]] = k THEN "valid"
  ELSE IF BindAt(k, "idle") \/ BindAt(k, "createClient") THEN "unused" ELSE "spent"]

Told   == {k \in Binds : BindAt(k, "ok")}
Ending == {BindingOf[u] : u \in {v \in Unbinds : unbind[v] # "idle"}}

Secrets == INSTANCE BindingLife WITH secret <- Secret, told <- Told, ending <- Ending

\* Whatever is refused, lost, retried or killed, a client of UAA lives a plain
\* life: it is created at most once by each Bind (bind.go:36) and never in the
\* place of another, removed only if its binding was to be unbound
\* (unbind.go:25), and its secret handed out only after that.
ImplementsBindingLife == Secrets!BindingLifeSpec

ServingName(n) == \E p \in Provisions : NameOf[p] = n /\ Serving(p)

\* Without faults a Bind that is the only one of its binding, on an instance
\* that serves, ends with credentials, unless the instance is deprovisioned or
\* the process ends (without faults a goroutine that has begun to build several
\* instances fails for no other reason that leaves its application serving).
ReadyBindSucceeds ==
  \A k \in Binds :
    /\ BindAt(k, "createClient") /\ ServingName(BindTarget[k])
    /\ \A j \in Binds \ {k} : BindingOf[j] # BindingOf[k]
    ~> \/ bind[k].pc = "ok"
       \/ \E d \in Deprovisions : TargetOf[d] = BindTarget[k] /\ dep[d].pc # "idle"
       \/ \E p \in Provisions : Clustered(p) /\ At(p, "failed")

-----------------------------------------------------------------------------
(* What is said of bindings and does not hold. *)

\* "Unbind deletes an existing service binding"
\* (brokerapi/v13/domain/service_broker.go:44): so does every Unbind that
\* reported success.  It holds as long as no call is refused, but
\* unbind.go:26-28 reports an error of DeleteClient as success.
UnbindDeletes ==
  \A u \in Unbinds : Unbound(u) => Clean(u)

\* ci/scripts/assert-testflight:9 binds as soon as the service is created: with
\* no faults and nothing deleted, the first Bind of a binding does not fail.
BindAfterProvision ==
  \A k \in Binds : bind[k].pc = "failed" =>
    \/ \E d \in Deprovisions : TargetOf[d] = BindTarget[k] /\ dep[d].pc # "idle"
    \/ \E j \in Binds \ {k} : BindingOf[j] = BindingOf[k] /\ ~BindAt(j, "idle")
=============================================================================
