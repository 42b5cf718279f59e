---------------------------- MODULE BrokerProofs ----------------------------
(***************************************************************************)
(* Proofs about Broker, for any number of instances, bindings and calls.   *)
(***************************************************************************)
EXTENDS Broker, LifecycleProofs

-----------------------------------------------------------------------------
(* The invariants, which every step preserves. *)

\* Past CreateClient a Bind owns the client of its binding until an Unbind.
BindOwnsClient ==
  \A k \in Binds : bind[k].pc \in {"getRoot", "lookup", "readRoutes", "ok"} =>
    \/ client[BindingOf[k]] = k
    \/ \E u \in Unbinds : SameBinding(k, u) /\ unbind[u] # "idle"

BindReadsOwnInstance ==
  \A k \in Binds :
    /\ BindAt(k, "readRoutes") =>
         bind[k].guid \in Guids /\ NameOf[bind[k].guid] = BindTarget[k]
    /\ BindAt(k, "ok") =>
         bind[k].uri \in Guids /\ NameOf[bind[k].uri] = BindTarget[k]

BindInv ==
  /\ BindingTypeOK
  /\ BindOwnsClient
  /\ BindReadsOwnInstance

PendingCovers ==
  \A u \in Unbinds, k \in Binds :
    Unbound(u) /\ SameBinding(k, u) /\ BindAt(k, "createClient") => k \in pending[u]

UnbindInv ==
  /\ BindingTypeOK
  /\ pending \in [Unbinds -> SUBSET Binds]
  /\ PendingCovers

-----------------------------------------------------------------------------
(* The broker and its instances. *)

\* Every step of the broker with its bindings is a step of the life of its
\* instances, or leaves that alone.
LEMMA BrokerStepRefines == [BrokerNext]_brokerVars => [Next]_vars
BY DEF BrokerNext, LifecycleStep, Next, BindCall, BindHandler, UnbindCall,
  UnbindHandler, BrokerCrash, brokerVars

\* Binding and unbinding (bind.go, unbind.go) do not disturb the life of
\* instances: what is proved of Lifecycle holds of the whole broker.
THEOREM BrokerImplementsLifecycle == BrokerSpec => Spec
<1>1. BrokerInit => Init
  BY DEF BrokerInit
<1>2. QED
  BY <1>1, BrokerStepRefines, PTL DEF BrokerSpec, Spec

-----------------------------------------------------------------------------
(* The credentials of a Bind. *)

\* Nobody holds credentials at the start.
LEMMA BindInit == BrokerInit => BindInv
BY DEF BrokerInit, BindingInit, BindInv, BindingTypeOK, BindRecord, BindOwnsClient,
  BindReadsOwnInstance, BindAt, Binding

\* A Bind call or a step of its handler.
LEMMA BindStepKeeps ==
  ASSUME BindInv, OwnRoutes, NEW k \in Binds, Bind(k) \/ BindStep(k)
  PROVE  BindInv'
<1> USE BindingAssumption, PlatformAssumption
<1> DEFINE b == BindingOf[k]
<1>1. UNCHANGED unbind /\ b \in Bindings
  BY DEF Bind, BindStep, CreateClient, GetRoot, LookupApplication,
    BuildBindingCredentials
<1>2. BindingTypeOK'
  <2>1. CASE Bind(k)
    BY SMTT(30), <2>1 DEF Bind, BindGoto, BindInv, BindingTypeOK, BindRecord, Binding
  <2>2. CASE CreateClient(k)
    BY <2>2 DEF CreateClient, BindProceed, BindGoto, BindInv, BindingTypeOK,
      BindRecord, Binding
  <2>3. CASE GetRoot(k)
    BY <2>3 DEF GetRoot, BindProceed, BindGoto, BindInv, BindingTypeOK, BindRecord,
      Binding
  <2>4. CASE LookupApplication(k)
    BY SMTT(30), <2>4 DEF LookupApplication, BindGoto, BindInv, BindingTypeOK, BindRecord,
      Binding
  <2>5. CASE BuildBindingCredentials(k)
    BY <2>5 DEF BuildBindingCredentials, BindGoto, RoutesOf, BindInv, BindingTypeOK,
      BindRecord, Binding
  <2>6. QED
    BY <2>1, <2>2, <2>3, <2>4, <2>5 DEF BindStep
<1>3. \A j \in Binds \ {k} : bind'[j] = bind[j]
  BY DEF Bind, BindStep, CreateClient, GetRoot, LookupApplication,
    BuildBindingCredentials, BindProceed, BindGoto, BindInv, BindingTypeOK
<1>4. BindOwnsClient'
  <2>1. CASE CreateClient(k)
    <3>1. \A j \in Binds \ {k} :
            BindingOf[j] = b /\ client[b] # NoSecret => client'[b] = client[b]
      BY <2>1 DEF CreateClient, Replies, TakesEffect
    <3>2. bind'[k].pc = "getRoot" => client'[b] = k
      BY <2>1 DEF CreateClient, TakesEffect, BindProceed, BindGoto, BindInv,
        BindingTypeOK
    <3>3. bind'[k].pc \in {"getRoot", "failed"}
      BY <2>1 DEF CreateClient, BindProceed, BindGoto, BindInv, BindingTypeOK
    <3>4. \A c \in Bindings \ {b} : client'[c] = client[c]
      BY <2>1 DEF CreateClient, BindInv, BindingTypeOK
    <3>5. QED
      BY <1>1, <1>3, <3>1, <3>2, <3>3, <3>4 DEF BindInv, BindOwnsClient, SameBinding,
        BindingTypeOK
  <2>2. CASE ~CreateClient(k)
    <3>1. UNCHANGED client
      BY <2>2 DEF Bind, BindStep, GetRoot, LookupApplication, BuildBindingCredentials
    <3>2. bind'[k].pc \in {"getRoot", "lookup", "readRoutes", "ok"} =>
            bind[k].pc \in {"getRoot", "lookup", "readRoutes", "ok"}
      <4>1. CASE Bind(k)
        BY <4>1 DEF Bind, BindGoto, BindInv, BindingTypeOK, BindRecord
      <4>2. CASE BindAt(k, "getRoot") \/ BindAt(k, "lookup") \/ BindAt(k, "readRoutes")
        BY <4>2 DEF BindAt
      <4>3. QED
        BY <2>2, <4>1, <4>2 DEF BindStep, GetRoot, LookupApplication,
          BuildBindingCredentials
    <3>3. QED
      BY <1>1, <1>3, <3>1, <3>2 DEF BindInv, BindOwnsClient, SameBinding
  <2>3. QED
    BY <2>1, <2>2
<1>5. BindReadsOwnInstance'
  <2>1. CASE LookupApplication(k)
    <3>1. bind'[k].pc = "readRoutes" =>
            bind'[k].guid \in Guids /\ NameOf[bind'[k].guid] = BindTarget[k]
      BY <2>1 DEF LookupApplication, BindGoto, BindInv, BindingTypeOK, BindRecord
    <3>2. bind'[k].pc \in {"readRoutes", "failed"}
      BY <2>1 DEF LookupApplication, BindGoto, BindInv, BindingTypeOK, BindRecord
    <3>3. QED
      BY <1>3, <3>1, <3>2 DEF BindInv, BindReadsOwnInstance, BindAt
  <2>2. CASE BuildBindingCredentials(k)
    <3>1. \A r \in RoutesOf(bind[k].guid) : r = bind[k].guid
      BY <2>2 DEF BuildBindingCredentials, RoutesOf, OwnRoutes, BindInv,
        BindReadsOwnInstance
    <3>2. bind'[k].pc = "ok" =>
            bind'[k].uri \in Guids /\ NameOf[bind'[k].uri] = BindTarget[k]
      BY <2>2, <3>1 DEF BuildBindingCredentials, BindGoto, BindInv, BindingTypeOK,
        BindRecord, BindReadsOwnInstance
    <3>3. bind'[k].pc \in {"ok", "failed"}
      BY <2>2 DEF BuildBindingCredentials, BindGoto, BindInv, BindingTypeOK, BindRecord
    <3>4. QED
      BY <1>3, <3>2, <3>3 DEF BindInv, BindReadsOwnInstance, BindAt
  <2>3. CASE Bind(k) \/ CreateClient(k) \/ GetRoot(k)
    <3>1. \E step \in {"createClient", "getRoot", "lookup", "failed"} : BindGoto(k, step)
      BY <2>3 DEF Bind, CreateClient, GetRoot, BindProceed
    <3>2. bind'[k].pc \notin {"readRoutes", "ok"}
      BY <3>1 DEF BindGoto, BindInv, BindingTypeOK, BindRecord
    <3>3. QED
      BY <1>3, <3>2 DEF BindInv, BindReadsOwnInstance, BindAt
  <2>4. QED
    BY <2>1, <2>2, <2>3 DEF BindStep
<1>6. QED
  BY <1>2, <1>4, <1>5 DEF BindInv

\* An Unbind call, or the deletion of its client: from then on the Unbind
\* answers for whatever becomes of the credentials.
LEMMA UnbindStepKeeps ==
  ASSUME BindInv, NEW u \in Unbinds, Unbind(u) \/ DeleteClient(u)
  PROVE  BindInv'
<1> USE BindingAssumption
<1>1. BindingTypeOK' /\ UNCHANGED bind
  BY DEF Unbind, DeleteClient, BindInv, BindingTypeOK
<1>2. \A v \in Unbinds : unbind[v] # "idle" => unbind'[v] # "idle"
  BY DEF Unbind, DeleteClient, BindInv, BindingTypeOK
<1>3. unbind'[u] # "idle"
  BY DEF Unbind, DeleteClient, BindInv, BindingTypeOK
<1>4. \A c \in Bindings \ {BindingOf[u]} : client'[c] = client[c]
  BY DEF Unbind, DeleteClient, BindInv, BindingTypeOK
<1>5. BindOwnsClient'
  BY <1>1, <1>2, <1>3, <1>4 DEF BindInv, BindOwnsClient, SameBinding
<1>6. BindReadsOwnInstance'
  BY <1>1 DEF BindInv, BindReadsOwnInstance, BindAt
<1>7. QED
  BY <1>1, <1>5, <1>6 DEF BindInv

\* A crash of the broker ends its handlers.
LEMMA BindCrashKeeps ==
  ASSUME BindInv, BrokerCrash
  PROVE  BindInv'
<1>1. BindingTypeOK' /\ UNCHANGED client
  BY DEF BrokerCrash, BindInv, BindingTypeOK, BindRecord
<1>2. \A k \in Binds : bind'[k].pc = "failed" \/ bind'[k] = bind[k]
  BY DEF BrokerCrash, BindInv, BindingTypeOK, BindRecord
<1>3. \A u \in Unbinds : unbind[u] # "idle" => unbind'[u] # "idle"
  BY DEF BrokerCrash, BindInv, BindingTypeOK
<1>4. QED
  BY <1>1, <1>2, <1>3 DEF BindInv, BindOwnsClient, BindReadsOwnInstance, BindAt

\* Every step keeps the Bind handlers' part of the invariant.
LEMMA BindNextKeeps == BindInv /\ OwnRoutes /\ [BrokerNext]_brokerVars => BindInv'
<1> SUFFICES ASSUME BindInv, OwnRoutes, [BrokerNext]_brokerVars PROVE BindInv'
  OBVIOUS
<1>1. CASE \E k \in Binds : BindCall(k) \/ BindHandler(k)
  BY <1>1, BindStepKeeps DEF BindCall, BindHandler
<1>2. CASE \E u \in Unbinds : UnbindCall(u) \/ UnbindHandler(u)
  BY <1>2, UnbindStepKeeps DEF UnbindCall, UnbindHandler
<1>3. CASE BrokerCrash
  BY <1>3, BindCrashKeeps
<1>4. CASE UNCHANGED bindVars
  BY <1>4 DEF bindVars, BindInv, BindingTypeOK, BindOwnsClient, BindReadsOwnInstance,
    BindAt
<1>5. QED
  BY <1>1, <1>2, <1>3, <1>4 DEF BrokerNext, brokerVars

\* The credentials that Bind returned (bind.go:71-79) keep working until an
\* Unbind of their binding, and lead to the instance that was bound.
THEOREM CredentialsWorkHolds == BrokerSpec => []CredentialsWork
<1>1. BrokerInit => BindInv
  BY BindInit
<1>2. IInv /\ BindInv /\ [BrokerNext]_brokerVars => BindInv'
  BY BindNextKeeps DEF IInv
<1>3. BindInv => CredentialsWork
  BY DEF BindInv, BindOwnsClient, BindReadsOwnInstance, BindAt, CredentialsWork
<1>4. BrokerSpec => []IInv
  BY BrokerImplementsLifecycle, Invariance, PTL
<1>5. QED
  BY <1>1, <1>2, <1>3, <1>4, PTL DEF BrokerSpec

-----------------------------------------------------------------------------
(* What Unbind leaves behind. *)

\* A Bind that moves on is past the creation of its client.
LEMMA BindLeavesCreate ==
  ASSUME BindingTypeOK, NEW k \in Binds, BindHandler(k)
  PROVE  /\ UNCHANGED <<unbind, pending>>
         /\ \A j \in Binds : BindAt(j, "createClient")' => BindAt(j, "createClient")
         /\ \/ UNCHANGED client
            \/ /\ BindAt(k, "createClient")
               /\ client' = [client EXCEPT ![BindingOf[k]] = k]
<1>1. UNCHANGED <<unbind, pending>>
  BY DEF BindHandler, BindStep, CreateClient, GetRoot, LookupApplication,
    BuildBindingCredentials
<1>2. \A j \in Binds \ {k} : bind'[j] = bind[j]
  BY DEF BindHandler, BindStep, CreateClient, GetRoot, LookupApplication,
    BuildBindingCredentials, BindProceed, BindGoto, BindingTypeOK
<1>3. bind'[k].pc # "createClient"
  <2> USE DEF BindGoto, BindingTypeOK, BindRecord
  <2>1. CASE CreateClient(k)
    BY <2>1 DEF CreateClient, BindProceed
  <2>2. CASE GetRoot(k)
    BY <2>2 DEF GetRoot, BindProceed
  <2>3. CASE LookupApplication(k)
    BY <2>3 DEF LookupApplication
  <2>4. CASE BuildBindingCredentials(k)
    BY <2>4 DEF BuildBindingCredentials
  <2>5. QED
    BY <2>1, <2>2, <2>3, <2>4 DEF BindHandler, BindStep
<1>4. \/ UNCHANGED client
      \/ /\ BindAt(k, "createClient")
         /\ client' = [client EXCEPT ![BindingOf[k]] = k]
  BY DEF BindHandler, BindStep, CreateClient, GetRoot, LookupApplication,
    BuildBindingCredentials
<1>5. QED
  BY <1>1, <1>2, <1>3, <1>4 DEF BindAt

\* The deletion concerns one client and one Unbind; a confirmed one leaves no
\* client, and so does any that succeeds when no call is refused.
LEMMA DeleteClientDeletes ==
  ASSUME BindingTypeOK, NEW u \in Unbinds, DeleteClient(u)
  PROVE  /\ UNCHANGED bind
         /\ \A v \in Unbinds \ {u} : unbind'[v] = unbind[v]
         /\ \A b \in Bindings : client'[b] \in {client[b], NoSecret}
         /\ unbind'[u] = "ok" => client'[BindingOf[u]] = NoSecret
         /\ "error" \notin Faults => client'[BindingOf[u]] = NoSecret
<1> USE BindingAssumption DEF BindingTypeOK
<1>1. CASE /\ "error" \in Faults
           /\ unbind' = [unbind EXCEPT ![u] = "failed"]
           /\ UNCHANGED client
  BY <1>1 DEF DeleteClient
<1>2. CASE \E reply \in Replies(client[BindingOf[u]] # NoSecret) :
             /\ client' = IF TakesEffect(reply)
                            THEN [client EXCEPT ![BindingOf[u]] = NoSecret] ELSE client
             /\ unbind' = [unbind EXCEPT ![u] = IF reply = "ok" THEN "ok" ELSE "logged"]
  <2>1. PICK reply \in Replies(client[BindingOf[u]] # NoSecret) :
          /\ client' = IF TakesEffect(reply)
                         THEN [client EXCEPT ![BindingOf[u]] = NoSecret] ELSE client
          /\ unbind' = [unbind EXCEPT ![u] = IF reply = "ok" THEN "ok" ELSE "logged"]
    BY <1>2
  <2>2. reply = "ok" => TakesEffect(reply)
    BY DEF TakesEffect
  <2>3. "error" \notin Faults /\ client[BindingOf[u]] # NoSecret => TakesEffect(reply)
    BY <2>1 DEF Replies, TakesEffect
  <2>4. QED
    BY <2>1, <2>2, <2>3 DEF DeleteClient
<1>3. QED
  BY <1>1, <1>2 DEF DeleteClient

\* Every step keeps the Unbind handlers' invariant, and what was clean stays
\* clean; types are kept by any step.
LEMMA UnbindNextKeeps ==
  ASSUME UnbindInv, BindingTypeOK', [BrokerNext]_brokerVars
  PROVE  /\ UnbindInv'
         /\ \A v \in Unbinds : Unbound(v) /\ Clean(v) => Unbound(v)' /\ Clean(v)'
         /\ \A v \in Unbinds : unbind'[v] = "ok" => unbind[v] = "ok" \/ Clean(v)'
         /\ "error" \notin Faults =>
              \A v \in Unbinds : Unbound(v)' => Unbound(v) \/ Clean(v)'
<1> USE BindingAssumption
<1>1. CASE \E k \in Binds : BindCall(k)
  <2>1. PICK k \in Binds : BindCall(k)
    BY <1>1
  <2>2. UNCHANGED <<client, unbind>> /\ bind' = [bind EXCEPT ![k].pc = "createClient"]
    BY <2>1 DEF BindCall, Bind, BindGoto
  <2>3. /\ pending' \in [Unbinds -> SUBSET Binds]
        /\ \A v \in Unbinds : pending[v] \subseteq pending'[v]
        /\ \A v \in Unbinds : Unbound(v) /\ SameBinding(k, v) => k \in pending'[v]
    BY <2>1 DEF BindCall, UnbindInv
  <2>4. PendingCovers'
    <3>1. \A j \in Binds \ {k} : bind'[j] = bind[j]
      BY <2>2 DEF UnbindInv, BindingTypeOK
    <3>2. QED
      BY <2>2, <2>3, <3>1 DEF UnbindInv, PendingCovers, SameBinding, BindAt, Unbound
  <2>5. QED
    BY <2>2, <2>3, <2>4 DEF UnbindInv, Unbound, Clean
<1>2. CASE \E k \in Binds : BindHandler(k)
  <2>1. PICK k \in Binds : BindHandler(k)
    BY <1>2
  <2>2. /\ UNCHANGED <<unbind, pending>>
        /\ \A j \in Binds : BindAt(j, "createClient")' => BindAt(j, "createClient")
        /\ \/ UNCHANGED client
           \/ /\ BindAt(k, "createClient")
              /\ client' = [client EXCEPT ![BindingOf[k]] = k]
    BY <2>1, BindLeavesCreate DEF UnbindInv
  <2>3. PendingCovers'
    BY <2>2 DEF UnbindInv, PendingCovers, SameBinding, Unbound
  <2>4. \A v \in Unbinds : Unbound(v) /\ Clean(v) => Clean(v)'
    BY <2>2 DEF UnbindInv, PendingCovers, SameBinding, BindingTypeOK, Clean
  <2>5. QED
    BY <2>2, <2>3, <2>4 DEF UnbindInv, Unbound
<1>3. CASE \E u \in Unbinds : UnbindCall(u)
  <2>1. PICK u \in Unbinds : UnbindCall(u)
    BY <1>3
  <2>2. /\ UNCHANGED <<client, bind, pending>>
        /\ \A v \in Unbinds : v # u => unbind'[v] = unbind[v]
        /\ unbind[u] = "idle" /\ unbind'[u] = "deleteClient"
    BY <2>1 DEF UnbindCall, Unbind, UnbindInv, BindingTypeOK
  <2>3. QED
    BY <2>2 DEF UnbindInv, PendingCovers, SameBinding, BindAt, Unbound, Clean
<1>4. CASE \E u \in Unbinds : UnbindHandler(u)
  <2>1. PICK u \in Unbinds : UnbindHandler(u)
    BY <1>4
  <2>2. /\ UNCHANGED bind
        /\ \A v \in Unbinds \ {u} : unbind'[v] = unbind[v]
        /\ \A b \in Bindings : client'[b] \in {client[b], NoSecret}
        /\ unbind'[u] = "ok" => client'[BindingOf[u]] = NoSecret
        /\ "error" \notin Faults => client'[BindingOf[u]] = NoSecret
    BY <2>1, DeleteClientDeletes DEF UnbindHandler, UnbindInv
  <2>3. unbind[u] = "deleteClient"
    BY <2>1 DEF UnbindHandler, DeleteClient
  <2>4. /\ pending' \in [Unbinds -> SUBSET Binds]
        /\ \A v \in Unbinds \ {u} : pending'[v] = pending[v]
        /\ pending'[u] = {k \in Binds : SameBinding(k, u) /\ BindAt(k, "createClient")}
    BY <2>1 DEF UnbindHandler, UnbindInv
  <2>5. PendingCovers'
    BY <2>2, <2>4 DEF UnbindInv, PendingCovers, SameBinding, BindAt, Unbound
  <2>6. \A v \in Unbinds : Unbound(v) /\ Clean(v) => Unbound(v)' /\ Clean(v)'
    BY <2>2, <2>3, <2>4 DEF Unbound, Clean
  <2>7. QED
    BY <2>2, <2>4, <2>5, <2>6 DEF UnbindInv, Unbound, Clean
<1>5. CASE BrokerCrash
  <2>1. /\ UNCHANGED <<client, pending>>
        /\ \A v \in Unbinds : \/ unbind'[v] = unbind[v]
                              \/ unbind[v] = "deleteClient" /\ unbind'[v] = "failed"
        /\ \A k \in Binds : BindAt(k, "createClient")' => BindAt(k, "createClient")
    BY <1>5 DEF BrokerCrash, UnbindInv, BindingTypeOK, BindRecord, BindAt
  <2>2. QED
    BY <2>1 DEF UnbindInv, PendingCovers, SameBinding, Unbound, Clean
<1>6. CASE UNCHANGED bindVars
  BY <1>6 DEF bindVars, UnbindInv, PendingCovers, SameBinding, BindAt, Unbound, Clean
<1>7. QED
  BY <1>1, <1>2, <1>3, <1>4, <1>5, <1>6 DEF BrokerNext, brokerVars

\* No Unbind has begun at the start.
LEMMA UnbindsInit == BrokerInit => UnbindInv /\ \A u \in Unbinds : ~Unbound(u)
BY BindInit DEF BrokerInit, BindingInit, BindInv, UnbindInv, PendingCovers, Unbound

\* The invariants of bindings hold in every behaviour.
LEMMA BindingsInvariance == BrokerSpec => [](BindInv /\ UnbindInv)
<1>1. BrokerInit => BindInv /\ UnbindInv
  BY BindInit, UnbindsInit
<1>2. IInv /\ BindInv /\ UnbindInv /\ [BrokerNext]_brokerVars
        => BindInv' /\ UnbindInv'
  BY BindNextKeeps, UnbindNextKeeps DEF IInv, BindInv
<1>3. BrokerSpec => []IInv
  BY BrokerImplementsLifecycle, Invariance, PTL
<1>4. QED
  BY <1>1, <1>2, <1>3, PTL DEF BrokerSpec

\* The applications and routes, the handlers and the clients of UAA are what
\* Lifecycle and Binding declare, whatever is called, refused, lost or killed.
THEOREM BrokerTypeCorrect == BrokerSpec => []BrokerTypeOK
<1>1. IInv /\ UnbindInv => BrokerTypeOK
  BY DEF IInv, UnbindInv, BrokerTypeOK
<1>2. BrokerSpec => []IInv
  BY BrokerImplementsLifecycle, Invariance, PTL
<1>3. QED
  BY <1>1, <1>2, BindingsInvariance, PTL

\* An Unbind whose deletion UAA confirmed (unbind.go:25-31) leaves no client
\* but one of a Bind that overlapped it or came later, whatever the faults.
THEOREM UnbindFinalHolds == BrokerSpec => []UnbindFinal
<1>1. BrokerInit => UnbindFinal
  BY UnbindsInit DEF UnbindFinal, Unbound
<1>2. UnbindInv /\ BindInv' /\ UnbindFinal /\ [BrokerNext]_brokerVars => UnbindFinal'
  BY UnbindNextKeeps DEF BindInv, UnbindFinal, Unbound
<1>3. QED
  BY <1>1, <1>2, BindingsInvariance, PTL DEF BrokerSpec

\* As long as no call is refused, every Unbind that reported success
\* (unbind.go:12-31) does the same, whether or not its reply was lost.
THEOREM UnbindDeletesHolds ==
  ASSUME "error" \notin Faults
  PROVE  BrokerSpec => []UnbindDeletes
<1>1. BrokerInit => UnbindDeletes
  BY UnbindsInit DEF UnbindDeletes
<1>2. UnbindInv /\ BindInv' /\ UnbindDeletes /\ [BrokerNext]_brokerVars => UnbindDeletes'
  BY UnbindNextKeeps DEF BindInv, UnbindDeletes
<1>3. QED
  BY <1>1, <1>2, BindingsInvariance, PTL DEF BrokerSpec

-----------------------------------------------------------------------------
(* The life of secrets. *)

\* A client has the secret of a Bind of its binding that is past its creation.
ClientsIssued ==
  \A b \in Bindings : client[b] # NoSecret =>
    /\ BindingOf[client[b]] = b
    /\ bind[client[b]].pc \notin {"idle", "createClient"}

\* A step that leaves clients and Unbinds alone, and no Bind on the other side
\* of CreateClient or of its end, is none of the life of secrets.
LEMMA NothingOfSecrets ==
  ASSUME UNCHANGED <<client, unbind>>,
         \A k \in Binds : /\ BindAt(k, "ok")' <=> BindAt(k, "ok")
                          /\ bind'[k].pc \in {"idle", "createClient"} <=>
                               bind[k].pc \in {"idle", "createClient"}
  PROVE  UNCHANGED Secrets!secretVars
<1>1. Secret' = Secret
  BY DEF Secret, BindAt
<1>2. Told' = Told
  BY DEF Told
<1>3. Ending' = Ending
  BY DEF Ending
<1>4. QED
  BY <1>1, <1>2, <1>3 DEF Secrets!secretVars

\* Secrets are a function of the Bind calls.
LEMMA SecretsAre ==
  /\ Secret = [k \in Binds |-> Secret[k]]
  /\ Secret' = [k \in Binds |-> Secret'[k]]
BY DEF Secret

\* A Bind issues its secret, gives up, or hands the secret out.
LEMMA BindLivesSecrets ==
  ASSUME BindInv, ClientsIssued, NEW k \in Binds, BindStep(k)
  PROVE  ClientsIssued' /\ [Secrets!BindingLifeNext]_(Secrets!secretVars)
<1> DEFINE b == BindingOf[k]
<1> USE BindingAssumption DEF BindInv, BindingTypeOK
<1>1. /\ unbind' = unbind /\ b \in Bindings
      /\ \A j \in Binds \ {k} : bind'[j] = bind[j]
  BY DEF BindStep, CreateClient, GetRoot, LookupApplication, BuildBindingCredentials,
    BindProceed, BindGoto
<1>2. \A step : BindGoto(k, step) => bind'[k].pc = step
  BY DEF BindGoto, BindRecord
<1>3. Ending' = Ending
  BY <1>1 DEF Ending
<1>4. CASE CreateClient(k)
  <2>1. PICK reply \in Replies(client[b] = NoSecret) :
          /\ client' = IF TakesEffect(reply) THEN [client EXCEPT ![b] = k] ELSE client
          /\ BindProceed(k, reply, "getRoot")
    BY <1>4 DEF CreateClient
  <2>2. BindAt(k, "createClient") /\ bind'[k].pc \in {"getRoot", "failed"}
    BY <1>2, <1>4, <2>1 DEF CreateClient, BindProceed
  <2>3. Told' = Told
    BY <1>1, <2>2 DEF Told, BindAt
  <2>4. \A c \in Bindings : client[c] # k
    BY <2>2 DEF ClientsIssued, BindAt
  <2>5. Secret[k] = "unused"
    BY <1>1, <2>2, <2>4 DEF Secret
  <2>6. CASE TakesEffect(reply)
    <3>1. client[b] = NoSecret /\ client' = [client EXCEPT ![b] = k]
      BY <2>1, <2>6 DEF Replies, TakesEffect
    <3>2. ClientsIssued'
      <4>1. /\ client'[b] = k
            /\ \A c \in Bindings \ {b} : client'[c] = client[c] /\ client[c] # k
        BY <1>1, <2>4, <3>1
      <4>2. bind'[k].pc \notin {"idle", "createClient"}
        BY <2>2
      <4>3. QED
        BY <1>1, <4>1, <4>2 DEF ClientsIssued
    <3>3. \A j \in Binds \ {k} : Secret'[j] = Secret[j]
      BY <1>1, <3>1 DEF Secret, BindAt
    <3>4. Secret'[k] = "valid"
      BY <1>1, <3>1 DEF Secret
    <3>5. Secret' = [Secret EXCEPT ![k] = "valid"]
      BY <3>3, <3>4, SecretsAre
    <3>6. \A j \in Binds : BindingOf[j] = b => Secret[j] # "valid"
      BY <3>1 DEF Secret
    <3>7. Secrets!Issue(k)
      BY <1>3, <2>3, <2>5, <3>5, <3>6 DEF Secrets!Issue, Secrets!Turn
    <3>8. QED
      BY <3>2, <3>7 DEF Secrets!BindingLifeNext
  <2>7. CASE ~TakesEffect(reply)
    <3>1. client' = client
      BY <2>1, <2>7
    <3>2. ClientsIssued'
      BY <1>1, <2>4, <3>1 DEF ClientsIssued
    <3>3. Secret'[k] = "spent"
      BY <1>1, <2>2, <2>4, <3>1 DEF Secret, BindAt
    <3>4. \A j \in Binds \ {k} : Secret'[j] = Secret[j]
      BY <1>1, <3>1 DEF Secret, BindAt
    <3>5. Secret' = [j \in Binds |-> IF j \in {k} THEN "spent" ELSE Secret[j]]
      BY <3>3, <3>4, SecretsAre
    <3>6. Secrets!GiveUp({k})
      BY <1>3, <2>3, <2>5, <3>5 DEF Secrets!GiveUp
    <3>7. QED
      BY <3>2, <3>6 DEF Secrets!BindingLifeNext
  <2>8. QED
    BY <2>6, <2>7
<1>5. CASE ~CreateClient(k)
  <2>1. /\ client' = client
        /\ bind[k].pc \in {"getRoot", "lookup", "readRoutes"}
        /\ bind'[k].pc \in {"lookup", "readRoutes", "ok", "failed"}
        /\ bind'[k].pc = "ok" => bind[k].pc = "readRoutes"
    <3>1. CASE GetRoot(k)
      BY <1>2, <3>1 DEF GetRoot, BindProceed, BindAt
    <3>2. CASE LookupApplication(k)
      BY <1>2, <3>2 DEF LookupApplication, BindAt, BindRecord
    <3>3. CASE BuildBindingCredentials(k)
      BY <1>2, <3>3 DEF BuildBindingCredentials, BindAt, BindRecord
    <3>4. QED
      BY <1>5, <3>1, <3>2, <3>3 DEF BindStep
  <2>2. ClientsIssued'
    <3>1. \A j \in Binds : bind[j].pc \notin {"idle", "createClient"} =>
                            bind'[j].pc \notin {"idle", "createClient"}
      BY <1>1, <2>1
    <3>2. QED
      BY <2>1, <3>1 DEF ClientsIssued
  <2>3. CASE bind'[k].pc # "ok"
    BY <1>1, <2>1, <2>2, <2>3, NothingOfSecrets DEF BindAt
  <2>4. CASE bind'[k].pc = "ok"
    <3>1. Secret' = Secret
      BY <1>1, <2>1 DEF Secret, BindAt
    <3>2. Told' = Told \cup {k}
      BY <1>1, <2>4 DEF Told, BindAt
    <3>3. Secret[k] = IF client[b] = k THEN "valid" ELSE "spent"
      BY <2>1 DEF Secret, BindAt
    <3>4. client[b] = k \/ b \in Ending
      BY <2>1, <2>4 DEF BindOwnsClient, SameBinding, Ending
    <3>5. Secrets!HandOut(k)
      BY <1>3, <3>1, <3>2, <3>3, <3>4 DEF Secrets!HandOut
    <3>6. QED
      BY <2>2, <3>5 DEF Secrets!BindingLifeNext
  <2>5. QED
    BY <2>3, <2>4
<1>6. QED
  BY <1>4, <1>5

\* An Unbind asks for the end of its binding, and then revokes what is valid.
LEMMA UnbindLivesSecrets ==
  ASSUME BindInv, ClientsIssued, NEW u \in Unbinds, Unbind(u) \/ DeleteClient(u)
  PROVE  ClientsIssued' /\ [Secrets!BindingLifeNext]_(Secrets!secretVars)
<1> DEFINE b == BindingOf[u]
<1> USE BindingAssumption DEF BindInv, BindingTypeOK
<1>1. bind' = bind /\ b \in Bindings /\ Told' = Told
  BY DEF Unbind, DeleteClient, Told, BindAt
<1>2. CASE Unbind(u)
  <2>1. client' = client /\ unbind' = [unbind EXCEPT ![u] = "deleteClient"]
    BY <1>2 DEF Unbind
  <2>2. ClientsIssued' /\ Secret' = Secret
    BY <1>1, <2>1 DEF ClientsIssued, Secret, BindAt
  <2>3. Ending' = Ending \cup {b}
    BY <2>1 DEF Ending
  <2>4. Secrets!AskEnd(b)
    BY <1>1, <2>2, <2>3 DEF Secrets!AskEnd
  <2>5. QED
    BY <1>1, <2>2, <2>4 DEF Secrets!BindingLifeNext
<1>3. CASE DeleteClient(u)
  <2>1. unbind[u] = "deleteClient"
        /\ \E s \in {"ok", "logged", "failed"} : unbind' = [unbind EXCEPT ![u] = s]
        /\ client' \in {client, [client EXCEPT ![b] = NoSecret]}
    BY <1>3 DEF DeleteClient
  <2>2. Ending' = Ending /\ b \in Ending
    BY <2>1 DEF Ending
  <2>3. ClientsIssued'
    BY <1>1, <2>1 DEF ClientsIssued
  <2>4. CASE client' = client \/ client[b] = NoSecret
    <3>1. client' = client
      BY <2>1, <2>4
    <3>2. Secret' = Secret
      BY <1>1, <3>1 DEF Secret, BindAt
    <3>3. QED
      BY <1>1, <2>2, <2>3, <3>2 DEF Secrets!secretVars
  <2>5. CASE client' # client /\ client[b] # NoSecret
    <3> DEFINE k == client[b]
    <3>1. /\ k \in Binds /\ BindingOf[k] = b /\ client'[b] = NoSecret
          /\ bind[k].pc \notin {"idle", "createClient"}
          /\ \A c \in Bindings \ {b} : client'[c] = client[c]
      BY <1>1, <2>1, <2>5 DEF ClientsIssued
    <3>2. Secret[k] = "valid" /\ Secret'[k] = "spent"
      BY <1>1, <3>1 DEF Secret, BindAt
    <3>3. \A j \in Binds \ {k} : Secret'[j] = Secret[j]
      <4>1. SUFFICES ASSUME NEW j \in Binds \ {k} PROVE Secret'[j] = Secret[j]
        OBVIOUS
      <4>2. client'[BindingOf[j]] = j <=> client[BindingOf[j]] = j
        BY <3>1
      <4>3. QED
        BY <1>1, <4>2 DEF Secret, BindAt
    <3>4. Secret' = [Secret EXCEPT ![k] = "spent"]
      BY <3>2, <3>3, SecretsAre
    <3>5. Secrets!Revoke(k)
      BY <1>1, <2>2, <3>1, <3>2, <3>4 DEF Secrets!Revoke, Secrets!Turn
    <3>6. QED
      BY <2>3, <3>1, <3>5 DEF Secrets!BindingLifeNext
  <2>6. QED
    BY <2>4, <2>5
<1>4. QED
  BY <1>2, <1>3

\* The end of the process ends the Binds that had no secret yet.
LEMMA CrashLivesSecrets ==
  ASSUME BindInv, ClientsIssued, BrokerCrash
  PROVE  ClientsIssued' /\ [Secrets!BindingLifeNext]_(Secrets!secretVars)
<1> DEFINE ks == {k \in Binds : BindAt(k, "createClient")}
<1> USE BindingAssumption DEF BindInv, BindingTypeOK
<1>1. /\ client' = client
      /\ \A k \in Binds :
           bind'[k].pc = IF bind[k].pc \in Binding THEN "failed" ELSE bind[k].pc
      /\ \A u \in Unbinds : unbind'[u] # "idle" <=> unbind[u] # "idle"
  BY DEF BrokerCrash, BindRecord
<1>2. "createClient" \in Binding /\ {"idle", "ok", "failed"} \cap Binding = {}
  BY DEF Binding
<1>3. Told' = Told /\ Ending' = Ending
  BY <1>1, <1>2 DEF Told, Ending, BindAt
<1>4. ClientsIssued'
  BY <1>1, <1>2 DEF ClientsIssued
<1>5. ASSUME NEW k \in Binds
      PROVE  /\ k \in ks => Secret[k] = "unused"
             /\ Secret'[k] = IF k \in ks THEN "spent" ELSE Secret[k]
  <2>1. k \in ks => client[BindingOf[k]] # k
    BY DEF ClientsIssued, BindAt
  <2>2. QED
    BY <1>1, <1>2, <2>1 DEF Secret, BindAt
<1>6. Secret' = [k \in Binds |-> IF k \in ks THEN "spent" ELSE Secret[k]]
  BY <1>5, SecretsAre
<1>7. Secrets!GiveUp(ks)
  BY <1>3, <1>5, <1>6 DEF Secrets!GiveUp
<1>8. QED
  BY <1>4, <1>7 DEF Secrets!BindingLifeNext

\* Every step of the broker is one of the life of secrets, or none.
LEMMA BrokerLivesSecrets ==
  ASSUME BindInv, ClientsIssued, [BrokerNext]_brokerVars
  PROVE  ClientsIssued' /\ [Secrets!BindingLifeNext]_(Secrets!secretVars)
<1>1. CASE \E k \in Binds : BindCall(k)
  <2>1. PICK k \in Binds : BindCall(k)
    BY <1>1
  <2>2. /\ UNCHANGED <<client, unbind>>
        /\ bind[k].pc = "idle" /\ bind'[k].pc = "createClient"
        /\ \A j \in Binds \ {k} : bind'[j] = bind[j]
    BY <2>1 DEF BindCall, Bind, BindGoto, BindAt, BindInv, BindingTypeOK, BindRecord
  <2>3. ClientsIssued'
    BY <2>2 DEF ClientsIssued, BindInv, BindingTypeOK
  <2>4. QED
    BY <2>2, <2>3, NothingOfSecrets DEF BindAt
<1>2. CASE \E k \in Binds : BindHandler(k)
  BY <1>2, BindLivesSecrets DEF BindHandler
<1>3. CASE \E u \in Unbinds : UnbindCall(u) \/ UnbindHandler(u)
  BY <1>3, UnbindLivesSecrets DEF UnbindCall, UnbindHandler
<1>4. CASE BrokerCrash
  BY <1>4, CrashLivesSecrets
<1>5. CASE UNCHANGED bindVars
  BY <1>5, NothingOfSecrets DEF bindVars, BindAt, ClientsIssued
<1>6. QED
  BY <1>1, <1>2, <1>3, <1>4, <1>5 DEF BrokerNext, brokerVars

\* No secret has been drawn at the start.
LEMMA SecretsInit == BrokerInit => Secrets!BindingLifeInit /\ ClientsIssued
<1> SUFFICES ASSUME BrokerInit PROVE Secrets!BindingLifeInit /\ ClientsIssued
  OBVIOUS
<1>1. /\ client = [b \in Bindings |-> NoSecret]
      /\ \A k \in Binds : bind[k].pc = "idle"
      /\ \A u \in Unbinds : unbind[u] = "idle"
  BY DEF BrokerInit, BindingInit
<1>2. Secret = [k \in Binds |-> "unused"]
  BY <1>1, BindingAssumption DEF Secret, BindAt
<1>3. Told = {} /\ Ending = {}
  BY <1>1 DEF Told, Ending, BindAt
<1>4. QED
  BY <1>1, <1>2, <1>3 DEF Secrets!BindingLifeInit, ClientsIssued

\* The clients of UAA live the plain life BindingLife describes (bind.go:36-79,
\* unbind.go:25): one valid secret of a binding at a time, each valid once,
\* revoked only when the binding was to end, handed out only after it was
\* issued, for any number of calls and any faults.
THEOREM BindingLifeImplemented == BrokerSpec => ImplementsBindingLife
<1>1. BindInv /\ ClientsIssued /\ [BrokerNext]_brokerVars
        => ClientsIssued' /\ [Secrets!BindingLifeNext]_(Secrets!secretVars)
  BY BrokerLivesSecrets
<1>2. QED
  BY <1>1, SecretsInit, BindingsInvariance, PTL
    DEF BrokerSpec, ImplementsBindingLife, Secrets!BindingLifeSpec
=============================================================================
