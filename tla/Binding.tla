------------------------------ MODULE Binding -------------------------------
(***************************************************************************)
(* Bind and Unbind (bind.go, unbind.go), and the clients of UAA they       *)
(* create and delete.  The password of a client is drawn by the Bind call  *)
(* that creates it, so it is identified with that call.                    *)
(***************************************************************************)
EXTENDS Platform

CONSTANTS
  Binds,       \* the Bind calls
  Unbinds,     \* the Unbind calls
  Bindings,    \* binding ids; the UAA client id is made from it
  NoSecret,    \* there is no such client
  BindingOf,   \* BindingOf[k], BindingOf[u]: the binding a call is about
  BindTarget   \* BindTarget[k]: the application name of its instance

ASSUME BindingAssumption ==
  /\ NoSecret \notin Binds
  /\ BindingOf \in [Binds \cup Unbinds -> Bindings]
  /\ BindTarget \in [Binds -> Names]

VARIABLES
  client,      \* client[b]: the secret of the UAA client of binding b
  bind,        \* the handlers of the Bind calls
  unbind       \* the handlers of the Unbind calls

Binding == {"createClient", "getRoot", "lookup", "readRoutes"}

BindRecord ==
  [ pc   : {"idle", "ok", "failed"} \cup Binding,
    guid : Guids \cup {NoGuid},    \* app.GUID
    uri  : Guids \cup {NoGuid} ]   \* the route in the credentials

BindingTypeOK ==
  /\ client \in [Bindings -> Binds \cup {NoSecret}]
  /\ bind \in [Binds -> BindRecord]
  /\ unbind \in [Unbinds -> {"idle", "deleteClient", "ok", "logged", "failed"}]

BindingInit ==
  /\ client = [b \in Bindings |-> NoSecret]
  /\ bind = [k \in Binds |-> [pc |-> "idle", guid |-> NoGuid, uri |-> NoGuid]]
  /\ unbind = [u \in Unbinds |-> "idle"]

BindAt(k, step) == bind[k].pc = step

BindGoto(k, step) == bind' = [bind EXCEPT ![k].pc = step]

\* Mutant: the reply is returned as it came.
BindReturnsReply(k, reply, next) == BindGoto(k, IF reply = "ok" THEN next ELSE reply)

BindProceed(k, reply, next) ==
  BindGoto(k, IF reply = "ok" THEN next ELSE "failed")

Bind(k) ==
  /\ BindAt(k, "idle")
  /\ BindGoto(k, "createClient")
  /\ UNCHANGED <<client, unbind>>

\* Mutant: a client that exists gets the new secret.
ReplaceClient(k) ==
  /\ BindAt(k, "createClient")
  /\ client' = [client EXCEPT ![BindingOf[k]] = k]
  /\ BindGoto(k, "getRoot")
  /\ UNCHANGED unbind

\* UAA refuses to create a client that exists.
CreateClient(k) ==
  /\ BindAt(k, "createClient")
  /\ \E reply \in Replies(client[BindingOf[k]] = NoSecret) :
       /\ client' = IF TakesEffect(reply)
                      THEN [client EXCEPT ![BindingOf[k]] = k] ELSE client
       /\ BindProceed(k, reply, "getRoot")
  /\ UNCHANGED unbind

GetRoot(k) ==
  /\ BindAt(k, "getRoot")
  /\ \E reply \in Replies(TRUE) : BindProceed(k, reply, "lookup")
  /\ UNCHANGED <<client, unbind>>

LookupApplication(k) ==
  /\ BindAt(k, "lookup")
  /\ \/ \E g \in Guids :
          /\ Live(g) /\ NameOf[g] = BindTarget[k]
          /\ bind' = [bind EXCEPT ![k].pc = "readRoutes", ![k].guid = g]
     \/ ~NameTaken(BindTarget[k]) /\ BindGoto(k, "failed")
     \/ "error" \in Faults /\ BindGoto(k, "failed")
  /\ UNCHANGED <<client, unbind>>

\* Mutant: a single route is taken for none.
WantsTwoRoutes(k) ==
  /\ BindAt(k, "readRoutes")
  /\ IF \E r, s \in RoutesOf(bind[k].guid) : r # s
       THEN \E r \in RoutesOf(bind[k].guid) :
              bind' = [bind EXCEPT ![k].pc = "ok", ![k].uri = r]
       ELSE BindGoto(k, "failed")
  /\ UNCHANGED <<client, unbind>>

\* Read the routes, take the first for the credentials; none is an error.
BuildBindingCredentials(k) ==
  /\ BindAt(k, "readRoutes")
  /\ \/ \E r \in RoutesOf(bind[k].guid) :
          bind' = [bind EXCEPT ![k].pc = "ok", ![k].uri = r]
     \/ /\ RoutesOf(bind[k].guid) = {} \/ "error" \in Faults
        /\ BindGoto(k, "failed")
  /\ UNCHANGED <<client, unbind>>

BindStep(k) ==
  \/ CreateClient(k) \/ GetRoot(k) \/ LookupApplication(k)
  \/ BuildBindingCredentials(k)

Unbind(u) ==
  /\ unbind[u] = "idle"
  /\ unbind' = [unbind EXCEPT ![u] = "deleteClient"]
  /\ UNCHANGED <<client, bind>>

\* Mutant: the client id is not the one Bind made of the binding.
DeleteOtherClient(u) ==
  /\ unbind[u] = "deleteClient"
  /\ \E b \in Bindings \ {BindingOf[u]} :
       client' = [client EXCEPT ![b] = NoSecret]
  /\ unbind' = [unbind EXCEPT ![u] = "ok"]
  /\ UNCHANGED bind

\* An error of DeleteClient is logged and success is reported all the same
\* ("logged"); only a failure to reach UAA's token endpoint (GetUaaClient) is
\* reported as one.
DeleteClient(u) ==
  /\ unbind[u] = "deleteClient"
  /\ \/ \E reply \in Replies(client[BindingOf[u]] # NoSecret) :
          /\ client' = IF TakesEffect(reply)
                         THEN [client EXCEPT ![BindingOf[u]] = NoSecret] ELSE client
          /\ unbind' = [unbind EXCEPT ![u] = IF reply = "ok" THEN "ok" ELSE "logged"]
     \/ /\ "error" \in Faults
        /\ unbind' = [unbind EXCEPT ![u] = "failed"]
        /\ UNCHANGED client
  /\ UNCHANGED bind

\* Unbind reported success.
Unbound(u) == unbind[u] \in {"ok", "logged"}
=============================================================================
