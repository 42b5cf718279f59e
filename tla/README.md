# A TLA+ model of scs-broker

scs-broker is a Cloud Foundry service broker for Spring Cloud Services: it offers
*config-server* and *service-registry* instances, each an ordinary application with a
route in one space, and *bindings*, each a UAA client. This directory holds a model of it
in TLA+, the TLC configurations that check the model, and proofs checked by TLAPS.
Paths below are relative to the root of the repository.

## The system

### Components

| component | source | state it keeps | operations |
|---|---|---|---|
| Provision and its goroutine | `broker/provision.go`, `create_service_instances.go`, `create_config_server_instance.go`, `create_registry_server_instance.go` | local variables only: `app`, `route`, `count`, `rc` | the handler answers at once and spawns a goroutine; the goroutine makes up to some thirty Cloud Controller (CC) calls |
| Deprovision | `broker/deprovision.go` | local: `app`, `routes` | lookup, read routes, stop, delete routes, delete application |
| Bind, Unbind | `broker/bind.go`, `unbind.go` | local | create or delete a UAA client, look up the application and its first route |
| Update | `broker/update.go`, `update_*_server_instance.go` | local | patch environment, scale, restart, push peers |
| Environment | `update_app_environment.go`, `update_registry_environment.go` | none | one PATCH, or one per parameter and one |
| Polls and watch | `poll_build.go`, `poll_package.go`, `poll_scale.go`, `monitor_application.go`, `get_process_stats_by_app.go`, `scale_registry_server.go` | timers | loops with and without timeouts |
| Registry configuration | `utilities/registry_config.go`, `registry_params.go` | mode and peers | append a peer, set the mode, check the count |
| Names, passwords | `utilities/utilities.go` | `seededRand`, shared by all handlers without a lock | make names and passwords |
| Catalog, unimplemented operations | `broker.go`, `unimplemented.go` | the configuration, read only | answer from the configuration; fail |
| Clients | `client.go` | none | a CC or UAA session per call |
| Process | `main.go`, `config/config.go` | none | read the configuration, listen |
| Artifact transport | `httpartifacttransport/` | none | not used any more |
| *Cloud Controller and UAA* (external) | used through `vendor/` | applications, routes, deletion jobs, clients | the calls above |

The broker stores nothing. Handlers and goroutines interact only through the CC (and UAA),
where they find applications by name, and through the one process they share, whose death
ends them all.

### What is hard

* `Provision` reports success before its goroutine has called anything
  (`provision.go:15-17`), and nothing connects the two afterwards: `LastOperation` is not
  implemented. Every later request interleaves with the goroutine at any of its calls.
* A goroutine gives up at its first error and undoes nothing.
* `Deprovision` reads the routes, stops, deletes: three looks at a space in which others
  work, and the two kinds of deletion are CC jobs nobody waits for.
* Replies can be lost after the call took effect; the platform then calls again.
* A panic in a goroutine is not recovered (`net/http` recovers only handlers), so one
  instance's goroutine can end everybody's. It takes no fault: the goroutine of a registry of
  several nodes indexes the ports of instances that an Update may have restarted since it
  waited for them.
* `pollScale` and `pollPackage` have no timeout.

### What makes each component correct

* Deprovision: what it reported gone is gone, or belongs to a Provision that overlapped it
  or came later; routes do not outlive their application; what is being deleted does not
  run; nobody else's application is touched.
* Provisioning: nothing runs before it is configured; goroutines end; without faults the
  reported instance does come to serve.
* Bindings: returned credentials work until an Unbind; after an Unbind they do not; a client
  never gets a second secret behind the back of who has the first.
* Update: one that reports success without a rival has taken hold: instances run, as many
  as asked for, with what it stored; it ends, and fails for no reason of its own making.
* Environment: what instances find is the work of one request, and never a profile without
  the setting that switches it on, however requests overlap and wherever they fail.
* Polls and watch: they end when what they wait for ends or the timeout has passed, and
  report what was the case recently enough.
* Registry configuration: the nodes know each other at their present addresses.
* Passwords: two bindings have none in common.

The full list of hazards, each at its line and with the properties aimed at it, is in
`PROJECT.json` under `hazards`.

## The modules

```
            ┌─ Provisioning ────┐
Platform ───┼─ Deprovisioning ──┴── Lifecycle ──┐                 ┌── MCService
            ├─ Binding ─────────────────────────┴── Broker ──┐    │
            └─ Updating ─────────────────────────────────────┴── Service

InstanceLife            what Lifecycle and Service implement
BindingLife             what Broker and Service implement
Environment             inside the groups of variables of Platform
Clock ── Staging        pollPackage, pollBuild: one step each in Provisioning
      └─ StartupWatch   MonitorApplicationStartup: one step in Provisioning
RegistryPeers           addresses: left out of Provisioning and Updating
Passwords               GenClientPassword: the secret of a Bind in Binding

Proofs: LifecycleProofs ── BrokerProofs ── ServiceProofs
        PollProofs (Staging, StartupWatch) ──┐
        EnvironmentProofs, PasswordsProofs ──┼── PartsProofs (MCParts)
        RegistryPeersProofs ─────────────────┘
TLC:    MCLifecycle, MCBroker, MCService, MCParts (the last five above)
```

Lifecycle is Provision, Deprovision and the CC's jobs; Broker adds Bind and Unbind; Service
adds Update and is the whole broker. The rest look closer at code that is a single step
there, or whose data is abstracted there; they keep the interface to the larger modules
small: a poll ends with success or failure, a request stores groups of variables.

**Platform** (external) is the CC as the broker's calls use it. `app` and `route` are the
applications and routes of the instance space. A Provision call creates at most one of
each, so the identifier of what it creates is the call itself; `NameOf` gives the
application name (`utilities.MakeAppName`) and host. An application has a state, a stored
environment (`env`), the environment its instances started with (`running`), the desired
number of instances, whether all of these are `placed`, a droplet, and `doomed` once a
delete job has been accepted. Instances that are started, restarted or added are placed some
time later (`PlaceInstances`, a job of the CC); until then the statistics list them without
ports (`HavePorts`). An
environment is four groups of variables that the code writes together (parameters,
profiles, the JSON text, peers), and of each it is known which request wrote it last.
`Replies` gives the answers a call may get: a call whose precondition fails is refused; any
call may be refused (`"error"`) or lose its reply after taking effect (`"lost"`), if the
constant `Faults` contains these. The other faults are parameters that are not acceptable,
what the broker answers with a panic (a parser that rejects, an instance that has crashed, a
peer that does not answer), and the death of the process.

**Provisioning** is `Provision` and the goroutine, for both services. One action is one CC
call with the code that acts on its reply, so that everything else may happen between two
calls. `prov[p]` holds the place of the goroutine and its variables: `guid` is `app.GUID`,
`url` is `route.GUID`, `count` is `rp.Count()`. Calls that touch only the application
and are alike in their error path are the action `Stage`, which goes through
`StagingCalls` in the order of the code. `UpdateApplicationStart` assigns the reply to
`app` even when the call fails, as the code does. The polls of package and build are one
step each; `PollScale` never returns for an application that is stopped, and need not for
one whose scale somebody has changed, unless a poll fails; otherwise it waits until all
instances are placed (`MayCount`). The statistics read afterwards are the state of another
moment: where instances have no ports by then the goroutine does not go on but panics
(`LacksPorts`, lines 234 and 272), which is the death of the process, with or without faults.

**Deprovisioning** is the handler, one CC call at a time: `dep[d].guid` is `app.GUID`,
`dep[d].routes` what is left of the loop over the routes.

**Binding** is `Bind` and `Unbind`; `client[b]` is the secret of the UAA client of a
binding, identified with the Bind that drew it. An Unbind ends `"ok"`, `"logged"` (the
deletion failed, which is logged and reported as success) or `"failed"`.

**Updating** is both `Update` handlers: find the application, patch, scale if the number of
processes differs, poll, read the peers, patch twice more, restart, push. `PlainCalls` are
the calls after which the handler goes on or gives up. An Update that reads instances
without ports (line 129) panics too, but in an HTTP handler: it fails, the process lives.

**Lifecycle** composes Provisioning and Deprovisioning with the CC's jobs and the death of
the process; **Broker** adds Binding, **Service** adds Updating. Lifecycle's
`during`, `later`, Broker's `pending` and Service's `alone` are history variables: they
record which calls overlapped or followed another, and no action reads them. In Service an
Update may meet any other call of its instance, although Cloud Foundry asks for one
operation at a time: Provision is reported done before its goroutine has begun, and a
handler goes on when its caller has given up.

**InstanceLife** is what the platform's users see of an application: built once, never
beside another of its name, running or idle, going and gone; it stops or goes only if its
instance was asked to. `ImplementsLife` is the mapping `Phase`, `Asked` of the state of
Lifecycle, under which both Lifecycle and Service implement it.

**BindingLife** is the same for the secrets of bindings as UAA sees them: issued at most once
and never beside another of the binding, handed out only then, revoked only if the binding
was to be unbound. `ImplementsBindingLife` maps Broker's clients to it by `Secret`, `Told`
and `Ending`.

**Environment** has the variables themselves, stored by requests whose parameters overlap:
in one PATCH (`UpdateAppEnvironment`), and for a registry once more in one PATCH per
parameter, in the order of a Go map, and a last one (`UpdateRegistryEnvironment`).

**Staging** has `pollPackage` and `pollBuild` with the sleep, the interval timer, the
timeout and a `select` that is free to choose; a call takes up to `Latency`, in which the
CC's state is read at any moment. **StartupWatch** has the watch the same way, over
instances that crash and are restarted when they like.

**RegistryPeers** has the nodes of one registry, their addresses, which change with each
placement, the list in PEERS, and what each node was told: by the goroutine, which reads
the addresses twice and appends, and by an Update, which reads, restarts, and tells.

**Passwords** has `math/rand`'s ring of words with its loads and stores as separate steps
of the Bind handlers that draw from it.

The inductive invariants that only the proofs need are at the top of each proof module, or
of its section for the component; the component modules hold the model and the properties.

In the component modules a definition introduced as *Mutant* is a plausible defect of the
definition after it. It is not used by the model; put in place of that definition it must
make the property named in `PROJECT.json` fail.

## Model checking

`tlc -config X.cfg MCLifecycle` (or `MCBroker`, `MCService`, `MCParts`, `RegistryPeers`).

| configuration | instance | shows |
|---|---|---|
| LifecycleRegistry | one registry, 2 Provisions, 2 Deprovisions, all faults (3.0 million states) | TypeOK, SurvivorsOverlap, OrphanRoutesExplained, StrayRoutesExplained, StoppedWhileDeleted, RunsConfigured, LeavesOthersAlone |
| ServiceFaults | one registry, a Provision, a Deprovision and an Update, all faults, fair (619,000) | ImplementsLife, ProvisioningEnds, ServiceTypeOK, SurvivorsOverlap, OrphanRoutesExplained, StaysStopped, StartedConfigured, UpdateTakesHold |
| ServiceConfig | one config server, a Provision and a Deprovision, with three Updates (one without parameters) or with two Binds and an Unbind of one binding, all faults, jobs fair (593,000) | EventuallyGone, UpdateTakesHold, ImplementsBindingLife, BrokerTypeOK, CredentialsWork, UnbindFinal |
| ServiceReady | one registry, two Provisions, an Update, a Bind, no faults, no Deprovision, fair (273,000) | EventuallyServing, ReadyBindSucceeds, ProvisionFailureExplained, BindFailureExplained |
| ServiceUpdates | one registry, a Provision, two Updates, no faults, no Deprovision, fair (637,000) | FailureExplained, UpdatesEnd, DoneServes |
| Parts | Environment, Staging, StartupWatch, RegistryPeers, Passwords, each by itself (1.9 million) | PartsTypeOK; SettingsBacked, Coherent; PackagePollEnds, TimeoutHonest, BuildPollEnds; CrashSeen, WatchLasts; StoredMatches, EveryoneTold; CommonWordsExplained |
| LifecycleDeletes | no faults | **violated**: DeprovisionDeletes |
| LifecycleRetry | all faults | **violated**: RetryTargetsApplication |
| BrokerTestflight | no faults | **violated**: BindAfterProvision |
| BrokerUnbindDeletes | all faults | **violated**: UnbindDeletes |
| ServiceSticks | no faults | **violated**: UpdateSticks |
| RegistryPeersCount | one creator | **violated**: NodeCountTold |

*Bounds.* In Lifecycle, Broker and Service every variable is finite; the only bounds are
the numbers of calls and `Counts`. Two Provision calls of one instance are a request and
its repetition by the platform; with two Deprovision calls a retry after a failure meets
the first one's jobs and the goroutine of either Provision. A third call of either kind
brings no new pair of interacting actors, and the theorems below hold for any number.
ServiceConfig has Updates or bindings in one behaviour, not both (`UpdatesOrBindings`): an
Update neither reads nor writes a client, and a Bind changes no application. The
code asks of a count only whether it is one, more than one, or the present one, which
`{1, 2}` distinguishes.

In Parts: three requests of which two store twice, with parameters that overlap in part.
`Second` and `Interval` have the values of the code (1 s and 3 s), `Timeout` and `Rounds`
are smaller (15 min and 30 rounds there), large enough for several looks and rounds. The
limits in PackagePollEnds,
TimeoutHonest and BuildPollEnds are reached, so none could be smaller; `PackageTime` bounds
how long the CC may work on a package, the one clock that nothing else stops. Three nodes
tell "the other" from "the others", each may be placed elsewhere once on its own
(`MaxMoves`) besides the restarts. Passwords of two words from a ring of three, by three
calls: draws go round the ring, so that words come back to a place already drawn from, and
the calls that interfere with each other may be two others than those compared.

In all cfgs the system may stop (every call has been made and answered), so deadlock is
not checked.

*Symmetry* permutes the Provisions and the Deprovisions of LifecycleRegistry, where all of
them have the same name and no liveness is checked.

*Fairness* (`Fairness`, `BrokerFairness`, `ServiceFairness`): a goroutine that can take a
step takes it (the Go scheduler; each CC call returns, as HTTP calls do or fail), an
accepted request is served to its end (`net/http`), and the CC gets to each deletion job and
to the placement of instances. A goroutine that has read entries without ports ends the
process (`LacksPorts(p) /\ Crash`): that is its next step.
Nothing forces a request to be made, a fault to happen, or a poll to fail: the poll for
instances that nothing will bring about (`PollsForever`, `UpdatePolls`) is excluded, since
only an error would end it, and ProvisioningEnds and UpdatesEnd say so. ServiceConfig, whose
one liveness property is about deletion, assumes no more than that the CC does its jobs. That
the CC
finishes processing a package is assumed where `pollPackage` is one step; Staging needs no
fairness, as what it says of time is safety.

### The violations

* **DeprovisionDeletes.** Provision reports success; Deprovision looks the application up
  before the goroutine has created it, finds none and reports success
  (`deprovision.go:22-24`); the goroutine then builds an instance nobody owns.
  SurvivorsOverlap is what does hold.
* **RetryTargetsApplication.** `app, _, err = cfClient.UpdateApplicationStart(app.GUID)`
  overwrites `app` on error, so "Trying restart" restarts the empty GUID
  (`create_registry_server_instance.go:200-203`, also 248-251 and 324-327).
* **BindAfterProvision.** `ci/scripts/assert-testflight:9` binds as soon as the service is
  created; the application or its route need not exist yet. ReadyBindSucceeds is what does
  hold.
* **UnbindDeletes** with refused calls: `unbind.go:26-28` reports an error of
  `DeleteClient` as success. Without refused calls it holds, and is proved; UnbindFinal is
  what holds with them.
* **UpdateSticks.** The goroutine of a Provision stores parameters and profiles a second
  time after its start (`update_registry_environment.go:19-71`); an Update that was made
  and reported done in between is overwritten, and the instances find the old values at
  their next restart. UpdateTakesHold, which asks for an Update without a rival, holds.
* **NodeCountTold.** `AddPeer` sets `Count` to the index of the peer
  (`registry_config.go:22-24`), which is sent as `nodeCount`.

Four more things the models show that no violated run is spent on:

* A registry's goroutine stores PEERS after its Start, and its second Start, like the one that
  is to recover a crash (`create_registry_server_instance.go:248, 324`), does nothing to an
  application that is started, so the instances do not see PEERS before an Update restarts
  them. No property is about it: none could hold.
* An Update of a registry without parameters passes `ExtractRegistryParams`, which expects the
  empty text, and fails in the parser (`update_registry_server_instance.go:59-70`).
* After an Update the nodes have been told the addresses they had before its restart.
  EveryoneTold is about nodes that stayed where they were, so it says nothing of this either.
* Without any fault, an Update that restarts or scales a registry of several nodes while its
  goroutine is between `pollScale` and one of its two readings of the ports ends the whole
  process, and a second Update right after the first one's restart panics in its handler.
  ProvisionFailureExplained, BindFailureExplained and FailureExplained have these as reasons
  (`Perishing`, `HasTouched`), and say that there are no others: who has waited for instances
  and is left alone finds their ports.

Two requests that store a registry's variables at once may mix their settings (`Coherent` is
about requests that had no company); SettingsBacked is what holds then, and UpdateSticks shows
the mixture of a Provision and an Update.

## Proofs

`tlapm M.tla` for each of the eight proof modules. The component runs are small instances
of what these theorems say for every value of the constants; each inductive invariant was
checked by TLC on those instances before it was proved.

*Assumptions* are those named in the component modules, and no other:

* `PlatformAssumption`, `DeprovisionAssumption`, `BindingAssumption`, `UpdateAssumption`:
  the empty GUID is no application and no request, a count of one may be asked for, and
  names, targets and bindings are functions into their sets. `ServiceAssumption`: the calls
  of different kinds are different calls.
* `ClockAssumption`, `StagingAssumption`, `WatchAssumption`: times are natural numbers, the
  sleep and the interval are not zero, there is a round and an instance.
* `EnvironmentAssumption`, `PasswordsAssumption`: parameters and profiles belong to their
  sets; ring and length are positive.
* `PeersAssumption`: no two goroutines create the same registry, since as long as its
  application stands a second one fails at `CreateApplication`, before anything that this
  module follows; there is a largest node count among those asked for, since a count is an
  `int`.

Nothing is assumed of the number of calls, or of the faults except in UnbindDeletesHolds
(no call is refused), FaultlessInvariance and the four theorems that rest on it (no faults, as
their properties say).

| module | theorem | states |
|---|---|---|
| LifecycleProofs | Invariance | `Spec => []IInv` |
| | TypeCorrect, LeavesOthersAloneHolds, SurvivorsOverlapHolds, StoppedWhileDeletedHolds, OrphanRoutesExplainedHolds, StrayRoutesExplainedHolds, RunsConfiguredHolds | the run properties of those names |
| | LifeImplemented | `Spec => ImplementsLife`: Lifecycle implements InstanceLife |
| BrokerProofs | BrokerImplementsLifecycle | `BrokerSpec => Spec`, so the above hold with bindings too |
| | BrokerTypeCorrect, CredentialsWorkHolds, UnbindFinalHolds | the run properties of those names |
| | BindingLifeImplemented | `BrokerSpec => ImplementsBindingLife`: Broker implements BindingLife |
| | UnbindDeletesHolds | `BrokerSpec => []UnbindDeletes`, assuming no call is refused |
| ServiceProofs | ServiceInvariance | `ServiceSpec => [](ServiceInv /\ BindInv /\ UnbindInv)` |
| | ServiceTypeCorrect, ServiceSurvivorsOverlap, ServiceOrphanRoutesExplained, ServiceStrayRoutes, ServiceCredentialsWork, ServiceUnbindFinal | what the smaller compositions promise holds of the whole broker |
| | ServiceImplementsLife | `ServiceSpec => ImplementsLife`: the whole broker implements InstanceLife |
| | ServiceImplementsBindingLife | `ServiceSpec => ImplementsBindingLife` |
| | StaysStoppedHolds, StartedConfiguredHolds, UpdateTakesHoldHolds | the run properties of those names |
| | FaultlessInvariance | what holds besides without faults |
| | DoneServesHolds | `ServiceSpec => []DoneServes`, without faults |
| | FailureExplainedHolds, ProvisionFailureExplainedHolds, BindFailureExplainedHolds | the action properties of those names, without faults |
| PollProofs | StagingInvariance, WatchInvariance | the invariants of the polls and of the watch |
| | PackagePollEndsHolds, TimeoutHonestHolds, BuildPollEndsHolds, CrashSeenHolds, WatchLastsHolds | the time limits |
| EnvironmentProofs | EnvironmentInvariance, SettingsBackedHolds, CoherentHolds | what instances find |
| PasswordsProofs | PasswordsInvariance, CommonWordsExplainedHolds | what passwords have in common |
| RegistryPeersProofs | PeersInvariance, StoredMatchesHolds, EveryoneToldHolds | what nodes know of each other |
| PartsProofs | PartsAreBehaviours | every behaviour of the run Parts is one of each of its five modules, so all of this holds of it |
| | PartsTypeCorrect | `PartsSpec => []PartsTypeOK` |

### The arguments

*Lifecycle.* A handler holds the GUID it looked up once, so the properties need to know
that it is the right one at every later step. `UniqueName` (the CC's names are unique)
makes the lookup find the only candidate; `OverlapCovers` says that whoever is still at
work afterwards is in the handler's history, hence that an application that appears later
is explained; together they keep `HoldsTheResponsibility`, which becomes `SurvivorsOverlap`
when the handler ends. `OwnObjects` and `OwnRoutes` (a goroutine holds its own application
and route or none) confine what a goroutine disturbs to its own `p`, which is what makes
`RoutesRead` and `DoomedByHandler` inductive and gives the statement about routes. A
goroutine's step is handled by three lemmas that say what becomes of its variables, of its
application and of its route (`GoroutineMoves`, `GoroutineApp`, `GoroutineRoute`), the rest
by one lemma per action. None of this says who starts applications, so that it survives
Updates, which do.

`StoppedWhileDeleted` needs `IInv` and the fact that only the goroutine of an application
starts it (`StartedByOverlap`). `RunsConfigured` needs to know what a goroutine has behind
it: `InOrder(p, held)` follows the places of the code, environment before the rest of
staging, a droplet only with an environment, route before any start, in the order of either
service. An Update restarts what it finds, so with Updates the route may be missing; `held`
says that somebody has hold of the application, and the same lemma (`InOrderStep`) serves
`RunsConfigured` of Lifecycle, where nobody ever has, and `StartedConfigured` of Service,
where an Update that has found the application never lets go of it (`HoldStays`) and can
start it only with a droplet, hence with an environment (`UpdateWrites`).

`LeavesOthersAlone` is the action form of `OwnObjects` and of the lemmas that follow from it:
`GoroutineApp` and `GoroutineRoute` say that a step of a goroutine disturbs its own application
and route only, and a step of anybody else, or the end of the process, that changes a goroutine
changes no object at all.

`StrayRoutesExplained` is inductive with `OwnObjects`: only `CreateRoute` makes a route
that leads nowhere, its goroutine's next call maps it, and when that fails nothing follows.

*InstanceLife.* Every step is matched with one step of one application, a request to go, or
nothing. `UniqueName` is what `Build` asks for; `NotBuiltYet` (what has not begun was never
there) makes building happen once; `HandlesOwnInstance` gives that a handler stops and
condemns only applications of an instance that was asked to go, and `DoomedByHandler` that
what vanishes was condemned. `GoroutineLives`, `HandlerLives` and `UpdateLives` do the case
analysis for the three kinds of actors.

*Bindings.* `BindOwnsClient` follows a client from its creation, and `OwnRoutes` of
Lifecycle shows that the route in the credentials is that of the bound instance.
`PendingCovers` says that a Bind which may still create the client is in the history of
the Unbind that succeeded, so what is `Clean` stays so; it becomes so when UAA confirms
(UnbindFinal), or whenever no call is refused (UnbindDeletes).

*BindingLife.* UAA refuses to create a client that exists, so a secret is issued only beside
none; `ClientsIssued` says that a client has the secret of a Bind of its binding that is
past its creation, so that what a handler does later, and what ends it, cannot issue or
revoke. A crash is many secrets given up at once. `BindOwnsClient` is what lets a secret be
handed out only while it is valid, or after an Unbind was asked for.

*Service.* Every step is one of Broker or of an Update handler (`ServiceSteps`), and
`UpdateEffect` bounds what the latter does: no routes, no application but the one it holds,
of that no state but a start. So an Update keeps `IInv`, and the invariants of the smaller
compositions carry over. `UpdatesOwnInstance` says that an Update holds an application of
its instance, and `NoRivals` that while `alone[c]` stands, no rival of `c` is at work: the
history variable means what its name says.

`UpdateTakesHold` is proved from `Progress`: what an Update that is alone has brought
about, read off the order of the calls backwards (after storing, after counting, after the
peers, after the restart). Its own calls establish the next part, in particular the restart,
which takes over what has been stored as long as the application is there; any other actor
that could undo a part would be a rival, which `NoRivals` excludes (`AppOfAlone`); the
jobs only remove.

*Without faults.* `FailureExplained`, `ProvisionFailureExplained` and `BindFailureExplained`
are action properties: the step that fails must find what explains it. Their invariant is
`Faultless`. `Unfailing` is the order of a goroutine's calls once no fault can interrupt it:
what it has built by each of them, and that an application whose goroutine is not at work is
complete, unless the goroutine died with the process. `RoutesGoWithInstance` says that only a
Deprovision takes routes away, `NotBuiltYet` that the name a goroutine finds taken is not
taken by itself, `ClientsIssued` that the client a Bind finds is another Bind's, and
`BindsReadLive` that what a Bind found still stands when it reads the routes, or was to be
deprovisioned. By `StandsOn` what is there stays until its instance is to be deprovisioned;
with `Unfailing` that is `DoneServes`.

Why a process ends, or a reading of ports fails, is `PortsKept`: the instances of a registry
have ports from the moment its goroutine has waited for them, as long as no Update has touched
it; and from the moment an Update has waited for them, as long as no other Update has and the
goroutine has read its own. To be inductive it needs that only registries are scaled
(`ScalesRegistries`), that as many instances are desired as are waited for, and that an Update
without parameters gets nowhere (`ParameterlessFail`). By `TouchedStays` an Update that has
touched an application is never taken off that list, so a goroutine that meets instances
without ports is `Perishing` (`EndsPerishing`), and an Update that meets them was preceded by
another one or met an unfinished goroutine.

*Polls and watch.* `WaitsWithin` and `WatchWithin` say that the clock runs only as long as
what is in progress waits; the rest of the invariants add up the waits since the event the
property counts from: when the look that saw something pending began (`PackageInTime`), by
when the timer is due (`BuildInTime`), which round the watch is in and when the statistics
are read next. The arithmetic is linear but for the product in WatchLasts, which a lemma of
its own bounds.

*Environment.* A request that has not raced is the only one at work (`NoCompany`), so that
its PATCHes meet only its own settings; the text that says whose settings they are is its
own while it is in the loop (`LoopOwnsText`). `SettingsBacked` needs `LoopHasStored` only,
and none of this about races: nothing is ever unset.

*Passwords.* What an undisturbed call has drawn is behind the ring, and no late store can
bring it back (`WordsGone`), because whoever loads later loads the new word; a call that
stores late was company to it.

*RegistryPeers.* `ReadByNow` ties the addresses an actor has read to the nodes that have not
moved since; `BroughtAbout` follows the number of nodes, PEERS and the lists already pushed
through the calls of an actor that is alone (`AloneAtWork`). The creator's list has every
node twice, with the same address for those that stayed, so the set the node ends up with
has one.

## Only model-checked

* Liveness (ProvisioningEnds, UpdatesEnd, EventuallyServing, EventuallyGone,
  ReadyBindSucceeds): TLAPS does not do fairness.
* That the six statements the code does not keep are violated is TLC's to show.

## Not modelled

* Names: `MakeAppName` and the like are functions of identifiers, constants here (`NameOf`,
  `BindingOf`). Different identifiers may yield one name (`MakeClientIdForBinding` cuts the
  service id out of that of the binding, `utilities.go:64-66`); they are one instance or one
  binding of the model then.
* The order of the profiles in SPRING_PROFILES_ACTIVE (a set here; the code takes the order of
  a Go map).
* The catalog, the unimplemented operations, configuration and start-up: no state.
* Payloads, log lines, domains, packages and builds as objects: no property needs more
  than that the call succeeded. Opening a session before a call is part of that call.
* The vendored libraries, the deployment scripts and the unused artifact transport.

## State of the project

Every part of the program that changes state has its module, all of them but the closer
looks are composed in Service, and every safety and action property of the passing runs is
proved, for any values of the constants.

What a next step would be: small abstract specifications between the closer looks and the
larger modules (a request of Environment stores its groups of variables, the polls of
Staging and the watch end as the single steps of Provisioning do), which are now connected
only by their interfaces; and a module for start-up and the clients of CC and UAA, should
they ever keep state.
