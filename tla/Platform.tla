------------------------------ MODULE Platform ------------------------------
(***************************************************************************)
(* The Cloud Controller (CC) as the broker uses it: the applications and   *)
(* routes of the instance space, and what each API call the broker makes   *)
(* does to them.  The CC is not part of the repository; this module is     *)
(* read off the calls in src/broker and is shared by every handler.        *)
(*                                                                         *)
(* A call of the broker mints at most one application and one route, so    *)
(* the identifier of what a call creates is the call itself: Guids is the  *)
(* set of Provision calls.  What a handler holds in its local variables is *)
(* a separate matter (Provisioning, Deprovisioning).                       *)
(***************************************************************************)
EXTENDS Naturals

CONSTANTS
  Guids,      \* identifiers of the applications and routes that may be created
  NoGuid,     \* the empty GUID of a zero resources.Application; also "nobody"
  Names,      \* application names, "<service id>-<instance id>"
  NameOf,     \* NameOf[g]: the name application g is created with, and the
              \* host of route g
  OfferingOf, \* OfferingOf[n]: the service a name belongs to
  Requests,   \* the requests that store an environment
  Counts,     \* numbers of instances that may be asked for
  Faults      \* what may go wrong in the behaviours considered

FaultKinds ==
  { "error",   \* a call is refused or never arrives
    "lost",    \* a call takes effect but its reply is lost
    "params",  \* the parameters of the request are not acceptable
    "panic",   \* a parser rejects, an instance crashes, a peer does not answer:
               \* what the broker answers with a panic
    "crash" }  \* the broker process is killed from outside

ASSUME PlatformAssumption ==
  /\ NoGuid \notin Guids
  /\ NameOf \in [Guids -> Names]
  /\ OfferingOf \in [Names -> {"config-server", "service-registry"}]
  /\ Guids \subseteq Requests /\ NoGuid \notin Requests
  /\ Counts \subseteq Nat \ {0} /\ 1 \in Counts
  /\ Faults \subseteq FaultKinds

VARIABLES
  app,       \* the applications of the space
  route      \* the routes of the space

(***************************************************************************)
(* The environment variables, in groups that the code writes together: the *)
(* parameters of the request one by one, the profiles made from them, the  *)
(* parameters as one JSON text, PEERS with PEERING_MODE.  Of each group it *)
(* is known which request wrote it last.                                   *)
(***************************************************************************)
EnvGroups   == {"params", "profiles", "json", "peers"}
Environment == [EnvGroups -> Requests \cup {NoGuid}]
NoEnv       == [e \in EnvGroups |-> NoGuid]

AppRecord ==
  [ state     : {"absent", "stopped", "started", "deleted"},
    env       : Environment,   \* the stored environment
    running   : Environment,   \* the environment its instances started with
    instances : Counts,        \* the desired number of web instances
    placed    : BOOLEAN,       \* all of them run somewhere and have ports
    droplet   : BOOLEAN,
    doomed    : BOOLEAN ]      \* a delete job has been accepted

RouteRecord ==
  [ state  : {"absent", "exists", "deleted"},
    dest   : Guids \cup {NoGuid},   \* the application it was mapped to last; the
                                    \* mapping ends with either end
    doomed : BOOLEAN ]

PlatformTypeOK ==
  /\ app \in [Guids -> AppRecord]
  /\ route \in [Guids -> RouteRecord]

PlatformInit ==
  /\ app = [g \in Guids |-> [ state |-> "absent", env |-> NoEnv, running |-> NoEnv,
                              instances |-> 1, placed |-> FALSE,
                              droplet |-> FALSE, doomed |-> FALSE ]]
  /\ route = [r \in Guids |-> [ state |-> "absent", dest |-> NoGuid,
                                doomed |-> FALSE ]]

Live(g)      == g \in Guids /\ app[g].state \in {"stopped", "started"}
IsStarted(g) == g \in Guids /\ app[g].state = "started"
HavePorts(g) == IsStarted(g) /\ app[g].placed
Startable(g) == Live(g) /\ app[g].droplet
Condemned(g) == ~Live(g) \/ app[g].doomed
Exists(r)    == r \in Guids /\ route[r].state = "exists"

NameTaken(n)  == \E g \in Guids : Live(g) /\ NameOf[g] = n
HostTaken(n)  == \E r \in Guids : Exists(r) /\ NameOf[r] = n
IsRegistry(n) == OfferingOf[n] = "service-registry"
RoutesOf(g)   == {r \in Guids : Live(g) /\ Exists(r) /\ route[r].dest = g}

(***************************************************************************)
(* pollScale waits until n instances are running or have crashed.  If n is *)
(* the desired number, all of them have been placed by then; if not, those *)
(* that come or go may be n for once.                                      *)
(***************************************************************************)
MayCount(g, n)    == IsStarted(g) /\ (app[g].instances = n => HavePorts(g))
NeverScaled(g, n) == Live(g) /\ (~IsStarted(g) \/ app[g].instances # n)

(***************************************************************************)
(* The replies a call may get: an invalid one is refused, a valid one is   *)
(* granted, and either may meet the faults of the network.                 *)
(***************************************************************************)
Replies(valid) ==
  (IF valid THEN {"ok"} \cup (Faults \cap {"lost"}) ELSE {"error"})
    \cup (Faults \cap {"error"})

TakesEffect(reply) == reply \in {"ok", "lost"}

(***************************************************************************)
(* The effect of each call on the applications and routes.                 *)
(***************************************************************************)
CreatedApp(g) == [app EXCEPT ![g].state = "stopped"]

\* A PATCH: variables that are not named stay.
PatchedEnv(g, groups, writer) ==
  [app EXCEPT ![g].env =
     [e \in EnvGroups |-> IF e \in groups THEN writer ELSE app[g].env[e]]]

\* Instances that are added have to be placed.
ScaledApp(g, n) ==
  LET stay == app[g].placed /\ n <= app[g].instances
  IN  [app EXCEPT ![g].instances = n, ![g].placed = stay]

DropletSet(g) == [app EXCEPT ![g].droplet = TRUE]

\* Starting a started application changes nothing: its instances keep the
\* environment they have.
StartedApp(g) ==
  IF IsStarted(g) THEN app
  ELSE [app EXCEPT ![g].state = "started", ![g].running = app[g].env]

\* A restart takes every instance from its place.
RestartedApp(g) ==
  [app EXCEPT ![g].state = "started", ![g].running = app[g].env, ![g].placed = FALSE]

StoppedApp(g) ==
  [app EXCEPT ![g].state = "stopped", ![g].running = NoEnv, ![g].placed = FALSE]

DoomedApp(g) == [app EXCEPT ![g].doomed = TRUE]

CreatedRoute(r) == [route EXCEPT ![r].state = "exists"]

MappedRoute(r, g) == [route EXCEPT ![r].dest = g]

DoomedRoute(r) == [route EXCEPT ![r].doomed = TRUE]

(***************************************************************************)
(* What is asked for happens some time later.  The instances of a started  *)
(* application are placed; until all of them are, the statistics have      *)
(* entries without ports.  Nobody looks at the ports of a config server.   *)
(***************************************************************************)
PlaceInstances(g) ==
  /\ IsStarted(g) /\ ~app[g].placed /\ IsRegistry(NameOf[g])
  /\ app' = [app EXCEPT ![g].placed = TRUE]
  /\ UNCHANGED route

(***************************************************************************)
(* DELETE only queues a job; the job removes the application (its routes   *)
(* stay, without a destination) or the route.                              *)
(***************************************************************************)
DeleteAppJob(g) ==
  /\ Live(g) /\ app[g].doomed
  /\ app' = [app EXCEPT ![g].state = "deleted", ![g].running = NoEnv,
                        ![g].placed = FALSE]
  /\ UNCHANGED route

DeleteRouteJob(r) ==
  /\ Exists(r) /\ route[r].doomed
  /\ route' = [route EXCEPT ![r].state = "deleted"]
  /\ UNCHANGED app
=============================================================================
