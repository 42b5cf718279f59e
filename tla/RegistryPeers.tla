--------------------------- MODULE RegistryPeers ----------------------------
(***************************************************************************)
(* What the nodes of one registry are told of each other                   *)
(* (create_registry_server_instance.go:210-317,                            *)
(* update_registry_server_instance.go:87-195, registry_config.go): the     *)
(* number of nodes is scaled, their addresses are read from the            *)
(* statistics, stored in PEERS, and pushed to every node, while nodes      *)
(* crash and are placed elsewhere.  In modules Provisioning and Updating   *)
(* the same calls appear without addresses.                                *)
(***************************************************************************)
EXTENDS Naturals, SequencesExt

CONSTANTS
  Creators,    \* goroutines that create the registry: one, or none
  Updaters,    \* Update calls
  Sizes,       \* the node counts that are asked for
  MaxMoves     \* bound: how often a node is placed elsewhere on its own

Actors == Creators \cup Updaters

ASSUME PeersAssumption ==
  /\ Creators \cap Updaters = {}
  /\ \A c, d \in Creators : c = d
  /\ Sizes \subseteq Nat \ {0}
  /\ \E n \in Sizes \cup {1} : \A m \in Sizes \cup {1} : m <= n
  /\ MaxMoves \in Nat

VARIABLES
  nodes,       \* the number of web instances
  address,     \* address[i]: the address of node i, new with each placement
  told,        \* told[i]: the list of peers node i was told, if any
  registryEnv, \* PEERS and PEERING_MODE
  actor,       \* the goroutine and the handlers
  moved,       \* moved[a]: nodes placed elsewhere since a read addresses first
  alone        \* actors without a rival; both for the properties only

peersVars == <<nodes, address, told, registryEnv, actor, moved, alone>>

Largest == CHOOSE n \in Sizes \cup {1} : \A m \in Sizes \cup {1} : m <= n
Indices == 0 .. Largest - 1
Peer    == [index : Indices, nodeCount : Nat, uri : Nat]

Working == {"scale", "pollScale", "read", "store", "start", "readAgain", "push"}

ActorRecord ==
  [ pc     : {"idle", "done", "failed"} \cup Working,
    count  : Sizes \cup {1},
    peers  : Seq(Peer),
    pushed : Nat ]

PeersTypeOK ==
  /\ nodes \in Sizes \cup {1}
  /\ address \in [Indices -> Nat]
  /\ told \in [Indices -> Seq(Peer)]
  /\ registryEnv \in [mode : {"standalone", "clustered"}, peers : Seq(Peer)]
  /\ actor \in [Actors -> ActorRecord]
  /\ moved \in [Actors -> SUBSET Indices]
  /\ alone \in [Actors -> BOOLEAN]

PeersInit ==
  /\ nodes = 1
  /\ address = [i \in Indices |-> 0]
  /\ told = [i \in Indices |-> <<>>]
  /\ registryEnv = [mode |-> "standalone", peers |-> <<>>]
  /\ actor = [a \in Actors |-> [pc |-> "idle", count |-> 1, peers |-> <<>>, pushed |-> 0]]
  /\ moved = [a \in Actors |-> {}]
  /\ alone = [a \in Actors |-> TRUE]

ActorAt(a, step) == actor[a].pc = step
Busy(a)     == actor[a].pc \in Working
ActorGoto(a, step) == actor' = [actor EXCEPT ![a].pc = step]
Clustered(a)  == actor[a].count > 1

\* The start of the part of the code that is about nodes.  A registry is
\* updated after its Provision was asked for.
BeginScaling(a) ==
  /\ ActorAt(a, "idle")
  /\ a \in Updaters => \A c \in Creators : ~ActorAt(c, "idle")
  /\ \E n \in Sizes :
       actor' = [actor EXCEPT ![a].pc = "scale", ![a].count = n]
  /\ alone' = [b \in Actors |->
       IF b = a THEN \A c \in Actors \ {a} : ~Busy(c)
       ELSE alone[b] /\ ActorAt(b, "idle")]
  /\ UNCHANGED <<nodes, address, told, registryEnv, moved>>

\* Nodes that go, and nodes that come, know nothing.
Scaled(n) ==
  /\ nodes' = n
  /\ told' = [i \in Indices |-> IF i < nodes /\ i < n THEN told[i] ELSE <<>>]

\* Mutant: an Update scales up and never down.
ScalesUp(a) == IF a \in Creators THEN Clustered(a) ELSE actor[a].count > nodes

\* A creator scales to more than one node, an Update to another number.
Scales(a) == IF a \in Creators THEN Clustered(a) ELSE actor[a].count # nodes

Scale(a) ==
  /\ ActorAt(a, "scale")
  /\ IF Scales(a)
       THEN Scaled(actor[a].count) /\ ActorGoto(a, "pollScale")
       ELSE /\ ActorGoto(a, IF Clustered(a) THEN "read" ELSE "store")
            /\ UNCHANGED <<nodes, told>>
  /\ UNCHANGED <<address, registryEnv, moved, alone>>

PollScale(a) ==
  /\ ActorAt(a, "pollScale") /\ nodes = actor[a].count
  /\ ActorGoto(a, IF Clustered(a) THEN "read" ELSE "store")
  /\ UNCHANGED <<nodes, address, told, registryEnv, moved, alone>>

\* AddPeer sets the node count to the index.
AddPeer(i) == [index |-> i, nodeCount |-> i, uri |-> address[i]]

Statistics == [k \in 1..nodes |-> AddPeer(k - 1)]

ReadPeers(a) ==
  /\ ActorAt(a, "read")
  /\ actor' = [actor EXCEPT ![a].pc = "store", ![a].peers = @ \o Statistics]
  /\ moved' = [moved EXCEPT ![a] = {}]
  /\ UNCHANGED <<nodes, address, told, registryEnv, alone>>

UpdateRegistryEnvironment(a) ==
  /\ ActorAt(a, "store")
  /\ registryEnv' = [ mode  |-> IF Clustered(a) THEN "clustered" ELSE "standalone",
                 peers |-> actor[a].peers ]
  /\ ActorGoto(a, "start")
  /\ UNCHANGED <<nodes, address, told, moved, alone>>

\* Nodes that are placed anew have new addresses and know nothing.
Placed(set) ==
  /\ address' = [i \in Indices |-> IF i \in set THEN address[i] + 1 ELSE address[i]]
  /\ told' = [i \in Indices |-> IF i \in set THEN <<>> ELSE told[i]]
  /\ moved' = [a \in Actors |-> moved[a] \cup set]
  /\ UNCHANGED <<nodes, registryEnv, alone>>

\* The creator's Start finds the application started, and does nothing.
Start(a) ==
  /\ a \in Creators /\ ActorAt(a, "start")
  /\ ActorGoto(a, IF Clustered(a) THEN "readAgain" ELSE "push")
  /\ UNCHANGED <<nodes, address, told, registryEnv, moved, alone>>

Restart(a) ==
  /\ a \in Updaters /\ ActorAt(a, "start")
  /\ ActorGoto(a, "push")
  /\ Placed(0 .. nodes - 1)

\* The peers are appended to those of the first time.
ReadPeersAgain(a) ==
  /\ ActorAt(a, "readAgain")
  /\ actor' = [actor EXCEPT ![a].pc = "push", ![a].peers = @ \o Statistics]
  /\ UNCHANGED <<nodes, address, told, registryEnv, moved, alone>>

NextPeer(a) == actor[a].peers[actor[a].pushed + 1]

\* Mutant: the first push is the last.
PushedFirst(a) == actor[a].pushed = 1 \/ actor[a].peers = <<>>

PushedAll(a) == actor[a].pushed = Len(actor[a].peers)

\* A node that is not there any more answers too, with an error status.
PushPeers(a) ==
  /\ ActorAt(a, "push") /\ ~PushedAll(a)
  /\ told' = [i \in Indices |-> IF i = NextPeer(a).index /\ i < nodes
                                  THEN actor[a].peers ELSE told[i]]
  /\ actor' = [actor EXCEPT ![a].pushed = @ + 1]
  /\ UNCHANGED <<nodes, address, registryEnv, moved, alone>>

Finish(a) ==
  /\ ActorAt(a, "push") /\ PushedAll(a)
  /\ ActorGoto(a, "done")
  /\ UNCHANGED <<nodes, address, told, registryEnv, moved, alone>>

\* A refused call, a node without ports, a push without an answer.
Fails(a) ==
  /\ Busy(a)
  /\ ActorGoto(a, "failed")
  /\ UNCHANGED <<nodes, address, told, registryEnv, moved, alone>>

Move(i) ==
  /\ i < nodes /\ address[i] < MaxMoves
  /\ Placed({i})
  /\ UNCHANGED actor

PeersNext ==
  \/ \E a \in Actors :
       \/ BeginScaling(a) \/ Scale(a) \/ PollScale(a) \/ ReadPeers(a)
       \/ UpdateRegistryEnvironment(a) \/ Start(a) \/ Restart(a)
       \/ ReadPeersAgain(a) \/ PushPeers(a) \/ Finish(a) \/ Fails(a)
  \/ \E i \in Indices : Move(i)

PeersSpec == PeersInit /\ [][PeersNext]_peersVars

-----------------------------------------------------------------------------
(* What the nodes know when the code has succeeded. *)

Done(a) == ActorAt(a, "done") /\ alone[a]
Nodes   == 0 .. nodes - 1

\* An actor without a rival leaves as many nodes as asked for, in the mode that
\* goes with the number, and PEERS names each node once
\* (update_registry_server_instance.go:89-134).
StoredMatches ==
  \A a \in Actors : Done(a) =>
    /\ nodes = actor[a].count
    /\ registryEnv.mode = "clustered" <=> nodes > 1
    /\ nodes > 1 =>
         /\ Len(registryEnv.peers) = nodes
         /\ {registryEnv.peers[k].index : k \in DOMAIN registryEnv.peers} = Nodes

\* Every node that has stayed where it was knows every other one that has, at
\* its address and at no other, although the creator reads the addresses twice
\* and appends (create_registry_server_instance.go:234, 272), nodes are placed
\* elsewhere at any moment, and each is told in a call of its own.  After an
\* Update, which restarts between reading and telling, nobody is sure to know.
EveryoneTold ==
  \A a \in Actors : Done(a) /\ nodes > 1 =>
    \A i, j \in Nodes \ moved[a] :
      {p.uri : p \in {q \in ToSet(told[i]) : q.index = j}} = {address[j]}

\* "nodeCount" (registry_config.go:12): a node that is told of a peer is told
\* the number of nodes, until the registry is scaled again.
NodeCountTold ==
  \A a \in Actors : Done(a) =>
    \A i \in Nodes : \A p \in ToSet(told[i]) : p.nodeCount = nodes
=============================================================================
