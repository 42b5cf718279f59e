------------------------ MODULE RegistryPeersProofs -------------------------
(***************************************************************************)
(* Proofs about RegistryPeers, for any number of nodes, Updates and moves. *)
(***************************************************************************)
EXTENDS RegistryPeers, SequenceTheorems, TLAPS

-----------------------------------------------------------------------------
(* The invariants. *)

\* The creator is the first, and finds one node.
CreatedFirst ==
  \A c \in Creators :
    /\ ActorAt(c, "idle") => nodes = 1 /\ \A a \in Actors : ActorAt(a, "idle")
    /\ ActorAt(c, "scale") /\ alone[c] => nodes = 1

\* An actor that is alone is the only one at work.
AloneAtWork ==
  \A a \in Actors : alone[a] /\ ~ActorAt(a, "idle") =>
    \A b \in Actors \ {a} : ~Busy(b)

\* What an actor has read: nothing at first, and the addresses of nodes that
\* have not moved since.
ReadByNow(a) ==
  /\ actor[a].pc \in {"idle", "scale", "pollScale", "read"} => actor[a].peers = <<>>
  /\ actor[a].pc \notin {"push", "done", "failed"} => actor[a].pushed = 0
  /\ actor[a].pushed <= Len(actor[a].peers)
  /\ ActorAt(a, "read") \/ ActorAt(a, "readAgain") => Clustered(a)
  /\ ActorAt(a, "readAgain") => a \in Creators
  /\ \A k \in DOMAIN actor[a].peers :
       LET p == actor[a].peers[k]
       IN  p.index \notin moved[a] => p.uri = address[p.index]

\* One reading of the statistics of n nodes.
ListsAll(peers, n) ==
  /\ Len(peers) = n
  /\ \A k \in 1..n : peers[k].index = k - 1

\* What an actor that is alone has brought about.
BroughtAbout(a) ==
  /\ actor[a].pc \in (Working \ {"scale"}) \cup {"done"} => nodes = actor[a].count
  /\ actor[a].pc \in {"store", "start", "readAgain"} /\ Clustered(a) =>
       ListsAll(actor[a].peers, actor[a].count)
  /\ actor[a].pc \in {"start", "readAgain", "push", "done"} =>
       /\ registryEnv.mode = IF Clustered(a) THEN "clustered" ELSE "standalone"
       /\ Clustered(a) => ListsAll(registryEnv.peers, actor[a].count)
  /\ actor[a].pc \in {"push", "done"} =>
       /\ Clustered(a) =>
            \A i \in Nodes : \E k \in DOMAIN actor[a].peers : actor[a].peers[k].index = i
       /\ a \in Updaters => Nodes \subseteq moved[a]
       /\ \A k \in 1..actor[a].pushed :
            LET i == actor[a].peers[k].index
            IN  i \in Nodes \ moved[a] => told[i] = actor[a].peers
  /\ ActorAt(a, "done") => actor[a].pushed = Len(actor[a].peers)

PeersInv ==
  /\ PeersTypeOK
  /\ CreatedFirst
  /\ AloneAtWork
  /\ \A a \in Actors : ReadByNow(a) /\ (alone[a] => BroughtAbout(a))

-----------------------------------------------------------------------------
(* The proofs. *)

\* There is room for every node that is asked for.
LEMMA SizesFit ==
  /\ Largest \in Nat \ {0}
  /\ \A n \in Sizes \cup {1} : n \in Nat \ {0} /\ n <= Largest
  /\ \A n \in Sizes \cup {1} : 0 .. n - 1 \subseteq Indices
<1>1. /\ Largest \in Sizes \cup {1}
      /\ \A m \in Sizes \cup {1} : m <= Largest
  BY PeersAssumption DEF Largest
<1>2. QED
  BY <1>1, PeersAssumption DEF Indices

\* A list of peers names nodes.
LEMMA PeersOfList ==
  ASSUME NEW s \in Seq(Peer)
  PROVE  /\ DOMAIN s = 1..Len(s) /\ Len(s) \in Nat
         /\ \A k \in DOMAIN s : s[k] \in Peer /\ s[k].index \in Indices
<1>1. /\ DOMAIN s = 1..Len(s) /\ Len(s) \in Nat
      /\ \A k \in DOMAIN s : s[k] \in Peer
  OBVIOUS
<1>2. \A p \in Peer : p.index \in Indices
  BY DEF Peer
<1>3. QED
  BY <1>1, <1>2

\* The statistics list all nodes, at their addresses.
LEMMA StatisticsList ==
  ASSUME PeersTypeOK
  PROVE  /\ Statistics \in Seq(Peer)
         /\ ListsAll(Statistics, nodes)
         /\ \A k \in 1..nodes : Statistics[k].uri = address[Statistics[k].index]
<1>1. nodes \in Nat /\ 0 .. nodes - 1 \subseteq Indices
  BY SizesFit DEF PeersTypeOK
<1>2. \A k \in 1..nodes : AddPeer(k - 1) \in Peer
  BY <1>1, SizesFit DEF AddPeer, Peer, PeersTypeOK
<1>3. Statistics \in Seq(Peer) /\ Len(Statistics) = nodes
  BY <1>1, <1>2 DEF Statistics
<1>4. QED
  BY <1>1, <1>3 DEF Statistics, AddPeer, ListsAll

\* Reading again appends: what is in the list stays, and is followed by the
\* statistics.
LEMMA StatisticsAppended ==
  ASSUME PeersTypeOK, NEW s \in Seq(Peer)
  PROVE  /\ s \o Statistics \in Seq(Peer)
         /\ Len(s \o Statistics) = Len(s) + nodes
         /\ \A k \in DOMAIN s : (s \o Statistics)[k] = s[k]
         /\ \A k \in DOMAIN (s \o Statistics) \ DOMAIN s :
              /\ k - Len(s) \in 1..nodes
              /\ (s \o Statistics)[k] = Statistics[k - Len(s)]
         /\ s = <<>> => s \o Statistics = Statistics
<1>1. nodes \in Nat
  BY SizesFit DEF PeersTypeOK
<1>2. Statistics \in Seq(Peer) /\ Len(Statistics) = nodes
  BY StatisticsList DEF ListsAll
<1>3. /\ s \o Statistics \in Seq(Peer)
      /\ Len(s \o Statistics) = Len(s) + nodes
      /\ \A k \in 1 .. Len(s) + nodes : (s \o Statistics)[k] =
           IF k <= Len(s) THEN s[k] ELSE Statistics[k - Len(s)]
  BY <1>2, ConcatProperties
<1>4. /\ DOMAIN s = 1..Len(s) /\ Len(s) \in Nat
      /\ DOMAIN (s \o Statistics) = 1 .. Len(s) + nodes
  BY <1>3, PeersOfList
<1>5. \A k \in DOMAIN s : (s \o Statistics)[k] = s[k]
  BY <1>1, <1>3, <1>4
<1>6. \A k \in DOMAIN (s \o Statistics) \ DOMAIN s :
        /\ k - Len(s) \in 1..nodes
        /\ (s \o Statistics)[k] = Statistics[k - Len(s)]
  BY <1>1, <1>3, <1>4
<1>7. s = <<>> => s \o Statistics = Statistics
  BY <1>2, ConcatEmptySeq
<1>8. QED
  BY <1>3, <1>5, <1>6, <1>7

\* At the start there is one node, and nobody at work.
LEMMA PeersInitInv == PeersInit => PeersInv
<1> SUFFICES ASSUME PeersInit PROVE PeersInv
  OBVIOUS
<1> USE DEF PeersInit
<1>1. PeersTypeOK
  BY SizesFit DEF PeersTypeOK, ActorRecord
<1>2. \A a \in Actors : /\ actor[a].pc = "idle" /\ actor[a].count = 1
                        /\ actor[a].peers = <<>> /\ actor[a].pushed = 0
  OBVIOUS
<1>3. CreatedFirst /\ AloneAtWork
  BY <1>2 DEF CreatedFirst, AloneAtWork, ActorAt, Actors
<1>4. ASSUME NEW a \in Actors PROVE ReadByNow(a) /\ BroughtAbout(a)
  BY <1>2 DEF ReadByNow, BroughtAbout, ActorAt, Working
<1>5. QED
  BY <1>1, <1>3, <1>4 DEF PeersInv

\* A step of an actor at work disturbs nobody who is alone; what is left to
\* show is about that actor.
LEMMA AtWorkKeeps ==
  ASSUME PeersInv, PeersTypeOK', NEW a \in Actors, Busy(a), alone' = alone,
         \A b \in Actors \ {a} : actor'[b] = actor[b],
         actor'[a].pc \notin {"idle", "scale"},
         \A b \in Actors \ {a}, i \in Indices :
           i \notin moved'[b] => i \notin moved[b] /\ address'[i] = address[i],
         ReadByNow(a)', alone[a] => BroughtAbout(a)'
  PROVE  PeersInv'
<1> USE DEF PeersInv
<1>1. actor[a].pc # "idle"
  BY DEF Busy, Working
<1>2. CreatedFirst'
  BY <1>1 DEF CreatedFirst, AloneAtWork, ActorAt, Actors
<1>3. AloneAtWork'
  BY <1>1 DEF AloneAtWork, ActorAt, Busy
<1>4. ASSUME NEW b \in Actors \ {a}
      PROVE  ReadByNow(b)' /\ (alone'[b] => BroughtAbout(b)')
  <2>1. ReadByNow(b)'
    <3>1. ReadByNow(b)
      OBVIOUS
    <3>2. \A k \in DOMAIN actor[b].peers : actor[b].peers[k].index \in Indices
      <4>1. actor[b].peers \in Seq(Peer)
        BY DEF PeersTypeOK, ActorRecord
      <4>2. QED
        BY <4>1, PeersOfList
    <3>3. QED
      BY <3>1, <3>2 DEF ReadByNow, ActorAt, Clustered
  <2>2. alone[b] => ActorAt(b, "idle")
    BY DEF AloneAtWork
  <2>3. alone'[b] => BroughtAbout(b)'
    BY <2>2 DEF BroughtAbout, ActorAt, Working
  <2>4. QED
    BY <2>1, <2>3
<1>5. QED
  BY <1>2, <1>3, <1>4

\* What becomes of an actor that only goes on.
LEMMA Goes ==
  ASSUME PeersTypeOK, NEW a \in Actors, NEW step \in Working \cup {"done", "failed"},
         ActorGoto(a, step)
  PROVE  /\ actor' \in [Actors -> ActorRecord]
         /\ actor'[a].pc = step
         /\ actor'[a].count = actor[a].count
         /\ actor'[a].peers = actor[a].peers
         /\ actor'[a].pushed = actor[a].pushed
         /\ \A b \in Actors \ {a} : actor'[b] = actor[b]
BY DEF ActorGoto, PeersTypeOK, ActorRecord

\* An actor arrives.
LEMMA BeginScalingKeeps ==
  ASSUME PeersInv, NEW a \in Actors, BeginScaling(a)
  PROVE  PeersInv'
<1> USE PeersAssumption DEF PeersInv
<1>1. PICK n \in Sizes : actor' = [actor EXCEPT ![a].pc = "scale", ![a].count = n]
  BY DEF BeginScaling
<1>2. /\ UNCHANGED <<nodes, address, told, registryEnv, moved>>
      /\ ActorAt(a, "idle")
      /\ a \in Updaters => \A c \in Creators : ~ActorAt(c, "idle")
      /\ alone' = [b \in Actors |->
           IF b = a THEN \A c \in Actors \ {a} : ~Busy(c)
           ELSE alone[b] /\ ActorAt(b, "idle")]
  BY DEF BeginScaling
<1>3. /\ actor' \in [Actors -> ActorRecord]
      /\ actor'[a].pc = "scale" /\ actor'[a].count = n
      /\ actor'[a].peers = actor[a].peers /\ actor'[a].pushed = actor[a].pushed
      /\ \A b \in Actors \ {a} : actor'[b] = actor[b]
  BY ZenonT(40), <1>1 DEF PeersTypeOK, ActorRecord, Working
<1>4. alone' \in [Actors -> BOOLEAN]
  BY <1>2 DEF PeersTypeOK
<1>5. PeersTypeOK'
  BY <1>2, <1>3, <1>4 DEF PeersTypeOK
<1>6. CreatedFirst'
  BY <1>2, <1>3 DEF CreatedFirst, ActorAt, Actors
<1>7. AloneAtWork'
  BY <1>2, <1>3 DEF AloneAtWork, ActorAt, Busy
<1>8. ReadByNow(a)' /\ BroughtAbout(a)'
  BY <1>2, <1>3 DEF ReadByNow, BroughtAbout, ActorAt, Working
<1>9. ASSUME NEW b \in Actors \ {a}
      PROVE  ReadByNow(b)' /\ (alone'[b] => BroughtAbout(b)')
  <2>1. ReadByNow(b)'
    <3>1. ReadByNow(b) /\ actor'[b] = actor[b]
      BY <1>3
    <3>2. QED
      BY <1>2, <3>1 DEF ReadByNow, ActorAt, Clustered
  <2>2. alone'[b] => BroughtAbout(b)'
    BY <1>2, <1>3 DEF BroughtAbout, ActorAt, Working
  <2>3. QED
    BY <2>1, <2>2
<1>10. QED
  BY <1>5, <1>6, <1>7, <1>8, <1>9

\* The number of nodes is set, or found to be right.
LEMMA ScaleKeeps ==
  ASSUME PeersInv, NEW a \in Actors, Scale(a) \/ PollScale(a)
  PROVE  PeersInv'
<1> DEFINE next == IF Clustered(a) THEN "read" ELSE "store"
<1> USE PeersAssumption DEF PeersInv
<1>1. /\ UNCHANGED <<address, registryEnv, moved, alone>>
      /\ ActorAt(a, "scale") \/ ActorAt(a, "pollScale")
      /\ \/ Scaled(actor[a].count) /\ ActorGoto(a, "pollScale")
         \/ /\ UNCHANGED <<nodes, told>> /\ ActorGoto(a, next)
            /\ alone[a] => nodes = actor[a].count
  <2>1. CASE PollScale(a)
    BY <2>1 DEF PollScale
  <2>2. CASE Scale(a) /\ Scales(a)
    BY <2>2 DEF Scale
  <2>3. CASE Scale(a) /\ ~Scales(a)
    <3>1. UNCHANGED <<nodes, told>> /\ ActorGoto(a, next) /\ ActorAt(a, "scale")
      BY <2>3 DEF Scale
    <3>2. CASE a \in Updaters
      BY <2>3, <3>1, <3>2 DEF Scale, Scales
    <3>3. CASE a \in Creators
      <4>1. actor[a].count \in Sizes \cup {1} /\ ~(actor[a].count > 1)
        BY <2>3, <3>3 DEF Scales, Clustered, PeersTypeOK, ActorRecord
      <4>2. actor[a].count \in Nat \ {0}
        BY <4>1, SizesFit
      <4>3. alone[a] => nodes = 1
        BY <3>1, <3>3 DEF CreatedFirst
      <4>4. QED
        BY <2>3, <3>1, <4>1, <4>2, <4>3 DEF Scale
    <3>4. QED
      BY <3>2, <3>3 DEF Actors
  <2>4. QED
    BY <2>1, <2>2, <2>3
<1>2. PICK step \in {"pollScale", "read", "store"} :
        /\ ActorGoto(a, step)
        /\ step = "read" => Clustered(a)
        /\ step = "store" => ~Clustered(a)
        /\ alone[a] => nodes' = actor[a].count
  BY <1>1 DEF Scaled
<1>3. /\ actor' \in [Actors -> ActorRecord]
      /\ actor'[a].pc = step
      /\ actor'[a].count = actor[a].count
      /\ actor'[a].peers = actor[a].peers
      /\ actor'[a].pushed = actor[a].pushed
      /\ \A b \in Actors \ {a} : actor'[b] = actor[b]
  BY <1>2, Goes DEF Working
<1>4. nodes' \in Sizes \cup {1} /\ told' \in [Indices -> Seq(Peer)]
  <2>1. CASE UNCHANGED <<nodes, told>>
    BY <2>1 DEF PeersTypeOK
  <2>2. CASE Scaled(actor[a].count)
    <3>1. <<>> \in Seq(Peer)
      OBVIOUS
    <3>2. QED
      BY <2>2, <3>1 DEF Scaled, PeersTypeOK, ActorRecord
  <2>3. QED
    BY <1>1, <2>1, <2>2
<1>5. PeersTypeOK'
  BY <1>1, <1>3, <1>4 DEF PeersTypeOK
<1>6. ReadByNow(a)'
  <2>1. ReadByNow(a)
    OBVIOUS
  <2>2. actor[a].peers = <<>> /\ actor[a].pushed = 0
    BY <1>1, <2>1 DEF ReadByNow, ActorAt
  <2>3. QED
    BY <1>1, <1>2, <1>3, <2>2 DEF ReadByNow, ActorAt, Clustered
<1>7. alone[a] => BroughtAbout(a)'
  BY <1>2, <1>3 DEF BroughtAbout, ActorAt, Clustered
<1>8. Busy(a)
  BY <1>1 DEF ActorAt, Busy, Working
<1>9. QED
  BY <1>1, <1>2, <1>3, <1>5, <1>6, <1>7, <1>8, AtWorkKeeps

\* The addresses are read, the first time or again.
LEMMA ReadKeeps ==
  ASSUME PeersInv, NEW a \in Actors, ReadPeers(a) \/ ReadPeersAgain(a)
  PROVE  PeersInv'
<1> DEFINE old == actor[a].peers
           new == old \o Statistics
<1> USE PeersAssumption DEF PeersInv
<1>1. /\ UNCHANGED <<nodes, address, told, registryEnv, alone>>
      /\ \/ ActorAt(a, "read") /\ moved' = [moved EXCEPT ![a] = {}]
            /\ actor' = [actor EXCEPT ![a].pc = "store", ![a].peers = new]
         \/ ActorAt(a, "readAgain") /\ moved' = moved
            /\ actor' = [actor EXCEPT ![a].pc = "push", ![a].peers = new]
  BY DEF ReadPeers, ReadPeersAgain, PeersTypeOK, ActorRecord
<1>2. /\ old \in Seq(Peer) /\ new \in Seq(Peer) /\ nodes \in Nat
      /\ DOMAIN old \subseteq DOMAIN new /\ Len(new) \in Nat
      /\ actor[a] \in ActorRecord
  <2>1. actor[a] \in ActorRecord /\ old \in Seq(Peer)
    BY DEF PeersTypeOK, ActorRecord
  <2>2. nodes \in Nat
    BY SizesFit DEF PeersTypeOK
  <2>3. new \in Seq(Peer) /\ Len(new) = Len(old) + nodes
    BY <2>1, StatisticsAppended
  <2>4. /\ DOMAIN old = 1..Len(old) /\ Len(old) \in Nat
        /\ DOMAIN new = 1..Len(new) /\ Len(new) \in Nat
    BY <2>1, <2>3, PeersOfList
  <2>5. QED
    BY <2>1, <2>2, <2>3, <2>4
<1>3. PICK step \in {"store", "push"} :
        /\ actor' = [actor EXCEPT ![a].pc = step, ![a].peers = new]
        /\ step = "store" <=> ActorAt(a, "read")
        /\ step = "push" <=> ActorAt(a, "readAgain")
  BY <1>1 DEF ActorAt
<1>4. /\ actor' \in [Actors -> ActorRecord]
      /\ actor'[a].pc = step
      /\ actor'[a].count = actor[a].count
      /\ actor'[a].peers = new
      /\ actor'[a].pushed = actor[a].pushed
      /\ \A b \in Actors \ {a} : actor'[b] = actor[b]
  <2> DEFINE r == [ pc |-> step, count |-> actor[a].count, peers |-> new,
                    pushed |-> actor[a].pushed ]
  <2>1. r \in ActorRecord
    BY <1>2 DEF ActorRecord, Working
  <2>2. actor' = [actor EXCEPT ![a] = actor'[a]]
    BY <1>3 DEF PeersTypeOK
  <2>3. actor'[a] = [actor[a] EXCEPT !.pc = step, !.peers = new]
    BY <1>3 DEF PeersTypeOK
  <2>4. actor'[a] = r
    BY <1>2, <2>3 DEF ActorRecord
  <2>5. actor'[a] \in ActorRecord
    BY <2>1, <2>4
  <2>6. /\ actor' \in [Actors -> ActorRecord]
        /\ \A b \in Actors \ {a} : actor'[b] = actor[b]
    BY <2>2, <2>5 DEF PeersTypeOK
  <2>7. QED
    BY <2>4, <2>6
<1>5. /\ moved' \in [Actors -> SUBSET Indices]
      /\ \A b \in Actors \ {a} : moved'[b] = moved[b]
      /\ ActorAt(a, "readAgain") => moved' = moved
  BY <1>1 DEF PeersTypeOK, ActorAt
<1>6. PeersTypeOK'
  BY <1>1, <1>4, <1>5 DEF PeersTypeOK
<1>7. /\ actor[a].pushed = 0 /\ Clustered(a)
      /\ ActorAt(a, "readAgain") => a \in Creators
      /\ ActorAt(a, "read") => old = <<>>
      /\ \A k \in DOMAIN old : old[k].index \notin moved[a] => old[k].uri = address[old[k].index]
  <2>1. ReadByNow(a)
    OBVIOUS
  <2>2. QED
    BY <1>1, <2>1 DEF ReadByNow, ActorAt
<1>8. \A k \in DOMAIN new :
        new[k].index \notin moved'[a] => new[k].uri = address[new[k].index]
  <2> SUFFICES ASSUME NEW k \in DOMAIN new, new[k].index \notin moved'[a]
               PROVE  new[k].uri = address[new[k].index]
    OBVIOUS
  <2>1. CASE k \in DOMAIN old
    <3>1. new[k] = old[k] /\ old # <<>>
      BY <1>2, <2>1, StatisticsAppended
    <3>2. moved'[a] = moved[a]
      BY <1>1, <1>5, <1>7, <3>1
    <3>3. QED
      BY <1>7, <2>1, <3>1, <3>2
  <2>2. CASE k \notin DOMAIN old
    BY SMTT(30), <1>2, <2>2, StatisticsAppended, StatisticsList
  <2>3. QED
    BY <2>1, <2>2
<1>9. ReadByNow(a)'
  <2>1. actor'[a].pushed = 0 /\ 0 <= Len(new)
    BY <1>2, <1>4, <1>7
  <2>2. actor'[a].pc \in {"store", "push"}
    BY <1>4
  <2>3. \A k \in DOMAIN actor'[a].peers :
          LET p == actor'[a].peers[k]
          IN  p.index \notin moved'[a] => p.uri = address'[p.index]
    BY <1>1, <1>4, <1>8
  <2>4. QED
    BY <1>4, <2>1, <2>2, <2>3 DEF ReadByNow, ActorAt
<1>10. alone[a] => BroughtAbout(a)'
  <2> SUFFICES ASSUME alone[a] PROVE BroughtAbout(a)'
    OBVIOUS
  <2>1. BroughtAbout(a) /\ nodes = actor[a].count
    BY <1>1 DEF BroughtAbout, ActorAt, Working
  <2>2. CASE ActorAt(a, "read")
    <3>1. new = Statistics
      BY <1>2, <1>7, <2>2, StatisticsAppended
    <3>2. ListsAll(actor'[a].peers, actor[a].count)
      BY <1>4, <2>1, <3>1, StatisticsList
    <3>3. actor'[a].pc = "store"
      BY <1>3, <1>4, <2>2
    <3>4. QED
      BY <1>1, <1>4, <2>1, <3>2, <3>3 DEF BroughtAbout, ActorAt, Clustered
  <2>3. CASE ActorAt(a, "readAgain")
    <3>1. /\ registryEnv.mode = "clustered"
          /\ ListsAll(registryEnv.peers, actor[a].count)
          /\ ListsAll(old, actor[a].count)
          /\ a \notin Updaters
      <4>1. a \notin Updaters
        BY <1>7, <2>3
      <4>2. QED
        BY <1>7, <2>1, <2>3, <4>1 DEF BroughtAbout, ActorAt
    <3>2. actor'[a].pc = "push"
      BY <1>3, <1>4, <2>3
    <3>3. \A i \in Nodes : \E k \in DOMAIN new : new[k].index = i
      <4> SUFFICES ASSUME NEW i \in Nodes
                   PROVE  \E k \in DOMAIN new : new[k].index = i
        OBVIOUS
      <4>1. i + 1 \in 1..nodes /\ (i + 1) - 1 = i
        BY <1>2 DEF Nodes
      <4>2. i + 1 \in DOMAIN old /\ old[i + 1].index = i
        BY <1>2, <2>1, <3>1, <4>1, PeersOfList DEF ListsAll
      <4>3. QED
        BY <1>2, <4>2, StatisticsAppended
    <3>4. /\ nodes' = actor'[a].count /\ actor'[a].count = actor[a].count
          /\ registryEnv' = registryEnv /\ Nodes' = Nodes
          /\ actor'[a].peers = new /\ actor'[a].pushed = 0
          /\ actor[a].count > 1
      BY <1>1, <1>4, <1>7, <2>1, <2>3 DEF Clustered, Nodes
    <3> HIDE DEF PeersInv
    <3>5. QED
      BY <3>1, <3>2, <3>3, <3>4 DEF BroughtAbout, ActorAt, Clustered
  <2>4. QED
    BY <1>1, <2>2, <2>3
<1>11. Busy(a)
  BY <1>1 DEF ActorAt, Busy, Working
<1>12. QED
  BY <1>1, <1>3, <1>4, <1>5, <1>6, <1>9, <1>10, <1>11, AtWorkKeeps

\* PEERS and the mode are stored.
LEMMA StoreKeeps ==
  ASSUME PeersInv, NEW a \in Actors, UpdateRegistryEnvironment(a)
  PROVE  PeersInv'
<1> USE DEF PeersInv
<1>1. /\ UNCHANGED <<nodes, address, told, moved, alone>>
      /\ ActorAt(a, "store") /\ ActorGoto(a, "start")
      /\ registryEnv' = [ mode  |-> IF Clustered(a) THEN "clustered" ELSE "standalone",
                          peers |-> actor[a].peers ]
  BY DEF UpdateRegistryEnvironment
<1>2. /\ actor' \in [Actors -> ActorRecord]
      /\ actor'[a].pc = "start"
      /\ actor'[a].count = actor[a].count
      /\ actor'[a].peers = actor[a].peers
      /\ actor'[a].pushed = actor[a].pushed
      /\ \A b \in Actors \ {a} : actor'[b] = actor[b]
  BY <1>1, Goes DEF Working
<1>3. PeersTypeOK'
  BY <1>1, <1>2 DEF PeersTypeOK, ActorRecord
<1>4. ReadByNow(a)'
  <2>1. ReadByNow(a)
    OBVIOUS
  <2>2. QED
    BY <1>1, <1>2, <2>1 DEF ReadByNow, ActorAt
<1>5. alone[a] => BroughtAbout(a)'
  BY <1>1, <1>2 DEF BroughtAbout, ActorAt, Clustered, Working
<1>6. Busy(a)
  BY <1>1 DEF ActorAt, Busy, Working
<1>7. QED
  BY <1>1, <1>2, <1>3, <1>4, <1>5, <1>6, AtWorkKeeps

\* Nodes that are placed elsewhere have moved since whatever was read.
LEMMA PlacedEffect ==
  ASSUME PeersTypeOK, NEW set \in SUBSET Indices, Placed(set)
  PROVE  /\ address' \in [Indices -> Nat]
         /\ told' \in [Indices -> Seq(Peer)]
         /\ moved' \in [Actors -> SUBSET Indices]
         /\ \A b \in Actors : moved'[b] = moved[b] \cup set
         /\ \A i \in Indices \ set : address'[i] = address[i] /\ told'[i] = told[i]
         /\ UNCHANGED <<nodes, registryEnv, alone>>
<1>1. <<>> \in Seq(Peer)
  OBVIOUS
<1>2. QED
  BY <1>1 DEF Placed, PeersTypeOK

\* The goroutine starts the nodes again, which are started, or the Update
\* restarts them.
LEMMA StartKeeps ==
  ASSUME PeersInv, NEW a \in Actors, Start(a) \/ Restart(a)
  PROVE  PeersInv'
<1> USE PeersAssumption DEF PeersInv
<1>1. PICK step \in {"readAgain", "push"} :
        /\ ActorAt(a, "start") /\ ActorGoto(a, step)
        /\ step = "readAgain" => a \in Creators /\ Clustered(a)
  BY DEF Start, Restart
<1>2. /\ actor' \in [Actors -> ActorRecord]
      /\ actor'[a].pc = step
      /\ actor'[a].count = actor[a].count
      /\ actor'[a].peers = actor[a].peers
      /\ actor'[a].pushed = actor[a].pushed
      /\ \A b \in Actors \ {a} : actor'[b] = actor[b]
  BY <1>1, Goes DEF Working
<1>3. nodes \in Nat /\ 0 .. nodes - 1 \in SUBSET Indices
  BY SizesFit DEF PeersTypeOK
<1>4. /\ UNCHANGED <<nodes, registryEnv, alone>>
      /\ address' \in [Indices -> Nat]
      /\ told' \in [Indices -> Seq(Peer)]
      /\ moved' \in [Actors -> SUBSET Indices]
      /\ \A b \in Actors : moved[b] \subseteq moved'[b]
      /\ \A b \in Actors : \A i \in Indices \ moved'[b] :
           address'[i] = address[i] /\ told'[i] = told[i]
      /\ a \in Updaters => Nodes \subseteq moved'[a]
  <2>1. CASE Start(a)
    BY <2>1 DEF Start, PeersTypeOK
  <2>2. CASE Restart(a)
    BY <1>3, <2>2, PlacedEffect DEF Restart, Nodes
  <2>3. QED
    BY <2>1, <2>2
<1>5. PeersTypeOK'
  BY <1>2, <1>4 DEF PeersTypeOK
<1>6. /\ actor[a].peers \in Seq(Peer)
      /\ \A k \in DOMAIN actor[a].peers : actor[a].peers[k].index \in Indices
  <2>1. actor[a].peers \in Seq(Peer)
    BY DEF PeersTypeOK, ActorRecord
  <2>2. QED
    BY <2>1, PeersOfList
<1>7. ReadByNow(a) /\ actor[a].pushed = 0
  BY <1>1 DEF ReadByNow, ActorAt
<1>8. ReadByNow(a)'
  <2>1. \A k \in DOMAIN actor[a].peers :
          LET p == actor[a].peers[k]
          IN  p.index \notin moved'[a] => p.uri = address'[p.index]
    BY <1>4, <1>6, <1>7 DEF ReadByNow
  <2>2. actor[a].pushed = 0 /\ 0 <= Len(actor[a].peers)
    BY <1>6, <1>7, PeersOfList
  <2>3. QED
    BY <1>1, <1>2, <2>1, <2>2 DEF ReadByNow, ActorAt, Clustered
<1>9. alone[a] => BroughtAbout(a)'
  <2> SUFFICES ASSUME alone[a] PROVE BroughtAbout(a)'
    OBVIOUS
  <2>1. BroughtAbout(a)
    OBVIOUS
  <2>2. /\ nodes = actor[a].count
        /\ Clustered(a) => ListsAll(actor[a].peers, actor[a].count)
        /\ registryEnv.mode = IF Clustered(a) THEN "clustered" ELSE "standalone"
        /\ Clustered(a) => ListsAll(registryEnv.peers, actor[a].count)
    BY <1>1, <2>1 DEF BroughtAbout, ActorAt, Working
  <2>3. Clustered(a) =>
          \A i \in Nodes : \E k \in DOMAIN actor[a].peers : actor[a].peers[k].index = i
    <3> SUFFICES ASSUME Clustered(a), NEW i \in Nodes
                 PROVE  \E k \in DOMAIN actor[a].peers : actor[a].peers[k].index = i
      OBVIOUS
    <3>1. i + 1 \in 1..nodes /\ (i + 1) - 1 = i
      BY <1>3 DEF Nodes
    <3>2. i + 1 \in DOMAIN actor[a].peers /\ actor[a].peers[i + 1].index = i
      BY <1>6, <2>2, <3>1, PeersOfList DEF ListsAll
    <3>3. QED
      BY <3>2
  <2>4. 1..actor'[a].pushed = {}
    BY <1>2, <1>7
  <2>5. CASE step = "readAgain"
    BY <1>2, <1>4, <2>2, <2>5 DEF BroughtAbout, ActorAt, Clustered
  <2>6. CASE step = "push"
    <3>1. Clustered(a)' <=> Clustered(a)
      BY <1>2 DEF Clustered
    <3>2. Nodes' = Nodes
      BY <1>4 DEF Nodes
    <3>3. actor'[a].pc = "push"
      BY <1>2, <2>6
    <3>4. /\ nodes' = actor'[a].count
          /\ registryEnv'.mode = IF Clustered(a)' THEN "clustered" ELSE "standalone"
          /\ Clustered(a)' => ListsAll(registryEnv'.peers, actor'[a].count)
      BY <1>2, <1>4, <2>2, <3>1
    <3>5. Clustered(a)' => \A i \in Nodes' : \E k \in DOMAIN actor'[a].peers :
                             actor'[a].peers[k].index = i
      BY <1>2, <2>3, <3>1, <3>2
    <3>6. a \in Updaters => Nodes' \subseteq moved'[a]
      BY <1>4, <3>2
    <3>7. QED
      BY <2>4, <3>3, <3>4, <3>5, <3>6 DEF BroughtAbout, ActorAt
  <2>7. QED
    BY <2>5, <2>6
<1>10. Busy(a)
  BY <1>1 DEF ActorAt, Busy, Working
<1>11. QED
  BY <1>2, <1>4, <1>5, <1>8, <1>9, <1>10, AtWorkKeeps

\* A node is told.
LEMMA PushKeeps ==
  ASSUME PeersInv, NEW a \in Actors, PushPeers(a)
  PROVE  PeersInv'
<1> DEFINE peers == actor[a].peers
           m     == actor[a].pushed + 1
<1> USE PeersAssumption DEF PeersInv
<1>1. /\ UNCHANGED <<nodes, address, registryEnv, moved, alone>>
      /\ ActorAt(a, "push") /\ actor[a].pushed # Len(peers)
      /\ told' = [i \in Indices |-> IF i = peers[m].index /\ i < nodes
                                       THEN peers ELSE told[i]]
      /\ actor' = [actor EXCEPT ![a].pushed = @ + 1]
  BY DEF PushPeers, PushedAll, NextPeer
<1>2. /\ actor' \in [Actors -> ActorRecord]
      /\ actor'[a].pc = "push" /\ actor'[a].count = actor[a].count
      /\ actor'[a].peers = peers /\ actor'[a].pushed = m
      /\ \A b \in Actors \ {a} : actor'[b] = actor[b]
  <2> DEFINE r == [ pc |-> "push", count |-> actor[a].count, peers |-> peers, pushed |-> m ]
  <2>1. actor[a] \in ActorRecord
    BY DEF PeersTypeOK
  <2>2. m \in Nat /\ r \in ActorRecord
    BY <2>1 DEF ActorRecord, Working
  <2>3. actor' = [actor EXCEPT ![a] = actor'[a]]
    BY <1>1 DEF PeersTypeOK
  <2>4. actor'[a] = [actor[a] EXCEPT !.pushed = m]
    BY <1>1 DEF PeersTypeOK
  <2>5. actor'[a] = r
    BY <1>1, <2>1, <2>4 DEF ActorRecord, ActorAt
  <2>6. actor'[a] \in ActorRecord
    BY <2>2, <2>5
  <2>7. /\ actor' \in [Actors -> ActorRecord]
        /\ \A b \in Actors \ {a} : actor'[b] = actor[b]
    BY <2>3, <2>6 DEF PeersTypeOK
  <2>8. QED
    BY <2>5, <2>7
<1>3. /\ peers \in Seq(Peer) /\ actor[a].pushed \in Nat /\ Len(peers) \in Nat
      /\ nodes \in Nat /\ 0 .. nodes - 1 \subseteq Indices
  <2>1. peers \in Seq(Peer) /\ actor[a].pushed \in Nat /\ nodes \in Sizes \cup {1}
    BY DEF PeersTypeOK, ActorRecord
  <2>2. QED
    BY <2>1, PeersOfList, SizesFit
<1>4. told' \in [Indices -> Seq(Peer)]
  BY <1>1, <1>3 DEF PeersTypeOK
<1>5. PeersTypeOK'
  BY <1>1, <1>2, <1>4 DEF PeersTypeOK
<1>6. ReadByNow(a)'
  <2>1. ReadByNow(a)
    OBVIOUS
  <2>2. m <= Len(peers)
    BY <1>1, <1>3, <2>1 DEF ReadByNow
  <2>3. QED
    BY <1>1, <1>2, <2>1, <2>2 DEF ReadByNow, ActorAt, Clustered
<1>7. alone[a] => BroughtAbout(a)'
  <2> SUFFICES ASSUME alone[a] PROVE BroughtAbout(a)'
    OBVIOUS
  <2>1. BroughtAbout(a)
    OBVIOUS
  <2>2. \A k \in 1..m : peers[k].index \in Nodes \ moved[a] => told'[peers[k].index] = peers
    <3> SUFFICES ASSUME NEW k \in 1..m, peers[k].index \in Nodes \ moved[a]
                 PROVE  told'[peers[k].index] = peers
      OBVIOUS
    <3>1. peers[k].index \in Indices /\ peers[k].index < nodes
      BY <1>3 DEF Nodes
    <3>2. CASE k = m
      BY <1>1, <3>1, <3>2
    <3>3. CASE k # m
      <4>1. k \in 1..actor[a].pushed
        BY <1>3, <3>3
      <4>2. told[peers[k].index] = peers
        BY <1>1, <2>1, <4>1 DEF BroughtAbout, ActorAt
      <4>3. QED
        BY <1>1, <3>1, <4>2
    <3>4. QED
      BY <3>2, <3>3
  <2>3. /\ Clustered(a)' <=> Clustered(a)
        /\ Nodes' = Nodes
    BY <1>1, <1>2 DEF Clustered, Nodes
  <2>4. ActorAt(a, "push") /\ actor'[a].pc = "push"
    BY <1>1, <1>2 DEF ActorAt
  <2> HIDE DEF PeersInv
  <2>5. QED
    BY <1>1, <1>2, <2>1, <2>2, <2>3, <2>4 DEF BroughtAbout, ActorAt, Working
<1>8. Busy(a)
  BY <1>1 DEF ActorAt, Busy, Working
<1>9. QED
  BY <1>1, <1>2, <1>5, <1>6, <1>7, <1>8, AtWorkKeeps

\* An actor ends, having pushed all or failed.
LEMMA EndKeeps ==
  ASSUME PeersInv, NEW a \in Actors, Finish(a) \/ Fails(a)
  PROVE  PeersInv'
<1> USE DEF PeersInv
<1>1. PICK step \in {"done", "failed"} :
        /\ ActorGoto(a, step) /\ Busy(a)
        /\ UNCHANGED <<nodes, address, told, registryEnv, moved, alone>>
        /\ step = "done" => ActorAt(a, "push") /\ PushedAll(a)
  BY DEF Finish, Fails, Busy, ActorAt, Working
<1>2. /\ actor' \in [Actors -> ActorRecord]
      /\ actor'[a].pc = step
      /\ actor'[a].count = actor[a].count
      /\ actor'[a].peers = actor[a].peers
      /\ actor'[a].pushed = actor[a].pushed
      /\ \A b \in Actors \ {a} : actor'[b] = actor[b]
  BY <1>1, Goes
<1>3. PeersTypeOK'
  BY <1>1, <1>2 DEF PeersTypeOK
<1>4. ReadByNow(a)'
  <2>1. ReadByNow(a)
    OBVIOUS
  <2>2. QED
    BY <1>1, <1>2, <2>1 DEF ReadByNow, ActorAt
<1>5. alone[a] => BroughtAbout(a)'
  BY <1>1, <1>2 DEF BroughtAbout, ActorAt, Clustered, Nodes, Working, PushedAll
<1>6. QED
  BY <1>1, <1>2, <1>3, <1>4, <1>5, AtWorkKeeps

\* A node is placed elsewhere on its own.
LEMMA MoveKeeps ==
  ASSUME PeersInv, NEW i \in Indices, Move(i)
  PROVE  PeersInv'
<1> USE DEF PeersInv
<1>1. Placed({i}) /\ actor' = actor
  BY DEF Move
<1>2. /\ address' \in [Indices -> Nat]
      /\ told' \in [Indices -> Seq(Peer)]
      /\ moved' \in [Actors -> SUBSET Indices]
      /\ \A b \in Actors : moved'[b] = moved[b] \cup {i}
      /\ \A j \in Indices \ {i} : address'[j] = address[j] /\ told'[j] = told[j]
      /\ UNCHANGED <<nodes, registryEnv, alone>>
  BY <1>1, PlacedEffect
<1>3. PeersTypeOK' /\ CreatedFirst' /\ AloneAtWork'
  BY <1>1, <1>2 DEF PeersTypeOK, CreatedFirst, AloneAtWork, ActorAt, Busy
<1>4. ASSUME NEW a \in Actors
      PROVE  ReadByNow(a)' /\ (alone'[a] => BroughtAbout(a)')
  <2>1. /\ actor[a].peers \in Seq(Peer)
        /\ \A k \in DOMAIN actor[a].peers : actor[a].peers[k].index \in Indices
    <3>1. actor[a].peers \in Seq(Peer)
      BY DEF PeersTypeOK, ActorRecord
    <3>2. QED
      BY <3>1, PeersOfList
  <2>2. ReadByNow(a)'
    <3>1. ReadByNow(a)
      OBVIOUS
    <3>2. QED
      BY <1>1, <1>2, <2>1, <3>1 DEF ReadByNow, ActorAt, Clustered
  <2>3. nodes \in Nat /\ Nodes \subseteq Indices
    BY SizesFit DEF PeersTypeOK, Nodes
  <2>4. alone'[a] => BroughtAbout(a)'
    <3>1. Nodes' = Nodes /\ (Clustered(a)' <=> Clustered(a))
      BY <1>1, <1>2 DEF Nodes, Clustered
    <3>2. \A n \in Nodes \ moved'[a] : n \in Nodes \ moved[a] /\ told'[n] = told[n]
      BY <1>2, <2>3
    <3>3. /\ UNCHANGED <<actor, nodes, registryEnv>>
          /\ moved[a] \subseteq moved'[a]
      BY <1>1, <1>2
    <3>4. alone'[a] => BroughtAbout(a)
      BY <1>2
    <3> HIDE DEF PeersInv
    <3>5. QED
      BY <3>1, <3>2, <3>3, <3>4 DEF BroughtAbout, ActorAt
  <2>5. QED
    BY <2>2, <2>4
<1>5. QED
  BY <1>3, <1>4

\* What PeersInv says holds whoever scales the registry and whenever nodes move.
THEOREM PeersInvariance == PeersSpec => []PeersInv
<1>1. PeersInv /\ [PeersNext]_peersVars => PeersInv'
  <2> SUFFICES ASSUME PeersInv, [PeersNext]_peersVars
               PROVE  PeersInv'
    OBVIOUS
  <2>1. CASE PeersNext
    BY <2>1, BeginScalingKeeps, ScaleKeeps, ReadKeeps, StoreKeeps, StartKeeps, PushKeeps,
      EndKeeps, MoveKeeps DEF PeersNext
  <2>2. CASE UNCHANGED peersVars
    <3>1. PeersTypeOK' /\ CreatedFirst' /\ AloneAtWork'
      BY <2>2 DEF peersVars, PeersInv, PeersTypeOK, CreatedFirst, AloneAtWork, ActorAt, Busy
    <3>2. ASSUME NEW a \in Actors
          PROVE  ReadByNow(a)' /\ (alone'[a] => BroughtAbout(a)')
      BY <2>2 DEF peersVars, PeersInv, ReadByNow, BroughtAbout, ActorAt, Clustered, Nodes
    <3>3. QED
      BY <3>1, <3>2 DEF PeersInv
  <2>3. QED
    BY <2>1, <2>2
<1>2. QED
  BY <1>1, PeersInitInv, PTL DEF PeersSpec

\* An actor without a rival leaves as many nodes as asked for, in the mode that
\* goes with the number, and PEERS names each node once
\* (update_registry_server_instance.go:89-134).
THEOREM StoredMatchesHolds == PeersSpec => []StoredMatches
<1>1. PeersInv => StoredMatches
  <2> SUFFICES ASSUME PeersInv, NEW a \in Actors, Done(a)
               PROVE  /\ nodes = actor[a].count
                      /\ registryEnv.mode = "clustered" <=> nodes > 1
                      /\ nodes > 1 =>
                           /\ Len(registryEnv.peers) = nodes
                           /\ {registryEnv.peers[k].index : k \in DOMAIN registryEnv.peers}
                                = Nodes
    BY DEF StoredMatches
  <2>1. /\ nodes = actor[a].count
        /\ registryEnv.mode = IF Clustered(a) THEN "clustered" ELSE "standalone"
        /\ Clustered(a) => ListsAll(registryEnv.peers, nodes)
    BY DEF PeersInv, Done, BroughtAbout, ActorAt
  <2>2. registryEnv.peers \in Seq(Peer) /\ nodes \in Nat
    BY SizesFit DEF PeersInv, PeersTypeOK
  <2>3. ASSUME nodes > 1
        PROVE  /\ Len(registryEnv.peers) = nodes
               /\ {registryEnv.peers[k].index : k \in DOMAIN registryEnv.peers} = Nodes
    <3>1. /\ DOMAIN registryEnv.peers = 1..nodes /\ Len(registryEnv.peers) = nodes
          /\ \A k \in 1..nodes : registryEnv.peers[k].index = k - 1
      BY <2>1, <2>2, <2>3, PeersOfList DEF ListsAll, Clustered
    <3>2. \A k \in 1..nodes : k - 1 \in Nodes
      BY <2>2 DEF Nodes
    <3>3. \A i \in Nodes : i + 1 \in 1..nodes /\ (i + 1) - 1 = i
      BY <2>2 DEF Nodes
    <3>4. \A i \in Nodes : \E k \in 1..nodes : registryEnv.peers[k].index = i
      BY <3>1, <3>3
    <3> DEFINE listed == {registryEnv.peers[k].index : k \in DOMAIN registryEnv.peers}
    <3>5. listed \subseteq Nodes
      BY <3>1, <3>2
    <3>6. Nodes \subseteq listed
      BY <3>1, <3>4
    <3>7. QED
      BY <3>1, <3>5, <3>6
  <2>4. QED
    BY <2>1, <2>3 DEF Clustered
<1>2. QED
  BY <1>1, PeersInvariance, PTL

\* Every node that has stayed where it was knows every other one that has, at
\* its address and at no other (create_registry_server_instance.go:234-317).
THEOREM EveryoneToldHolds == PeersSpec => []EveryoneTold
<1>1. PeersInv => EveryoneTold
  <2> SUFFICES ASSUME PeersInv, NEW a \in Actors, Done(a), nodes > 1,
                      NEW i \in Nodes \ moved[a], NEW j \in Nodes \ moved[a]
               PROVE  {p.uri : p \in {q \in ToSet(told[i]) : q.index = j}} = {address[j]}
    BY DEF EveryoneTold
  <2> DEFINE peers == actor[a].peers
  <2>1. ReadByNow(a) /\ BroughtAbout(a) /\ ActorAt(a, "done")
    BY DEF PeersInv, Done
  <2>2. peers \in Seq(Peer)
    BY DEF PeersInv, PeersTypeOK, ActorRecord
  <2>3. DOMAIN peers = 1..actor[a].pushed
    BY <2>1, <2>2, PeersOfList DEF BroughtAbout
  <2>4. \A n \in Nodes : \E k \in DOMAIN peers : peers[k].index = n
    BY <2>1 DEF BroughtAbout, ActorAt, Clustered
  <2>5. told[i] = peers
    <3>1. PICK k \in DOMAIN peers : peers[k].index = i
      BY <2>4
    <3>2. QED
      BY <2>1, <2>3, <3>1 DEF BroughtAbout, ActorAt
  <2>6. \A q \in ToSet(peers) : q.index = j => q.uri = address[j]
    BY <2>1 DEF ReadByNow, ToSet
  <2>7. \E q \in ToSet(peers) : q.index = j
    BY <2>4 DEF ToSet
  <2>8. QED
    BY <2>5, <2>6, <2>7
<1>2. QED
  BY <1>1, PeersInvariance, PTL
=============================================================================
