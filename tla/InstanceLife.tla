---------------------------- MODULE InstanceLife ----------------------------
(***************************************************************************)
(* What the life of an application in the instance space looks like from   *)
(* outside, whatever calls, goroutines and failures bring it about: it is  *)
(* built once, under a name no other has, may run and stop, and goes away  *)
(* for good; it stops or goes only if its instance was asked to go.        *)
(***************************************************************************)
CONSTANTS
  Guids,    \* applications
  Names,    \* names of service instances
  NameOf    \* NameOf[g]: the instance g belongs to

VARIABLES
  phase,    \* phase[g]: where application g is in its life
  asked     \* the instances that were asked to go

lifeVars == <<phase, asked>>

LifeInit ==
  /\ phase = [g \in Guids |-> "absent"]
  /\ asked = {}

Standing(n) == {g \in Guids : NameOf[g] = n /\ phase[g] \in {"idle", "running", "going"}}

Enter(g, next) == phase' = [phase EXCEPT ![g] = next] /\ UNCHANGED asked

Build(g) ==
  /\ phase[g] = "absent" /\ Standing(NameOf[g]) = {}
  /\ Enter(g, "idle")

Run(g) == phase[g] = "idle" /\ Enter(g, "running")

Stop(g) ==
  /\ phase[g] = "running" /\ NameOf[g] \in asked
  /\ Enter(g, "idle")

Condemn(g) ==
  /\ phase[g] \in {"idle", "running"} /\ NameOf[g] \in asked
  /\ Enter(g, "going")

Vanish(g) == phase[g] = "going" /\ Enter(g, "gone")

Ask(n) == asked' = asked \cup {n} /\ UNCHANGED phase

LifeNext ==
  \/ \E g \in Guids : Build(g) \/ Run(g) \/ Stop(g) \/ Condemn(g) \/ Vanish(g)
  \/ \E n \in Names : Ask(n)

LifeSpec == LifeInit /\ [][LifeNext]_lifeVars
=============================================================================
