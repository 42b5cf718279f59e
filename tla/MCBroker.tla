----------------------------- MODULE MCBroker -------------------------------
(***************************************************************************)
(* Instances of Broker for TLC: one service instance, one or two bindings. *)
(***************************************************************************)
EXTENDS Broker

CONSTANTS p1, d1, k1, k2, u1, n1, b1, b2, Offering

NoFaults   == {}
Everything == FaultKinds

OneName    == [p \in Guids |-> n1]
AllDeps    == [d \in Deprovisions |-> n1]
AllBinds   == [k \in Binds |-> n1]
OfOffering == [n \in Names |-> Offering]
OneBinding == [c \in Binds \cup Unbinds |-> b1]
=============================================================================
