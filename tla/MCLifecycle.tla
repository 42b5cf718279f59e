---------------------------- MODULE MCLifecycle -----------------------------
(***************************************************************************)
(* Instances of Lifecycle for TLC.                                         *)
(***************************************************************************)
EXTENDS Lifecycle, TLC

CONSTANTS p1, p2, d1, d2, n1, Offering

Everything == FaultKinds
NoFaults   == {}

OneName    == [p \in Guids |-> n1]
AllFirst   == [d \in Deprovisions |-> n1]
OfOffering == [n \in Names |-> Offering]

Symmetry   == Permutations(Provisions) \cup Permutations(Deprovisions)
=============================================================================
