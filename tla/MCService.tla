----------------------------- MODULE MCService ------------------------------
(***************************************************************************)
(* Instances of Service for TLC: one service instance with everything that *)
(* may be asked of it.                                                     *)
(***************************************************************************)
EXTENDS Service

CONSTANTS p1, p2, d1, u1, u2, u3, k1, k2, v1, n1, b1, b2, Offering

NoFaults   == {}
Everything == FaultKinds

OneName    == [p \in Guids |-> n1]
AllDeps    == [d \in Deprovisions |-> n1]
AllUpdates == [u \in Updates |-> n1]
AllBinds   == [k \in Binds |-> n1]
OneBinding == [c \in Binds \cup Unbinds |-> b1]
OfOffering == [n \in Names |-> Offering]

(***************************************************************************)
(* Bound: one behaviour has Updates or bindings, not both.  Nobody has to  *)
(* call the broker, so this takes nothing from what fairness promises; and *)
(* of fairness, that of the platform's jobs is enough here.                *)
(***************************************************************************)
NoUpdates  == \A u \in Updates : UpdAt(u, "idle")
NoBindings == /\ \A k \in Binds : BindAt(k, "idle")
              /\ \A u \in Unbinds : unbind[u] = "idle"

UpdatesOrBindings ==
  /\ ServiceInit
  /\ [][ServiceNext /\ (NoUpdates' \/ NoBindings')]_serviceVars
  /\ WF_vars(Job)
=============================================================================
