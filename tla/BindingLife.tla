---------------------------- MODULE BindingLife -----------------------------
(***************************************************************************)
(* What the secrets of bindings look like from outside, whatever calls,    *)
(* retries and failures bring it about: a secret is accepted during one    *)
(* stretch of time at most, never beside another of its binding; it is     *)
(* revoked only if its binding was asked to end; and only what was issued  *)
(* is handed out.                                                          *)
(***************************************************************************)
CONSTANTS
  Binds,      \* the Bind calls; a secret is identified with its call
  Bindings,   \* bindings
  BindingOf   \* BindingOf[k]: the binding secret k is for

VARIABLES
  secret,     \* secret[k]: whether UAA accepts secret k
  told,       \* the secrets handed out
  ending      \* the bindings that were asked to end

secretVars == <<secret, told, ending>>

BindingLifeInit ==
  /\ secret = [k \in Binds |-> "unused"]
  /\ told = {}
  /\ ending = {}

Turn(k, next) == secret' = [secret EXCEPT ![k] = next] /\ UNCHANGED <<told, ending>>

Issue(k) ==
  /\ secret[k] = "unused"
  /\ \A j \in Binds : BindingOf[j] = BindingOf[k] => secret[j] # "valid"
  /\ Turn(k, "valid")

Revoke(k) ==
  /\ secret[k] = "valid" /\ BindingOf[k] \in ending
  /\ Turn(k, "spent")

\* Calls that end without a secret; a crash ends many at once.
GiveUp(ks) ==
  /\ \A k \in ks : secret[k] = "unused"
  /\ secret' = [k \in Binds |-> IF k \in ks THEN "spent" ELSE secret[k]]
  /\ UNCHANGED <<told, ending>>

HandOut(k) ==
  /\ \/ secret[k] = "valid"
     \/ secret[k] = "spent" /\ BindingOf[k] \in ending
  /\ told' = told \cup {k}
  /\ UNCHANGED <<secret, ending>>

AskEnd(b) == ending' = ending \cup {b} /\ UNCHANGED <<secret, told>>

BindingLifeNext ==
  \/ \E k \in Binds : Issue(k) \/ Revoke(k) \/ HandOut(k)
  \/ \E ks \in SUBSET Binds : GiveUp(ks)
  \/ \E b \in Bindings : AskEnd(b)

BindingLifeSpec == BindingLifeInit /\ [][BindingLifeNext]_secretVars
=============================================================================
