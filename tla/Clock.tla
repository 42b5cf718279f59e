------------------------------- MODULE Clock --------------------------------
(***************************************************************************)
(* What modules Staging and StartupWatch count in: the sleep of a second   *)
(* (poll_package.go:25, monitor_application.go:17) and the longest that a  *)
(* call to the Cloud Controller may take.  The process itself acts at once *)
(* when it can.                                                            *)
(***************************************************************************)
EXTENDS Naturals

CONSTANTS
  Second,      \* the sleep
  Latency      \* the longest a call may take

ASSUME ClockAssumption ==
  /\ Second \in Nat \ {0}
  /\ Latency \in Nat
=============================================================================
