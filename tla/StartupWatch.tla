---------------------------- MODULE StartupWatch ----------------------------
(***************************************************************************)
(* MonitorApplicationStartup (monitor_application.go) by the clock: a      *)
(* second's sleep, the processes of the application, their statistics      *)
(* (get_process_stats_by_app.go), as many times as Rounds says.  In module *)
(* Provisioning it is one step that sees a crash or does not.              *)
(*                                                                         *)
(* The instances are those of the one web process that the broker's        *)
(* applications have; they crash and are started again by the platform     *)
(* whenever they like.                                                     *)
(***************************************************************************)
EXTENDS Clock

CONSTANTS
  Instances,   \* of the web process
  Rounds       \* waittime

ASSUME WatchAssumption ==
  /\ Instances # {}
  /\ Rounds \in Nat \ {0}

VARIABLES
  time,         \* seconds since the watch began
  crashed,     \* when each instance crashed that is down, nothing for others
  watch,       \* where the watch is, and since when; whether the statistics
               \* were read in the call in progress, and showed a crash
  timepassed   \* rounds so far

watchVars == <<time, crashed, watch, timepassed>>

Calls == {"processes", "stats"}
WatchPcs == Calls \cup {"sleep"}

WatchTypeOK ==
  /\ time \in Nat
  /\ crashed \in [Instances -> SUBSET Nat]
  /\ watch \in [ pc    : WatchPcs \cup {"true", "false", "error"},
                 since : Nat,
                 saw   : {"nothing", "crash", "health"} ]
  /\ timepassed \in 0..Rounds

Down(i) == crashed[i] # {}

WatchAt(step) == watch.pc = step

WatchGoto(step) ==
  /\ watch' = [pc |-> step, since |-> time, saw |-> "nothing"]
  /\ UNCHANGED <<time, crashed>>

WatchInit ==
  /\ time = 0
  /\ \E down \in SUBSET Instances :
       crashed = [i \in Instances |-> IF i \in down THEN {0} ELSE {}]
  /\ watch = [pc |-> "sleep", since |-> 0, saw |-> "nothing"]
  /\ timepassed = 0

Wake ==
  /\ WatchAt("sleep") /\ time = watch.since + Second
  /\ WatchGoto("processes")
  /\ timepassed' = timepassed + 1

GetApplicationProcesses ==
  /\ WatchAt("processes")
  /\ WatchGoto("stats")
  /\ UNCHANGED timepassed

\* The platform takes its statistics at some moment of the call.
ReadStats ==
  /\ WatchAt("stats") /\ watch.saw = "nothing"
  /\ watch' = [watch EXCEPT !.saw =
                 IF \E i \in Instances : Down(i) THEN "crash" ELSE "health"]
  /\ UNCHANGED <<time, crashed, timepassed>>

\* Mutant: the watch goes on after a crash.
LastWord ==
  IF timepassed < Rounds THEN "sleep" ELSE IF watch.saw = "crash" THEN "false" ELSE "true"

\* Mutant: a round too few.
OneRoundShort ==
  IF watch.saw = "crash" THEN "false"
  ELSE IF timepassed + 1 < Rounds THEN "sleep" ELSE "true"

AfterStats ==
  IF watch.saw = "crash" THEN "false"
  ELSE IF timepassed < Rounds THEN "sleep" ELSE "true"

GetStats ==
  /\ WatchAt("stats") /\ watch.saw # "nothing"
  /\ WatchGoto(AfterStats)
  /\ UNCHANGED timepassed

\* A refused statistics call is skipped; as there is one web process, there
\* are no statistics then, which is an error as much as a refused list is.
StatsCallFails ==
  /\ watch.pc \in Calls
  /\ WatchGoto("error")
  /\ UNCHANGED timepassed

InstanceCrashes(i) ==
  /\ watch.pc \in WatchPcs /\ ~Down(i)
  /\ crashed' = [crashed EXCEPT ![i] = {time}]
  /\ UNCHANGED <<time, watch, timepassed>>

InstanceStarts(i) ==
  /\ watch.pc \in WatchPcs /\ Down(i)
  /\ crashed' = [crashed EXCEPT ![i] = {}]
  /\ UNCHANGED <<time, watch, timepassed>>

WatchTick ==
  /\ watch.pc \in WatchPcs
  /\ time < watch.since + IF WatchAt("sleep") THEN Second ELSE Latency
  /\ time' = time + 1
  /\ UNCHANGED <<crashed, watch, timepassed>>

WatchNext ==
  \/ Wake \/ GetApplicationProcesses \/ ReadStats \/ GetStats \/ StatsCallFails
  \/ \E i \in Instances : InstanceCrashes(i) \/ InstanceStarts(i)
  \/ WatchTick

WatchSpec == WatchInit /\ [][WatchNext]_watchVars

-----------------------------------------------------------------------------
(* What the watch promises. *)

\* An instance that stays down is seen within a round (monitor_application.go
\* :39-43), and what goes unseen is back sooner, whichever of the instances are
\* down at a time and wherever in a round they crash.
CrashSeen ==
  watch.pc \in WatchPcs =>
    \A i \in Instances : \A t \in crashed[i] : time <= t + Second + 3 * Latency

\* The watch lasts: success is the verdict of all rounds (:16-18), each of
\* which takes the sleep and at most two calls.
WatchLasts ==
  /\ WatchAt("true") => time >= Rounds * Second
  /\ time <= Rounds * (Second + 2 * Latency)
=============================================================================
