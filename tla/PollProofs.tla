----------------------------- MODULE PollProofs -----------------------------
(***************************************************************************)
(* Proofs about Staging and StartupWatch, the parts that go by the clock,  *)
(* for any intervals, timeouts, latencies and numbers of instances.        *)
(***************************************************************************)
EXTENDS Staging, StartupWatch, TLAPS

-----------------------------------------------------------------------------
(* The polls for the package and the build. *)

\* The clock runs only as long as what is in progress waits.
WaitsWithin ==
  /\ poller.since <= now /\ subject.at <= now
  /\ poller.pc \in PackageCalls \cup BuildCalls => now <= poller.since + Latency
  /\ In("sleep") => now <= poller.since + Second

\* What a look saw pending was settled after the call began, and the look that
\* comes next begins soon.
PackageInTime ==
  Settled =>
    /\ poller.pc \in {"packageSession", "getPackage", "getBuild"}
         /\ poller.seen = "pending" => poller.since <= subject.at
    /\ poller.pc \in PackageCalls => poller.since <= subject.at + Second + Latency
    /\ In("sleep") => poller.since <= subject.at + Latency

\* By then the last look at the build has begun.
LastLook == Max({Timeout, Latency})

\* The timeout is made once, and the timer is due an interval after a look.
BuildInTime ==
  /\ poller.pc \in BuildPcs => deadline = {Timeout}
  /\ In("buildSession") => poller.since = 0 /\ timer = {0}
  /\ In("select") =>
       /\ timer # {}
       /\ now <= LastLook + Latency
       /\ Fired(timer) => now <= LastLook
       /\ \A t \in timer :
            /\ t <= now + Interval
            /\ Settled => t <= subject.at + Latency + Interval
       /\ Settled => now <= subject.at + Latency + Interval
  /\ In("getBuild") => poller.since <= LastLook
  /\ In("getDroplet") => poller.since <= LastLook + Latency

StagingInv ==
  /\ StagingTypeOK
  /\ WaitsWithin
  /\ PackageInTime
  /\ BuildInTime
  /\ TimeoutHonest

\* The larger of the two, whichever it is.
LEMMA LastLookBounds ==
  /\ LastLook \in Nat
  /\ Timeout <= LastLook /\ Latency <= LastLook
<1> USE StagingAssumption, ClockAssumption
<1>1. \E x \in {Timeout, Latency} : \A y \in {Timeout, Latency} : x >= y
  <2>1. CASE Timeout >= Latency
    BY <2>1
  <2>2. CASE ~(Timeout >= Latency)
    BY <2>2
  <2>3. QED
    BY <2>1, <2>2
<1>2. /\ LastLook \in {Timeout, Latency}
      /\ \A y \in {Timeout, Latency} : LastLook >= y
  BY <1>1 DEF LastLook, Max
<1>3. QED
  BY <1>2

\* At the start nothing has taken any time.
LEMMA StagingInitInv == StagingInit => StagingInv
BY StagingAssumption, ClockAssumption DEF StagingInit, StagingInv, StagingTypeOK, WaitsWithin,
  PackageInTime, BuildInTime, TimeoutHonest, In, Settled, Outcomes, PackagePcs, BuildPcs,
  PackageCalls, BuildCalls

\* A step of the package's poll, or the beginning of the build's.
LEMMA PackagePollKeeps ==
  ASSUME StagingInv, PackageReply \/ LookAgain
  PROVE  StagingInv'
<1> USE StagingAssumption, ClockAssumption DEF StagingInv, StagingTypeOK, In, Settled,
      Outcomes, PackagePcs, BuildPcs, PackageCalls, BuildCalls
<1>1. CASE BeginBuild
  BY <1>1 DEF BeginBuild, WaitsWithin, PackageInTime, BuildInTime, TimeoutHonest, Unset
<1>2. CASE PackageReply /\ ~BeginBuild
  <2> DEFINE next == IF poller.seen = "pending" THEN "sleep" ELSE "failed"
  <2>1. /\ poller' = [pc |-> next, since |-> now, seen |-> poller.seen]
        /\ UNCHANGED <<now, subject, timer, deadline>>
        /\ poller.pc \in PackageCalls
    BY <1>2 DEF PackageReply, PackageLoop, Enter
  <2>2. poller.seen = "pending" => In("packageSession") \/ In("getPackage")
    BY <2>1
  <2>3. StagingTypeOK'
    BY <2>1
  <2>4. WaitsWithin' /\ BuildInTime' /\ TimeoutHonest'
    BY <2>1 DEF WaitsWithin, BuildInTime, TimeoutHonest
  <2>5. PackageInTime'
    BY <2>1, <2>2 DEF WaitsWithin, PackageInTime
  <2>6. QED
    BY <2>3, <2>4, <2>5
<1>3. CASE LookAgain
  BY <1>3 DEF LookAgain, Enter, WaitsWithin, PackageInTime, BuildInTime, TimeoutHonest, Unset
<1>4. QED
  BY <1>1, <1>2, <1>3

\* A step of the build's poll.
LEMMA BuildPollKeeps ==
  ASSUME StagingInv,
         OpenSession \/ PollBuild \/ TimeOut \/ BuildReply \/ DropletReply
  PROVE  StagingInv'
<1> USE StagingAssumption, ClockAssumption, LastLookBounds DEF StagingInv, StagingTypeOK, In,
      Settled, Outcomes, PackagePcs, BuildPcs, PackageCalls, BuildCalls, Enter
<1>1. CASE OpenSession
  BY <1>1 DEF OpenSession, WaitsWithin, PackageInTime, BuildInTime, TimeoutHonest, Unset, Fired
<1>2. CASE PollBuild
  BY <1>2 DEF PollBuild, WaitsWithin, PackageInTime, BuildInTime, TimeoutHonest, Unset, Fired
<1>3. CASE TimeOut
  BY <1>3 DEF TimeOut, WaitsWithin, PackageInTime, BuildInTime, TimeoutHonest, Unset, Fired
<1>4. CASE BuildReply
  BY <1>4 DEF BuildReply, AfterBuildLook, ResetTimer, WaitsWithin, PackageInTime, BuildInTime,
    TimeoutHonest, Unset, Fired
<1>5. CASE DropletReply
  BY <1>5 DEF DropletReply, WaitsWithin, PackageInTime, BuildInTime, TimeoutHonest, Unset
<1>6. QED
  BY <1>1, <1>2, <1>3, <1>4, <1>5

\* A step of either poll, of the Cloud Controller, or of the clock.
LEMMA StagingStep ==
  ASSUME StagingInv, [StagingNext]_stagingVars
  PROVE  StagingInv'
<1> USE StagingAssumption, ClockAssumption, LastLookBounds DEF StagingInv, StagingTypeOK, In,
      Settled, Outcomes, PackagePcs, BuildPcs, PackageCalls, BuildCalls
<1>1. CASE Look
  BY <1>1 DEF Look, WaitsWithin, PackageInTime, BuildInTime, TimeoutHonest, Unset, Fired
<1>2. CASE PollCallFails
  BY <1>2 DEF PollCallFails, Enter, WaitsWithin, PackageInTime, BuildInTime, TimeoutHonest,
    Unset
<1>3. CASE Settle
  BY <1>3 DEF Settle, WaitsWithin, PackageInTime, BuildInTime, TimeoutHonest, Fired
<1>4. CASE StagingTick
  BY <1>4 DEF StagingTick, Waits, WaitsWithin, PackageInTime, BuildInTime, TimeoutHonest, Fired
<1>5. CASE UNCHANGED stagingVars
  BY <1>5 DEF stagingVars, WaitsWithin, PackageInTime, BuildInTime, TimeoutHonest, Fired
<1>6. QED
  BY <1>1, <1>2, <1>3, <1>4, <1>5, PackagePollKeeps, BuildPollKeeps DEF StagingNext

\* The clock and the polls stay within what StagingInv says.
THEOREM StagingInvariance == StagingSpec => []StagingInv
<1>1. StagingInv /\ [StagingNext]_stagingVars => StagingInv'
  BY StagingStep
<1>2. QED
  BY <1>1, StagingInitInv, PTL DEF StagingSpec

\* pollPackage (poll_package.go:24-33) ends soon after the package is
\* processed, however slow the calls are.
THEOREM PackagePollEndsHolds == StagingSpec => []PackagePollEnds
<1>1. StagingInv => PackagePollEnds
  BY ClockAssumption DEF StagingInv, StagingTypeOK, WaitsWithin, PackageInTime, PackagePcs,
    In, PackagePollEnds, Settled
<1>2. QED
  BY <1>1, StagingInvariance, PTL

\* pollBuild (poll_build.go:63-64) does not report a timeout before the
\* timeout, nor of a build that a look due in time would have found settled.
THEOREM TimeoutHonestHolds == StagingSpec => []TimeoutHonest
<1>1. StagingInv => TimeoutHonest
  BY DEF StagingInv
<1>2. QED
  BY <1>1, StagingInvariance, PTL

\* pollBuild (poll_build.go:27-66) ends.
THEOREM BuildPollEndsHolds == StagingSpec => []BuildPollEnds
<1>1. StagingInv => BuildPollEnds
  BY LastLookBounds, ClockAssumption DEF StagingInv, StagingTypeOK, WaitsWithin, BuildInTime,
    BuildPcs, BuildCalls, In, BuildPollEnds, LastLook
<1>2. QED
  BY <1>1, StagingInvariance, PTL

-----------------------------------------------------------------------------
(* The watch over the start-up. *)

\* The clock runs only as long as what is in progress waits.
WatchWithin ==
  /\ watch.since <= time
  /\ WatchAt("sleep") => time <= watch.since + Second
  /\ watch.pc \in Calls => time <= watch.since + Latency
  /\ \A i \in Instances : \A t \in crashed[i] : t <= time

\* Statistics that showed no crash were read before it, so the next ones are
\* read soon after.
NextStatsSoon ==
  \A i \in Instances : \A t \in crashed[i] :
    /\ WatchAt("sleep") => watch.since <= t + Latency
    /\ WatchAt("processes") => watch.since <= t + Latency + Second
    /\ WatchAt("stats") =>
         watch.since <= IF watch.saw = "health" THEN t ELSE t + Second + 2 * Latency

\* How long the rounds so far have taken.
RoundsTake ==
  /\ timepassed * Second <= watch.since
  /\ WatchAt("sleep") =>
       timepassed < Rounds /\ watch.since <= timepassed * (Second + 2 * Latency)
  /\ WatchAt("processes") =>
       watch.since + 2 * Latency <= timepassed * (Second + 2 * Latency)
  /\ WatchAt("stats") =>
       watch.since + Latency <= timepassed * (Second + 2 * Latency)
  /\ watch.pc \notin WatchPcs => time <= timepassed * (Second + 2 * Latency)
  /\ WatchAt("true") => timepassed = Rounds

WatchInv ==
  /\ WatchTypeOK
  /\ WatchWithin
  /\ NextStatsSoon
  /\ RoundsTake

\* The watch begins with a sleep.
LEMMA WatchInitInv == WatchInit => WatchInv
BY WatchAssumption, ClockAssumption DEF WatchInit, WatchInv, WatchTypeOK, WatchWithin,
  NextStatsSoon, RoundsTake, WatchAt, WatchPcs, Calls

\* Rounds take as much longer as there are more of them.
LEMMA Longer ==
  ASSUME NEW n \in Nat, NEW m \in Nat, NEW x \in Nat, n <= m
  PROVE  /\ n * x \in Nat /\ m * x \in Nat /\ n * x <= m * x
         /\ (n + 1) * x = n * x + x
<1>1. PICK k \in Nat : m = n + k
  BY m - n \in Nat
<1>2. m * x = n * x + k * x /\ k * x \in Nat /\ n * x \in Nat
  BY <1>1
<1>3. QED
  BY <1>2

\* Instances come and go, and the statistics are read.
LEMMA InstancesKeep ==
  ASSUME WatchInv,
         ReadStats \/ \E i \in Instances : InstanceCrashes(i) \/ InstanceStarts(i)
  PROVE  WatchInv'
<1> USE WatchAssumption, ClockAssumption DEF WatchInv, WatchTypeOK, WatchAt, WatchPcs, Calls
<1>1. CASE ReadStats
  BY <1>1 DEF ReadStats, Down, WatchWithin, NextStatsSoon, RoundsTake
<1>2. ASSUME NEW i \in Instances, InstanceCrashes(i)
      PROVE  WatchInv'
  BY <1>2 DEF InstanceCrashes, WatchWithin, NextStatsSoon, RoundsTake
<1>3. ASSUME NEW i \in Instances, InstanceStarts(i)
      PROVE  WatchInv'
  BY <1>3 DEF InstanceStarts, WatchWithin, NextStatsSoon, RoundsTake
<1>4. QED
  BY <1>1, <1>2, <1>3

\* The watch goes from the sleep to the statistics and back, or ends.
LEMMA WatchMoves ==
  ASSUME WatchInv, Wake \/ GetApplicationProcesses \/ GetStats \/ StatsCallFails
  PROVE  WatchInv'
<1> DEFINE round == Second + 2 * Latency
<1> USE WatchAssumption, ClockAssumption DEF WatchInv, WatchTypeOK, WatchAt, WatchPcs, Calls
<1>1. /\ timepassed * Second \in Nat /\ timepassed * round \in Nat
      /\ (timepassed + 1) * Second = timepassed * Second + Second
      /\ (timepassed + 1) * round = timepassed * round + round
  BY Longer
<1> HIDE DEF round
<1>2. CASE Wake
  <2>1. /\ watch' = [pc |-> "processes", since |-> time, saw |-> "nothing"]
        /\ timepassed' = timepassed + 1
        /\ UNCHANGED <<time, crashed>>
        /\ WatchAt("sleep") /\ time = watch.since + Second
    BY <1>2 DEF Wake, WatchGoto
  <2>2. WatchTypeOK' /\ WatchWithin' /\ NextStatsSoon'
    BY <2>1 DEF WatchWithin, NextStatsSoon, RoundsTake
  <2>3. watch.since <= timepassed * round /\ timepassed * Second <= watch.since
    BY <2>1 DEF RoundsTake, round
  <2>4. /\ timepassed' * Second <= watch'.since
        /\ watch'.since + 2 * Latency <= timepassed' * round
    BY <1>1, <2>1, <2>3 DEF round
  <2>5. RoundsTake'
    BY <2>1, <2>4 DEF RoundsTake, round
  <2>6. QED
    BY <2>2, <2>5
<1>3. CASE GetApplicationProcesses
  BY <1>1, <1>3 DEF GetApplicationProcesses, WatchGoto, WatchWithin, NextStatsSoon, RoundsTake,
    round
<1>4. CASE GetStats
  BY <1>1, <1>4 DEF GetStats, WatchGoto, AfterStats, WatchWithin, NextStatsSoon, RoundsTake,
    round
<1>5. CASE StatsCallFails
  BY <1>1, <1>5 DEF StatsCallFails, WatchGoto, WatchWithin, NextStatsSoon, RoundsTake, round
<1>6. QED
  BY <1>2, <1>3, <1>4, <1>5

\* Every step of the watch, of the instances and of the clock.
LEMMA WatchStep ==
  ASSUME WatchInv, [WatchNext]_watchVars
  PROVE  WatchInv'
<1>1. CASE WatchTick
  BY <1>1, ClockAssumption DEF WatchTick, WatchInv, WatchTypeOK, WatchAt, WatchPcs, Calls,
    WatchWithin, NextStatsSoon, RoundsTake
<1>2. CASE UNCHANGED watchVars
  BY <1>2 DEF watchVars, WatchInv, WatchTypeOK, WatchAt, WatchWithin, NextStatsSoon, RoundsTake
<1>3. QED
  BY <1>1, <1>2, InstancesKeep, WatchMoves DEF WatchNext

\* The watch keeps to its times, whenever instances crash.
THEOREM WatchInvariance == WatchSpec => []WatchInv
<1>1. WatchInv /\ [WatchNext]_watchVars => WatchInv'
  BY WatchStep
<1>2. QED
  BY <1>1, WatchInitInv, PTL DEF WatchSpec

\* An instance that stays down is seen within a round
\* (monitor_application.go:39-43).
THEOREM CrashSeenHolds == WatchSpec => []CrashSeen
<1>1. WatchInv => CrashSeen
  BY ClockAssumption DEF WatchInv, WatchTypeOK, WatchWithin, NextStatsSoon, CrashSeen, WatchAt,
    WatchPcs, Calls
<1>2. QED
  BY <1>1, WatchInvariance, PTL

\* Success is the verdict of all rounds (monitor_application.go:16-18), and the
\* watch ends in the time that they may take.
THEOREM WatchLastsHolds == WatchSpec => []WatchLasts
<1>1. WatchInv => WatchLasts
  <2> SUFFICES ASSUME WatchInv PROVE WatchLasts
    OBVIOUS
  <2> DEFINE round == Second + 2 * Latency
  <2> USE WatchAssumption, ClockAssumption DEF WatchInv, WatchTypeOK, WatchAt
  <2>1. timepassed * round <= Rounds * round /\ timepassed * round \in Nat
        /\ Rounds * round \in Nat
    BY Longer
  <2>2. WatchAt("true") => time >= Rounds * Second
    BY DEF WatchWithin, RoundsTake
  <2>3. time <= Rounds * round
    <3>1. CASE WatchAt("sleep")
      <4>1. (timepassed + 1) * round <= Rounds * round
            /\ (timepassed + 1) * round = timepassed * round + round
        BY <3>1, Longer DEF RoundsTake
      <4>2. watch.since <= timepassed * round /\ time <= watch.since + Second
        BY <3>1 DEF RoundsTake, WatchWithin
      <4>3. QED
        BY <2>1, <4>1, <4>2
    <3>2. CASE watch.pc \in Calls
      <4>1. watch.since + Latency <= timepassed * round /\ time <= watch.since + Latency
        BY <2>1, <3>2 DEF RoundsTake, WatchWithin, Calls
      <4>2. QED
        BY <2>1, <4>1
    <3>3. CASE watch.pc \notin WatchPcs
      <4>1. time <= timepassed * round
        BY <3>3 DEF RoundsTake
      <4>2. QED
        BY <2>1, <4>1
    <3>4. QED
      BY <3>1, <3>2, <3>3 DEF WatchPcs
  <2>4. QED
    BY <2>2, <2>3 DEF WatchLasts
<1>2. QED
  BY <1>1, WatchInvariance, PTL
=============================================================================
