------------------------------- MODULE Staging ------------------------------
(***************************************************************************)
(* Waiting for the package and then for the build of an application, by    *)
(* the clock: pollPackage (poll_package.go) sleeps a second between looks  *)
(* and has no timeout; pollBuild (poll_build.go) selects between a timer   *)
(* that it sets again after each look and a timeout set once.  In module   *)
(* Provisioning each of them is one step that succeeds or fails.           *)
(*                                                                         *)
(* The process acts at once when it can; what takes time is a call, up to  *)
(* Latency, and what the Cloud Controller works on.                        *)
(***************************************************************************)
EXTENDS Clock, FiniteSetsExt

CONSTANTS
  Interval,      \* DefaultPollingInterval
  Timeout,       \* DefaultStagingTimeout
  PackageTime    \* bound: by then the package is processed or refused

ASSUME StagingAssumption ==
  /\ {Interval, Timeout, PackageTime} \subseteq Nat
  /\ Interval > 0

VARIABLES
  now,      \* seconds since the poll in progress began
  subject,  \* what the CC works on, the package and then the build, and when
            \* that was settled
  poller,   \* where the poll is, and since when; what its last look saw
  timer,    \* when the interval timer fires, if it is set
  deadline  \* when the staging timeout fires, once it is made

stagingVars == <<now, subject, poller, timer, deadline>>

Unset == "unset"

PackageCalls == {"packageSession", "getPackage"}
BuildCalls   == {"buildSession", "getBuild", "getDroplet"}
PackagePcs   == PackageCalls \cup {"sleep"}
BuildPcs     == BuildCalls \cup {"select"}
Outcomes     == {"pending", "ready", "failed"}

StagingTypeOK ==
  /\ now \in Nat
  /\ subject \in [state : Outcomes, at : Nat]
  /\ poller \in [ pc    : PackagePcs \cup BuildPcs \cup {"done", "failed", "timedOut"},
                  since : Nat,
                  seen  : Outcomes \cup {Unset} ]
  /\ timer \subseteq Nat
  /\ deadline \subseteq Nat

In(step) == poller.pc = step

Enter(step, seen) == poller' = [pc |-> step, since |-> now, seen |-> seen]

\* The upload's reply tells how far the package is.
StagingInit ==
  /\ now = 0
  /\ \E s \in Outcomes :
       /\ subject = [state |-> s, at |-> 0]
       /\ poller = [pc |-> "packageSession", since |-> 0, seen |-> s]
  /\ timer = {}
  /\ deadline = {}

(***************************************************************************)
(* The package.                                                            *)
(***************************************************************************)
\* CreateBuild, and pollBuild up to its session: the timeout and the first,
\* immediate, interval run from before the session is opened.
BeginBuild ==
  /\ now' = 0
  /\ subject' = [state |-> "pending", at |-> 0]
  /\ poller' = [pc |-> "buildSession", since |-> 0, seen |-> Unset]
  /\ timer' = {0}
  /\ deadline' = {Timeout}

\* Mutant: the reply is kept in the cache, and the loop looks at the old state.
LoopOnStale ==
  \/ /\ In("packageSession") /\ poller.seen = "ready"
     /\ BeginBuild
  \/ /\ Enter("sleep", poller.seen)
     /\ UNCHANGED <<now, subject, timer, deadline>>

\* The head of the loop, with the state the last look has seen.
PackageLoop ==
  \/ /\ poller.seen = "ready"
     /\ BeginBuild
  \/ /\ poller.seen # "ready"
     /\ Enter(IF poller.seen = "pending" THEN "sleep" ELSE "failed", poller.seen)
     /\ UNCHANGED <<now, subject, timer, deadline>>

PackageReply ==
  /\ poller.pc \in PackageCalls /\ poller.seen # Unset
  /\ PackageLoop

LookAgain ==
  /\ In("sleep") /\ now = poller.since + Second
  /\ Enter("getPackage", Unset)
  /\ UNCHANGED <<now, subject, timer, deadline>>

(***************************************************************************)
(* The build.                                                              *)
(***************************************************************************)
OpenSession ==
  /\ In("buildSession")
  /\ Enter("select", Unset)
  /\ UNCHANGED <<now, subject, timer, deadline>>

Fired(channel) == \E t \in channel : now >= t

PollBuild ==
  /\ In("select") /\ Fired(timer)
  /\ Enter("getBuild", Unset)
  /\ timer' = {}
  /\ UNCHANGED <<now, subject, deadline>>

\* The other branch of the select, which may be taken when both could be.
TimeOut ==
  /\ In("select") /\ Fired(deadline)
  /\ Enter("timedOut", Unset)
  /\ UNCHANGED <<now, subject, timer, deadline>>

\* Mutant: the timer is not set again.
TimerNotReset == UNCHANGED <<timer, deadline>>

\* Mutant: the timeout is made anew for every select.
TimeoutInLoop ==
  /\ timer' = {now + Interval}
  /\ deadline' = {now + Timeout}

ResetTimer ==
  /\ timer' = {now + Interval}
  /\ UNCHANGED deadline

\* Mutant: the state of the build is the result.
StateIsResult == IF poller.seen = "pending" THEN "select" ELSE poller.seen

AfterBuildLook ==
  CASE poller.seen = "pending" -> "select"
    [] poller.seen = "ready"   -> "getDroplet"
    [] OTHER                   -> "failed"

BuildReply ==
  /\ In("getBuild") /\ poller.seen # Unset
  /\ Enter(AfterBuildLook, Unset)
  /\ IF poller.seen = "pending" THEN ResetTimer ELSE UNCHANGED <<timer, deadline>>
  /\ UNCHANGED <<now, subject>>

DropletReply ==
  /\ In("getDroplet")
  /\ Enter("done", Unset)
  /\ UNCHANGED <<now, subject, timer, deadline>>

(***************************************************************************)
(* Both: the CC reads the state at some moment of the call, and any call   *)
(* may fail instead.                                                       *)
(***************************************************************************)
Look ==
  /\ poller.pc \in {"getPackage", "getBuild"} /\ poller.seen = Unset
  /\ poller' = [poller EXCEPT !.seen = subject.state]
  /\ UNCHANGED <<now, subject, timer, deadline>>

PollCallFails ==
  /\ poller.pc \in PackageCalls \cup BuildCalls
  /\ Enter("failed", Unset)
  /\ UNCHANGED <<now, subject, timer, deadline>>

Settle ==
  /\ subject.state = "pending" /\ poller.pc \in PackagePcs \cup BuildPcs
  /\ \E s \in {"ready", "failed"} : subject' = [state |-> s, at |-> now]
  /\ UNCHANGED <<now, poller, timer, deadline>>

Waits ==
  CASE poller.pc \in PackageCalls \cup BuildCalls -> now < poller.since + Latency
    [] In("sleep")  -> now < poller.since + Second
    [] In("select") -> ~Fired(timer) /\ ~Fired(deadline)
    [] OTHER        -> FALSE

StagingTick ==
  /\ Waits
  /\ poller.pc \in PackagePcs /\ subject.state = "pending" => now < PackageTime
  /\ now' = now + 1
  /\ UNCHANGED <<subject, poller, timer, deadline>>

StagingNext ==
  \/ PackageReply \/ LookAgain
  \/ OpenSession \/ PollBuild \/ TimeOut \/ BuildReply \/ DropletReply
  \/ Look \/ PollCallFails \/ Settle \/ StagingTick

StagingSpec == StagingInit /\ [][StagingNext]_stagingVars

-----------------------------------------------------------------------------
(* What the polls promise. *)

Settled == subject.state # "pending"

\* The package's poll has no timeout (poll_package.go:24): it goes on as long
\* as the CC works, and ends soon after, although it decides on what a call
\* made a while ago has seen.
PackagePollEnds ==
  poller.pc \in PackagePcs /\ Settled =>
    now <= subject.at + Second + 2 * Latency

\* "staging timed out" (poll_build.go:63-64) is said no earlier than the
\* timeout, and of a build that was settled too late for any look: the timeout
\* can be chosen over a look that is due.
TimeoutHonest ==
  In("timedOut") =>
    /\ now >= Timeout
    /\ Settled => now <= subject.at + Latency + Interval

\* However looks and the timeout interleave, pollBuild ends: at the latest a
\* look begun just before the timeout and the call for the droplet have to
\* return (poll_build.go:27-66).
BuildPollEnds ==
  poller.pc \in BuildPcs => now <= Max({Timeout, Latency}) + 2 * Latency
=============================================================================
