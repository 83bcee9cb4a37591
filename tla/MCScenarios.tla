----------------------------- MODULE MCScenarios -----------------------------
(***************************************************************************)
(* Runs that nobody kills, in four scenarios of Lifecycle, told apart by  *)
(* the variable which.  "ctrlc", the constants of the configuration: fork  *)
(* mode without timer, so that only ^C at the terminal ends the run.       *)
(* "fork": with the statistics timer, a SIGINT to the monitor, and a fork  *)
(* that may fail.  "clone": clone mode, undisturbed.  "short": clone mode  *)
(* with a clone() that may fail and a SIGINT to the monitor.               *)
(***************************************************************************)
EXTENDS MCLifecycle

VARIABLE which

Fork == INSTANCE Lifecycle WITH
    StatsTimer <- TRUE, SpawnFails <- TRUE, SigintScope <- "monitor", MaxSigint <- 1
Clone == INSTANCE Lifecycle WITH
    ThreadMode <- "clone", StatsTimer <- TRUE, MaxSigint <- 0
Short == INSTANCE Lifecycle WITH
    ThreadMode <- "clone", SpawnFails <- TRUE, SigintScope <- "monitor", MaxSigint <- 1

\* The action of the scenario that is played
In(ctrlc, fork, clone, short) ==
    /\ \/ which = "ctrlc" /\ ctrlc
       \/ which = "fork" /\ fork
       \/ which = "clone" /\ clone
       \/ which = "short" /\ short
    /\ UNCHANGED which

AnyMonitorStep == In(MonitorStep, Fork!MonitorStep, Clone!MonitorStep, Short!MonitorStep)
AnyChild(n) == In(Child(n), Fork!Child(n), Clone!Child(n), Short!Child(n))
AnyDeliver(s) == In(Deliver(s), Fork!Deliver(s), Clone!Deliver(s), Short!Deliver(s))
AnyTick == In(Tick, Fork!Tick, Clone!Tick, Short!Tick)
AnyAdvance == In(Advance, Fork!Advance, Clone!Advance, Short!Advance)
AnySendSigint == In(SendSigint, Fork!SendSigint, Clone!SendSigint, Short!SendSigint)

AnyInit == which \in {"ctrlc", "fork", "clone", "short"} /\ Init

\* A run that lacks a thread has nothing left to do but to look at ready again
\* (threads_monitor.c:206), with stop_handler waiting above it after a SIGINT.
AnyWait == which = "short" /\ pc["main"] = "ready_wait" /\ UNCHANGED <<vars, which>>

AnyNext ==
    \/ AnyMonitorStep
    \/ \E n \in Threads : AnyChild(n)
    \/ \E s \in Sigs : AnyDeliver(s)
    \/ AnyTick \/ AnyAdvance \/ AnySendSigint
    \/ AnyWait
    \/ Over /\ UNCHANGED which

anyVars == <<vars, which>>

\* Fairness of Lifecycle, for each scenario
AnyFairness ==
    /\ \A c \in Ctxs : SF_anyVars(AnyMonitorStep /\ cur = c)
    /\ \A n \in Threads : WF_anyVars(AnyChild(n))
    /\ \A s \in Sigs : WF_anyVars(AnyDeliver(s))
    /\ WF_anyVars(AnyTick) /\ WF_anyVars(AnyAdvance)

AnySpec == AnyInit /\ [][AnyNext]_anyVars /\ AnyFairness

-----------------------------------------------------------------------------

\* When stop_handler removes the transport and prints the totals, both threads
\* have been reaped (threads_monitor.c:97-103) and output_final_stats finds the
\* scheduling data of both; ^C, which reaches the threads too, may take that
\* away.  A SIGINT in clone mode may find a thread without its pid, so "short"
\* is left out.
ReportComplete ==
    which # "short" =>
        QuietReport /\ (IF which = "ctrlc" THEN SchedComplete ELSE Fork!SchedComplete)

\* "should stop by this time": with the statistics timer the monitor ends, in
\* fork and in clone mode; without it a SIGINT ends the run, whichever
\* statement of the monitor, of its handlers or of the threads it arrives at.
\* A monitor that waits for a thread it could not clone does not end.
RunEnds ==
    which \in {"fork", "clone"} \/ (which = "ctrlc" /\ sigints > 0)
        ~> mon # "running"
=============================================================================
