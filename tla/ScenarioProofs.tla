---------------------------- MODULE ScenarioProofs ----------------------------
(***************************************************************************)
(* Proof that in three of the scenarios of MCScenarios ("short", in which  *)
(* a thread may be missing, is not one of them) the report is complete.    *)
(* A scenario is Lifecycle with constants of its own: ForkP and CloneP are *)
(* RunProofs with those constants, so that what RunProofs says of one step *)
(* of the run can be cited for each scenario.                              *)
(***************************************************************************)
EXTENDS MCScenarios, RunProofs

ForkP == INSTANCE RunProofs WITH
    StatsTimer <- TRUE, SpawnFails <- TRUE, SigintScope <- "monitor", MaxSigint <- 1
CloneP == INSTANCE RunProofs WITH
    ThreadMode <- "clone", StatsTimer <- TRUE, MaxSigint <- 0

\* A step of the scenario "fork" is a step of the run with its constants.
LEMMA ForkSteps ==
  /\ Fork!MonitorStep => ForkP!MonitorStep
  /\ \A n \in Threads : Fork!Child(n) => ForkP!Child(n)
  /\ \A s \in Sigs : Fork!Deliver(s) => ForkP!Deliver(s)
  /\ (Fork!Tick => ForkP!Tick) /\ (Fork!Advance => ForkP!Advance)
  /\ Fork!SendSigint => ForkP!SendSigint
<1> USE DEF
      Fork!At, ForkP!At, Fork!cur, ForkP!cur, Fork!Goto, ForkP!Goto, Fork!Return,
      ForkP!Return, Fork!Threads, ForkP!Threads, Fork!Unset, ForkP!Unset, Fork!vars,
      ForkP!vars, Fork!runVars, ForkP!runVars, Fork!monVars, ForkP!monVars, Fork!sigVars,
      ForkP!sigVars, Fork!kidVars, ForkP!kidVars, Fork!envVars, ForkP!envVars
<1>1. Fork!MainStep => ForkP!MainStep
  BY DEF
      Fork!MainStep, ForkP!MainStep, Fork!Spawn, ForkP!Spawn, Fork!SpawnFail,
      ForkP!SpawnFail, Fork!RecordPid, ForkP!RecordPid, Fork!SetupChildSignals,
      ForkP!SetupChildSignals, Fork!ResetStop, ForkP!ResetStop, Fork!SetupStopHandler,
      ForkP!SetupStopHandler, Fork!WaitReady, ForkP!WaitReady, Fork!SetupMonitorTimer,
      ForkP!SetupMonitorTimer, Fork!StartThreads, ForkP!StartThreads, Fork!ReadStartTime,
      ForkP!ReadStartTime, Fork!SetTimeout, ForkP!SetTimeout, Fork!TestStop, ForkP!TestStop,
      Fork!SigSuspend, ForkP!SigSuspend, Fork!Pid, ForkP!Pid
<1>2. Fork!StopStep => ForkP!StopStep
  BY DEF
      Fork!StopStep, ForkP!StopStep, Fork!StopEnter, ForkP!StopEnter, Fork!StopVisit,
      ForkP!StopVisit, Fork!StopStopTimer, ForkP!StopStopTimer, Fork!StopTimer,
      ForkP!StopTimer, Fork!StopFlag, ForkP!StopFlag, Fork!StopSignal, ForkP!StopSignal,
      Fork!StopWait, ForkP!StopWait, Fork!StopCommCleanup, ForkP!StopCommCleanup,
      Fork!StopFinalStats, ForkP!StopFinalStats, Fork!StopExit, ForkP!StopExit, Fork!Pid,
      ForkP!Pid, Fork!Alive, ForkP!Alive, Fork!LivePlaces, ForkP!LivePlaces,
      Fork!EarlyPlaces, ForkP!EarlyPlaces, Fork!DeadPid, ForkP!DeadPid
<1>3. Fork!IntrStep => ForkP!IntrStep
  BY DEF
      Fork!IntrStep, ForkP!IntrStep, Fork!IntrEnter, ForkP!IntrEnter, Fork!IntrReadTime,
      ForkP!IntrReadTime, Fork!IntrWait4, ForkP!IntrWait4, Fork!IntrStore, ForkP!IntrStore,
      Fork!IntrTimeout, ForkP!IntrTimeout, Fork!TimedOut, ForkP!TimedOut, Fork!Waitable,
      ForkP!Waitable, Fork!Zombies, ForkP!Zombies, Fork!Pid, ForkP!Pid, Fork!Reap,
      ForkP!Reap
<1>4. Fork!ChldStep => ForkP!ChldStep
  BY DEF
      Fork!ChldStep, ForkP!ChldStep, Fork!ChldWait, ForkP!ChldWait, Fork!ChldMark,
      ForkP!ChldMark, Fork!ChldStop, ForkP!ChldStop, Fork!ChldStopTimer,
      ForkP!ChldStopTimer, Fork!StopTimer, ForkP!StopTimer, Fork!WaitTargets,
      ForkP!WaitTargets, Fork!Zombies, ForkP!Zombies, Fork!Pid, ForkP!Pid, Fork!Reap,
      ForkP!Reap, Fork!Matches, ForkP!Matches, Fork!Marked, ForkP!Marked, Fork!DeadPid,
      ForkP!DeadPid
<1>5. \A n \in Threads : Fork!Child(n) => ForkP!Child(n)
  BY DEF
      Fork!Child, ForkP!Child, Fork!ChildSetPid, ForkP!ChildSetPid, Fork!ChildOnParentDeath,
      ForkP!ChildOnParentDeath, Fork!ChildSetupInterruptSignal,
      ForkP!ChildSetupInterruptSignal, Fork!ChildSetAffinity, ForkP!ChildSetAffinity,
      Fork!ChildReady, ForkP!ChildReady, Fork!ChildStart, ForkP!ChildStart,
      Fork!ChildInterrupted, ForkP!ChildInterrupted, Fork!ChildReadSched,
      ForkP!ChildReadSched, Fork!ChildExit, ForkP!ChildExit, Fork!OrphanDies,
      ForkP!OrphanDies, Fork!ChildSigint, ForkP!ChildSigint, Fork!Moves, ForkP!Moves,
      Fork!Die, ForkP!Die, Fork!Alive, ForkP!Alive, Fork!LivePlaces, ForkP!LivePlaces,
      Fork!EarlyPlaces, ForkP!EarlyPlaces, Fork!NoPid, ForkP!NoPid, Fork!Pid, ForkP!Pid
<1>6. \A s \in Sigs : Fork!Deliver(s) => ForkP!Deliver(s)
  BY DEF
      Fork!Deliver, ForkP!Deliver, Fork!Deliverable, ForkP!Deliverable, Fork!SigNumber,
      ForkP!SigNumber, Fork!Entry, ForkP!Entry
<1>7. (Fork!Tick => ForkP!Tick) /\ (Fork!Advance => ForkP!Advance)
  BY DEF Fork!Tick, ForkP!Tick, Fork!Advance, ForkP!Advance
<1>8. Fork!SendSigint => ForkP!SendSigint
  BY DEF Fork!SendSigint, ForkP!SendSigint, Fork!Alive, ForkP!Alive, Fork!LivePlaces, ForkP!LivePlaces,
     Fork!EarlyPlaces, ForkP!EarlyPlaces
<1> QED
  BY <1>1, <1>2, <1>3, <1>4, <1>5, <1>6, <1>7, <1>8 DEF Fork!MonitorStep, ForkP!MonitorStep

\* A step of the scenario "clone" is a step of the run with its constants.
LEMMA CloneSteps ==
  /\ Clone!MonitorStep => CloneP!MonitorStep
  /\ \A n \in Threads : Clone!Child(n) => CloneP!Child(n)
  /\ \A s \in Sigs : Clone!Deliver(s) => CloneP!Deliver(s)
  /\ (Clone!Tick => CloneP!Tick) /\ (Clone!Advance => CloneP!Advance)
  /\ Clone!SendSigint => CloneP!SendSigint
<1> USE DEF
      Clone!At, CloneP!At, Clone!cur, CloneP!cur, Clone!Goto, CloneP!Goto, Clone!Return,
      CloneP!Return, Clone!Threads, CloneP!Threads, Clone!Unset, CloneP!Unset, Clone!vars,
      CloneP!vars, Clone!runVars, CloneP!runVars, Clone!monVars, CloneP!monVars,
      Clone!sigVars, CloneP!sigVars, Clone!kidVars, CloneP!kidVars, Clone!envVars,
      CloneP!envVars
<1>1. Clone!MainStep => CloneP!MainStep
  BY DEF
      Clone!MainStep, CloneP!MainStep, Clone!Spawn, CloneP!Spawn, Clone!SpawnFail,
      CloneP!SpawnFail, Clone!RecordPid, CloneP!RecordPid, Clone!SetupChildSignals,
      CloneP!SetupChildSignals, Clone!ResetStop, CloneP!ResetStop, Clone!SetupStopHandler,
      CloneP!SetupStopHandler, Clone!WaitReady, CloneP!WaitReady, Clone!SetupMonitorTimer,
      CloneP!SetupMonitorTimer, Clone!StartThreads, CloneP!StartThreads,
      Clone!ReadStartTime, CloneP!ReadStartTime, Clone!SetTimeout, CloneP!SetTimeout,
      Clone!TestStop, CloneP!TestStop, Clone!SigSuspend, CloneP!SigSuspend, Clone!Pid,
      CloneP!Pid
<1>2. Clone!StopStep => CloneP!StopStep
  BY DEF
      Clone!StopStep, CloneP!StopStep, Clone!StopEnter, CloneP!StopEnter, Clone!StopVisit,
      CloneP!StopVisit, Clone!StopStopTimer, CloneP!StopStopTimer, Clone!StopTimer,
      CloneP!StopTimer, Clone!StopFlag, CloneP!StopFlag, Clone!StopSignal,
      CloneP!StopSignal, Clone!StopWait, CloneP!StopWait, Clone!StopCommCleanup,
      CloneP!StopCommCleanup, Clone!StopFinalStats, CloneP!StopFinalStats, Clone!StopExit,
      CloneP!StopExit, Clone!Pid, CloneP!Pid, Clone!Alive, CloneP!Alive, Clone!LivePlaces,
      CloneP!LivePlaces, Clone!EarlyPlaces, CloneP!EarlyPlaces, Clone!DeadPid,
      CloneP!DeadPid
<1>3. Clone!IntrStep => CloneP!IntrStep
  BY DEF
      Clone!IntrStep, CloneP!IntrStep, Clone!IntrEnter, CloneP!IntrEnter,
      Clone!IntrReadTime, CloneP!IntrReadTime, Clone!IntrWait4, CloneP!IntrWait4,
      Clone!IntrStore, CloneP!IntrStore, Clone!IntrTimeout, CloneP!IntrTimeout,
      Clone!TimedOut, CloneP!TimedOut, Clone!Waitable, CloneP!Waitable, Clone!Zombies,
      CloneP!Zombies, Clone!Pid, CloneP!Pid, Clone!Reap, CloneP!Reap
<1>4. Clone!ChldStep => CloneP!ChldStep
  BY DEF
      Clone!ChldStep, CloneP!ChldStep, Clone!ChldWait, CloneP!ChldWait, Clone!ChldMark,
      CloneP!ChldMark, Clone!ChldStop, CloneP!ChldStop, Clone!ChldStopTimer,
      CloneP!ChldStopTimer, Clone!StopTimer, CloneP!StopTimer, Clone!WaitTargets,
      CloneP!WaitTargets, Clone!Zombies, CloneP!Zombies, Clone!Pid, CloneP!Pid, Clone!Reap,
      CloneP!Reap, Clone!Matches, CloneP!Matches, Clone!Marked, CloneP!Marked,
      Clone!DeadPid, CloneP!DeadPid
<1>5. \A n \in Threads : Clone!Child(n) => CloneP!Child(n)
  BY DEF
      Clone!Child, CloneP!Child, Clone!ChildSetPid, CloneP!ChildSetPid,
      Clone!ChildOnParentDeath, CloneP!ChildOnParentDeath, Clone!ChildSetupInterruptSignal,
      CloneP!ChildSetupInterruptSignal, Clone!ChildSetAffinity, CloneP!ChildSetAffinity,
      Clone!ChildReady, CloneP!ChildReady, Clone!ChildStart, CloneP!ChildStart,
      Clone!ChildInterrupted, CloneP!ChildInterrupted, Clone!ChildReadSched,
      CloneP!ChildReadSched, Clone!ChildExit, CloneP!ChildExit, Clone!OrphanDies,
      CloneP!OrphanDies, Clone!ChildSigint, CloneP!ChildSigint, Clone!Moves, CloneP!Moves,
      Clone!Die, CloneP!Die, Clone!Alive, CloneP!Alive, Clone!LivePlaces, CloneP!LivePlaces,
      Clone!EarlyPlaces, CloneP!EarlyPlaces, Clone!NoPid, CloneP!NoPid, Clone!Pid,
      CloneP!Pid
<1>6. \A s \in Sigs : Clone!Deliver(s) => CloneP!Deliver(s)
  BY DEF
      Clone!Deliver, CloneP!Deliver, Clone!Deliverable, CloneP!Deliverable, Clone!SigNumber,
      CloneP!SigNumber, Clone!Entry, CloneP!Entry
<1>7. (Clone!Tick => CloneP!Tick) /\ (Clone!Advance => CloneP!Advance)
  BY DEF Clone!Tick, CloneP!Tick, Clone!Advance, CloneP!Advance
<1>8. Clone!SendSigint => CloneP!SendSigint
  BY DEF Clone!SendSigint, CloneP!SendSigint, Clone!Alive, CloneP!Alive, Clone!LivePlaces, CloneP!LivePlaces,
     Clone!EarlyPlaces, CloneP!EarlyPlaces
<1> QED
  BY <1>1, <1>2, <1>3, <1>4, <1>5, <1>6, <1>7, <1>8 DEF Clone!MonitorStep, CloneP!MonitorStep

\* The constants of the scenarios are constants a run can have.
LEMMA ForkConstants ==
  /\ ThreadMode \in {"fork", "clone"}
  /\ Runtime \in Nat
  /\ {TRUE, PromptStart, CleanupExits, TRUE} \subseteq BOOLEAN
  /\ BadCpu \subseteq ForkP!Threads
  /\ "monitor" \in {"monitor", "group"}
  /\ 1 \in Nat
  /\ CrashAt \subseteq ForkP!LivePlaces
  /\ MaxCrash \in Nat
  BY ConstantsAssumption DEF ConstantsAssumption, Threads, ForkP!Threads, LivePlaces,
     ForkP!LivePlaces, EarlyPlaces, ForkP!EarlyPlaces

\* Likewise in the scenario "clone".
LEMMA CloneConstants ==
  /\ "clone" \in {"fork", "clone"}
  /\ Runtime \in Nat
  /\ {TRUE, PromptStart, CleanupExits, SpawnFails} \subseteq BOOLEAN
  /\ BadCpu \subseteq CloneP!Threads
  /\ SigintScope \in {"monitor", "group"}
  /\ 0 \in Nat
  /\ CrashAt \subseteq CloneP!LivePlaces
  /\ MaxCrash \in Nat
  BY ConstantsAssumption DEF ConstantsAssumption, Threads, CloneP!Threads, LivePlaces,
     CloneP!LivePlaces, EarlyPlaces, CloneP!EarlyPlaces

\* The invariant of the scenario that is played.
ScenarioInv ==
    /\ which \in {"ctrlc", "fork", "clone", "short"}
    /\ which = "ctrlc" => ForkInv
    /\ which = "fork" => ForkP!ForkInv
    /\ which = "clone" => CloneP!ClonedInv

\* It holds after init_threads, which is the same for all scenarios.
LEMMA ScenarioInit == AnyInit => ScenarioInv
<1> SUFFICES ASSUME AnyInit PROVE ScenarioInv
  OBVIOUS
<1>1. Init /\ which \in {"ctrlc", "fork", "clone", "short"}
  BY DEF AnyInit
<1>2. ForkP!Init
  BY <1>1 DEF Init, ForkP!Init, Threads, ForkP!Threads, NoPid, ForkP!NoPid, Unset, ForkP!Unset,
     Ctxs, ForkP!Ctxs, Sigs, ForkP!Sigs
<1>3. CloneP!Init
  BY <1>1 DEF Init, CloneP!Init, Threads, CloneP!Threads, NoPid, CloneP!NoPid, Unset,
     CloneP!Unset, Ctxs, CloneP!Ctxs, Sigs, CloneP!Sigs
<1>4. ForkInv
  BY <1>1, ForkInvInit
<1>5. ForkP!ForkInv
  BY <1>2, ForkConstants, ForkP!ForkInvInit
<1>6. CloneP!ClonedInv
  BY <1>3, CloneConstants, CloneP!ClonedInvInit
<1> QED
  BY <1>1, <1>4, <1>5, <1>6 DEF ScenarioInv

\* Every step is one of the scenario that is played, and preserves its
\* invariant.
LEMMA ScenarioNext ==
  ASSUME ThreadMode = "fork", BadCpu = {}, CrashAt \subseteq {"play", "intr", "exit"},
         ScenarioInv, [AnyNext]_anyVars
  PROVE  ScenarioInv'
<1>1. which' = which
  BY DEF AnyNext, AnyMonitorStep, AnyChild, AnyDeliver, AnyTick, AnyAdvance, AnySendSigint, In,
     AnyWait, anyVars
<1>2. CASE which = "ctrlc"
  <2>1. [Next]_vars
    BY <1>2 DEF AnyNext, AnyMonitorStep, AnyChild, AnyDeliver, AnyTick, AnyAdvance,
       AnySendSigint, AnyWait, In, anyVars, Next
  <2> QED
    BY <1>1, <1>2, <2>1, ForkInvNext DEF ScenarioInv
<1>3. CASE which = "fork"
  <2>1. \/ Fork!MonitorStep \/ (\E n \in Threads : Fork!Child(n))
        \/ (\E s \in Sigs : Fork!Deliver(s))
        \/ Fork!Tick \/ Fork!Advance \/ Fork!SendSigint \/ UNCHANGED vars
    BY <1>3 DEF AnyNext, AnyMonitorStep, AnyChild, AnyDeliver, AnyTick, AnyAdvance,
       AnySendSigint, AnyWait, In, anyVars, Over
  <2>2. \/ ForkP!MonitorStep \/ (\E n \in Threads : ForkP!Child(n))
        \/ (\E s \in Sigs : ForkP!Deliver(s))
        \/ ForkP!Tick \/ ForkP!Advance \/ ForkP!SendSigint \/ UNCHANGED vars
    BY <2>1, ForkSteps
  <2>3. Threads = ForkP!Threads /\ Sigs = ForkP!Sigs
    BY DEF Threads, ForkP!Threads, Sigs, ForkP!Sigs
  <2>4. UNCHANGED vars => UNCHANGED ForkP!vars
    BY DEF vars, runVars, monVars, sigVars, kidVars, envVars, ForkP!vars, ForkP!runVars,
       ForkP!monVars, ForkP!sigVars, ForkP!kidVars, ForkP!envVars
  <2>5. [ForkP!Next]_(ForkP!vars)
    BY <2>2, <2>3, <2>4 DEF ForkP!Next
  <2>6. ForkP!ForkInv'
    BY <1>3, <2>5, ForkConstants, ForkP!ForkInvNext DEF ScenarioInv
  <2> QED
    BY <1>1, <1>3, <2>6 DEF ScenarioInv
<1>4. CASE which = "clone"
  <2>1. \/ Clone!MonitorStep \/ (\E n \in Threads : Clone!Child(n))
        \/ (\E s \in Sigs : Clone!Deliver(s))
        \/ Clone!Tick \/ Clone!Advance \/ Clone!SendSigint \/ UNCHANGED vars
    BY <1>4 DEF AnyNext, AnyMonitorStep, AnyChild, AnyDeliver, AnyTick, AnyAdvance,
       AnySendSigint, AnyWait, In, anyVars, Over
  <2>2. \/ CloneP!MonitorStep \/ (\E n \in Threads : CloneP!Child(n))
        \/ (\E s \in Sigs : CloneP!Deliver(s))
        \/ CloneP!Tick \/ CloneP!Advance \/ CloneP!SendSigint \/ UNCHANGED vars
    BY <2>1, CloneSteps
  <2>3. Threads = CloneP!Threads /\ Sigs = CloneP!Sigs
    BY DEF Threads, CloneP!Threads, Sigs, CloneP!Sigs
  <2>4. UNCHANGED vars => UNCHANGED CloneP!vars
    BY DEF vars, runVars, monVars, sigVars, kidVars, envVars, CloneP!vars, CloneP!runVars,
       CloneP!monVars, CloneP!sigVars, CloneP!kidVars, CloneP!envVars
  <2>5. [CloneP!Next]_(CloneP!vars)
    BY <2>2, <2>3, <2>4 DEF CloneP!Next
  <2>6. CloneP!CloneCase
    BY DEF CloneP!CloneCase
  <2>7. CloneP!ClonedInv'
    BY <1>4, <2>5, <2>6, CloneConstants, CloneP!ClonedInvNext DEF ScenarioInv
  <2> QED
    BY <1>1, <1>4, <2>7 DEF ScenarioInv
<1>5. CASE which = "short"
  BY <1>1, <1>5 DEF ScenarioInv
<1> QED
  BY <1>2, <1>3, <1>4, <1>5 DEF ScenarioInv

\* In each scenario the invariant makes the report quiet and complete.
LEMMA ScenarioImplies == ScenarioInv => ReportComplete
<1> SUFFICES ASSUME ScenarioInv PROVE ReportComplete
  OBVIOUS
<1>1. CASE which = "ctrlc"
  BY <1>1, ForkInvImplies DEF ScenarioInv, ReportComplete
<1>2. CASE which = "fork"
  <2>1. ForkP!QuietReport /\ ForkP!SchedComplete
    BY <1>2, ForkConstants, ForkP!ForkInvImplies DEF ScenarioInv
  <2>2. QuietReport
    BY <2>1 DEF QuietReport, ForkP!QuietReport, Reporting, ForkP!Reporting, Threads,
       ForkP!Threads, Ctxs, ForkP!Ctxs, Sigs, ForkP!Sigs
  <2>3. Fork!SchedComplete
    BY <2>1 DEF Fork!SchedComplete, ForkP!SchedComplete, Fork!Reporting, ForkP!Reporting,
       Fork!Threads, ForkP!Threads, Fork!Ctxs, ForkP!Ctxs, Fork!Sigs, ForkP!Sigs
  <2> QED
    BY <1>2, <2>2, <2>3 DEF ReportComplete
<1>3. CASE which = "clone"
  <2>1. CloneP!QuietReport /\ CloneP!SchedComplete
    BY <1>3, CloneConstants, CloneP!ClonedInvImplies DEF ScenarioInv
  <2>2. QuietReport
    BY <2>1 DEF QuietReport, CloneP!QuietReport, Reporting, CloneP!Reporting, Threads,
       CloneP!Threads, Ctxs, CloneP!Ctxs, Sigs, CloneP!Sigs
  <2>3. sigints = 0
    BY <1>3 DEF ScenarioInv, CloneP!ClonedInv, CloneP!StopInv, CloneP!TypeOK
  <2>4. Fork!SchedComplete
    BY <2>1, <2>3 DEF Fork!SchedComplete, CloneP!SchedComplete, Fork!Reporting,
       CloneP!Reporting, Fork!Threads, CloneP!Threads, Fork!Ctxs, CloneP!Ctxs, Fork!Sigs,
       CloneP!Sigs
  <2> QED
    BY <1>3, <2>2, <2>4 DEF ReportComplete
<1>4. CASE which = "short"
  BY <1>4 DEF ReportComplete
<1> QED
  BY <1>1, <1>2, <1>3, <1>4 DEF ScenarioInv

\* stop_handler (threads_monitor.c:97-103) reports over reaped threads, with
\* the scheduling data of both unless ^C took it away: with fork() ended by ^C
\* at the terminal, with fork() ended by the timer or a SIGINT to the monitor
\* and a fork that may fail, and with clone() undisturbed.
THEOREM ReportCompleteHolds ==
  ASSUME ThreadMode = "fork", BadCpu = {}, CrashAt \subseteq {"play", "intr", "exit"}
  PROVE  AnySpec => []ReportComplete
<1>1. AnyInit => ScenarioInv
  BY ScenarioInit
<1>2. ScenarioInv /\ [AnyNext]_anyVars => ScenarioInv'
  BY ScenarioNext
<1>3. ScenarioInv => ReportComplete
  BY ScenarioImplies
<1> QED
  BY <1>1, <1>2, <1>3, PTL DEF AnySpec
===============================================================================
