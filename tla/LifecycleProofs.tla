--------------------------- MODULE LifecycleProofs ---------------------------
(***************************************************************************)
(* Proofs about Lifecycle for every value of its constants: its types and  *)
(* the nested handlers of the monitor.                                     *)
(***************************************************************************)
EXTENDS Lifecycle, SequenceTheorems, TLAPS

USE DEF vars, runVars, monVars, sigVars, kidVars, envVars

-----------------------------------------------------------------------------
\* Type correctness

\* The state init_threads leaves is well-typed.
LEMMA InitTypeOK == Init => TypeOK
<1> SUFFICES ASSUME Init PROVE TypeOK
  OBVIOUS
<1>1. stack \in Seq(Ctxs)
  BY DEF Init, Ctxs
<1>2. pc \in [Ctxs -> Labels]
  BY DEF Init, Labels, MainLabels
<1>3. /\ lastStats \in Unset..Runtime /\ now \in Unset..Runtime /\ age \in Unset..Runtime
      /\ sigints \in 0..MaxSigint /\ crashes \in 0..MaxCrash
  BY ConstantsAssumption DEF Init, Unset, ConstantsAssumption
<1> QED
  BY <1>1, <1>2, <1>3 DEF Init, TypeOK, Places

\* So is what a step of a thread leaves ...
LEMMA ChildTypeOK ==
  ASSUME TypeOK, NEW n \in Threads, Child(n)
  PROVE  TypeOK'
<1> USE DEF TypeOK, Moves
<1>1. CASE ChildSetPid(n)
  BY <1>1 DEF ChildSetPid, Places, LivePlaces, EarlyPlaces, Threads, Pid
<1>2. CASE ChildOnParentDeath(n)
  BY <1>2 DEF ChildOnParentDeath, Places, LivePlaces, EarlyPlaces
<1>3. CASE ChildSetupInterruptSignal(n)
  BY <1>3 DEF ChildSetupInterruptSignal, Places, LivePlaces
<1>4. CASE ChildSetAffinity(n)
  <2>1. CASE n \in BadCpu
    <3>1. Die(n) /\ UNCHANGED <<runVars, monVars, disp, armed, envVars>>
      BY <1>4, <2>1 DEF ChildSetAffinity
    <3> QED
      BY <3>1 DEF Die, Places, Sigs
  <2>2. CASE n \notin BadCpu
    BY <1>4, <2>2 DEF ChildSetAffinity, Places, LivePlaces
  <2> QED
    BY <2>1, <2>2
<1>5. CASE ChildReady(n)
  BY <1>5 DEF ChildReady, Places, LivePlaces
<1>6. CASE ChildStart(n)
  BY <1>6 DEF ChildStart, Places, LivePlaces
<1>7. CASE ChildInterrupted(n)
  <2>1. CASE cpc[n] \in EarlyPlaces
    <3>1. Die(n) /\ UNCHANGED <<runVars, monVars, disp, armed, envVars>>
      BY <1>7, <2>1 DEF ChildInterrupted
    <3> QED
      BY <3>1 DEF Die, Places, Sigs
  <2>2. CASE cpc[n] \notin EarlyPlaces
    <3>1. /\ usr' = [usr EXCEPT ![n] = FALSE]
          /\ cpc' = [cpc EXCEPT ![n] = IF stop THEN "intr" ELSE cpc[n]]
          /\ UNCHANGED <<runVars, monVars, sigVars, pdeath, kint, envVars>>
      BY <1>7, <2>2 DEF ChildInterrupted
    <3>2. cpc' \in [Threads -> Places]
      BY <3>1 DEF Places, LivePlaces
    <3> QED
      BY <3>1, <3>2
  <2> QED
    BY <2>1, <2>2
<1>8. CASE ChildReadSched(n)
  BY <1>8 DEF ChildReadSched, Places, LivePlaces
<1>9. CASE ChildExit(n)
  BY <1>9 DEF ChildExit, Die, Places, Sigs
<1>10. CASE OrphanDies(n)
  BY <1>10 DEF OrphanDies, Die, Places, Sigs
<1>11. CASE ChildSigint(n)
  BY <1>11 DEF ChildSigint, Die, Places, Sigs
<1> QED
  BY <1>1, <1>2, <1>3, <1>4, <1>5, <1>6, <1>7, <1>8, <1>9, <1>10, <1>11 DEF Child

\* ... what moving on to a known label leaves of the call stack ...
LEMMA GotoType ==
  ASSUME TypeOK, NEW l \in Labels, Goto(l)
  PROVE  pc' \in [Ctxs -> Labels] /\ stack' \in Seq(Ctxs)
  BY DEF TypeOK, Goto

\* ... and what returning from a handler leaves of it.
LEMMA ReturnType ==
  ASSUME TypeOK, Return
  PROVE  /\ pc' \in [Ctxs -> Labels] /\ stack' \in Seq(Ctxs)
         /\ mon' \in {"running", "ok", "failed", "killed"}
<1>1. CASE cur = "main"
  BY <1>1 DEF TypeOK, Return
<1>2. CASE cur # "main"
  <2>1. stack' = SubSeq(stack, 1, Len(stack) - 1) /\ pc' = [pc EXCEPT ![cur] = "idle"]
        /\ mon' = mon
    BY <1>2 DEF Return
  <2>2. "idle" \in Labels
    BY DEF Labels
  <2>3. Len(stack) \in Nat /\ \A i \in 1..Len(stack) - 1 : stack[i] \in Ctxs
    BY DEF TypeOK
  <2>4. SubSeq(stack, 1, Len(stack) - 1) \in Seq(Ctxs)
    BY <2>3, SubSeqProperties
  <2> QED
    BY <2>1, <2>2, <2>4 DEF TypeOK
<1> QED
  BY <1>1, <1>2

\* The labels that the actions of the monitor go to.
LEMMA MainLabelFacts ==
  /\ "pid0" \in Labels /\ "spawn1" \in Labels /\ "pid1" \in Labels
  /\ "chld_sig" \in Labels /\ "stop_false" \in Labels /\ "int_sig" \in Labels
  /\ "ready_wait" \in Labels /\ "timer" \in Labels /\ "start" \in Labels
  /\ "times" \in Labels /\ "timeout" \in Labels /\ "loop" \in Labels
  /\ "suspend" \in Labels /\ "suspended" \in Labels
  BY DEF Labels, MainLabels

\* The labels that the actions of the handlers go to.
LEMMA HandlerLabelFacts ==
  /\ "sh_enter" \in Labels /\ "sh_visit" \in Labels /\ "sh_timer" \in Labels
  /\ "sh_stop" \in Labels /\ "sh_kill0" \in Labels /\ "sh_kill1" \in Labels
  /\ "sh_wait" \in Labels /\ "sh_cleanup" \in Labels /\ "sh_final" \in Labels
  /\ "sh_exit" \in Labels /\ "mi_enter" \in Labels /\ "mi_time" \in Labels
  /\ "mi_wait0" \in Labels /\ "mi_wait1" \in Labels /\ "mi_store" \in Labels
  /\ "mi_timeout" \in Labels /\ "ch_wait" \in Labels /\ "ch_mark" \in Labels
  /\ "ch_stop" \in Labels /\ "ch_timer" \in Labels
  BY DEF Labels, StopLabels, StoppingLabels, IntrLabels, ChldLabels

\* The statements of start_threads and do_monitor_work keep the types,
LEMMA MainTypeOK ==
  ASSUME TypeOK, MainStep
  PROVE  TypeOK'
<1> USE GotoType, MainLabelFacts
<1>1. ASSUME NEW n \in Threads, Spawn(n) PROVE TypeOK'
  BY <1>1 DEF Spawn, TypeOK, Places, LivePlaces, EarlyPlaces
<1>2. ASSUME NEW n \in Threads, SpawnFail(n) PROVE TypeOK'
  BY <1>2 DEF SpawnFail, TypeOK
<1>3. ASSUME NEW n \in Threads, RecordPid(n) PROVE TypeOK'
  BY <1>3 DEF RecordPid, TypeOK, Threads
<1>4. CASE SetupChildSignals
  BY <1>4 DEF SetupChildSignals, TypeOK, Sigs
<1>5. CASE ResetStop
  BY <1>5 DEF ResetStop, TypeOK
<1>6. CASE SetupStopHandler
  BY <1>6 DEF SetupStopHandler, TypeOK, Sigs
<1>7. CASE WaitReady
  BY <1>7 DEF WaitReady, TypeOK
<1>8. CASE SetupMonitorTimer
  <2>1. disp' \in [Sigs -> {"dfl", "ign", "handler"}] /\ armed' \in BOOLEAN
    BY <1>8 DEF SetupMonitorTimer, TypeOK
  <2> QED
    BY <1>8, <2>1 DEF SetupMonitorTimer, TypeOK
<1>9. CASE StartThreads
  BY <1>9 DEF StartThreads, TypeOK
<1>10. CASE ReadStartTime
  BY <1>10, ConstantsAssumption DEF ReadStartTime, TypeOK, Unset, ConstantsAssumption
<1>11. CASE SetTimeout
  BY <1>11 DEF SetTimeout, TypeOK
<1>12. CASE TestStop
  BY <1>12, HandlerLabelFacts DEF TestStop, TypeOK
<1>13. CASE SigSuspend
  BY <1>13 DEF SigSuspend, TypeOK
<1> QED
  BY <1>1, <1>2, <1>3, <1>4, <1>5, <1>6, <1>7, <1>8, <1>9, <1>10, <1>11, <1>12,
     <1>13 DEF MainStep

\* as do those of stop_handler,
LEMMA StopTypeOK ==
  ASSUME TypeOK, StopStep
  PROVE  TypeOK'
<1> USE GotoType, HandlerLabelFacts
<1>1. CASE StopEnter
  BY <1>1, ReturnType DEF StopEnter, TypeOK
<1>2. CASE StopVisit
  BY <1>2 DEF StopVisit, TypeOK
<1>3. CASE StopStopTimer
  BY <1>3 DEF StopStopTimer, StopTimer, TypeOK, Sigs
<1>4. CASE StopFlag
  BY <1>4 DEF StopFlag, TypeOK
<1>5. ASSUME NEW n \in Threads, StopSignal(n) PROVE TypeOK'
  BY <1>5 DEF StopSignal, TypeOK
<1>6. CASE StopWait
  BY <1>6 DEF StopWait, TypeOK
<1>7. CASE StopCommCleanup
  BY <1>7 DEF StopCommCleanup, TypeOK
<1>8. CASE StopFinalStats
  BY <1>8 DEF StopFinalStats, TypeOK
<1>9. CASE StopExit
  BY <1>9 DEF StopExit, TypeOK
<1> QED
  BY <1>1, <1>2, <1>3, <1>4, <1>5, <1>6, <1>7, <1>8, <1>9 DEF StopStep

\* those of monitor_interrupt with the statistics it calls,
LEMMA IntrTypeOK ==
  ASSUME TypeOK, IntrStep
  PROVE  TypeOK'
<1> USE GotoType, HandlerLabelFacts
<1>1. CASE IntrEnter
  BY <1>1, ReturnType DEF IntrEnter, TypeOK
<1>2. CASE IntrReadTime
  BY <1>2 DEF IntrReadTime, TypeOK
<1>3. ASSUME NEW n \in Threads, IntrWait4(n) PROVE TypeOK'
  <2>1. cpc' \in [Threads -> Places] /\ UNCHANGED <<pdeath, usr, kint>>
    BY <1>3 DEF IntrWait4, Waitable, Zombies, Reap, TypeOK, Places
  <2> QED
    BY <1>3, <2>1 DEF IntrWait4, TypeOK
<1>4. CASE IntrStore
  BY <1>4 DEF IntrStore, TypeOK
<1>5. CASE IntrTimeout
  <2>1. CASE TimedOut
    BY <1>5, <2>1 DEF IntrTimeout, TypeOK
  <2>2. CASE ~TimedOut
    <3>1. Return /\ inInterrupt' = FALSE
      BY <1>5, <2>2 DEF IntrTimeout
    <3> QED
      BY <1>5, <3>1, ReturnType DEF IntrTimeout, TypeOK
  <2> QED
    BY <2>1, <2>2
<1> QED
  BY <1>1, <1>2, <1>3, <1>4, <1>5 DEF IntrStep

\* and those of child_handler.
LEMMA ChldTypeOK ==
  ASSUME TypeOK, ChldStep
  PROVE  TypeOK'
<1> USE GotoType, HandlerLabelFacts
<1>1. CASE ChldWait
  <2>1. cpc' \in [Threads -> Places] /\ UNCHANGED <<pdeath, usr, kint>>
    BY <1>1 DEF ChldWait, Zombies, Reap, TypeOK, Places
  <2>2. wres' \in {0, Pid(0), Pid(1)}
    BY <1>1 DEF ChldWait, Zombies, TypeOK, Threads
  <2>3. \/ Return
        \/ Goto("ch_mark") /\ UNCHANGED mon
    BY <1>1 DEF ChldWait
  <2> QED
    BY <1>1, <2>1, <2>2, <2>3, ReturnType DEF ChldWait, TypeOK
<1>2. CASE ChldMark
  <2>1. pid' \in [Threads -> {NoPid, DeadPid, Pid(0), Pid(1)}]
    BY <1>2 DEF ChldMark, TypeOK
  <2>2. \/ Return
        \/ Goto("ch_stop") /\ UNCHANGED mon
        \/ Goto("ch_wait") /\ UNCHANGED mon
    BY <1>2 DEF ChldMark
  <2> QED
    BY <1>2, <2>1, <2>2, ReturnType DEF ChldMark, TypeOK
<1>3. CASE ChldStop
  BY <1>3 DEF ChldStop, TypeOK
<1>4. CASE ChldStopTimer
  BY <1>4 DEF ChldStopTimer, StopTimer, TypeOK, Sigs
<1> QED
  BY <1>1, <1>2, <1>3, <1>4 DEF ChldStep

\* Every step keeps the types, the steps of the environment included.
LEMMA NextTypeOK == TypeOK /\ [Next]_vars => TypeOK'
<1> SUFFICES ASSUME TypeOK, [Next]_vars PROVE TypeOK'
  OBVIOUS
<1>1. CASE MonitorStep
  BY <1>1, MainTypeOK, StopTypeOK, IntrTypeOK, ChldTypeOK DEF MonitorStep
<1>2. ASSUME NEW n \in Threads, Child(n) PROVE TypeOK'
  BY <1>2, ChildTypeOK
<1>3. ASSUME NEW s \in Sigs, Deliver(s) PROVE TypeOK'
  <2>1. Entry(s) \in Labels
    BY HandlerLabelFacts DEF Entry, Sigs
  <2>2. pc' \in [Ctxs -> Labels]
    BY <1>3, <2>1, MainLabelFacts DEF Deliver, TypeOK
  <2>3. stack' \in Seq(Ctxs)
    BY <1>3 DEF Deliver, TypeOK, Ctxs
  <2> QED
    BY <1>3, <2>2, <2>3 DEF Deliver, TypeOK
<1>4. CASE Tick
  BY <1>4 DEF Tick, TypeOK, Sigs
<1>5. CASE Advance
  BY <1>5, ConstantsAssumption DEF Advance, TypeOK, Unset, ConstantsAssumption
<1>6. CASE SendSigint
  <2>1. sigints' \in 0..MaxSigint
    BY <1>6, ConstantsAssumption DEF SendSigint, TypeOK, ConstantsAssumption
  <2>2. kint' \in [Threads -> BOOLEAN]
    BY <1>6 DEF SendSigint, TypeOK
  <2>3. pend' \subseteq Sigs /\ mon' \in {"running", "ok", "failed", "killed"}
    BY <1>6 DEF SendSigint, TypeOK, Sigs
  <2> QED
    BY <1>6, <2>1, <2>2, <2>3 DEF SendSigint, TypeOK
<1>7. ASSUME NEW n \in Threads, Crash(n) PROVE TypeOK'
  <2>1. crashes' \in 0..MaxCrash
    BY <1>7, ConstantsAssumption DEF Crash, TypeOK, ConstantsAssumption
  <2> QED
    BY <1>7, <2>1 DEF Crash, Die, TypeOK, Places, Sigs
<1>8. CASE UNCHANGED vars
  BY <1>8 DEF TypeOK
<1> QED
  BY <1>1, <1>2, <1>3, <1>4, <1>5, <1>6, <1>7, <1>8 DEF Next, Over

\* Every variable keeps its type, for every value of the constants: every
\* program counter of the monitor stays at a label of threads_monitor.c, every
\* pid in thread_info is 0, -1 or one the kernel gave out, and the recorded
\* times never pass the end of the run.
THEOREM TypeCorrect == Spec => []TypeOK
<1>1. Init => TypeOK
  BY InitTypeOK
<1>2. TypeOK /\ [Next]_vars => TypeOK'
  BY NextTypeOK
<1> QED
  BY <1>1, <1>2, PTL DEF Spec

-----------------------------------------------------------------------------
\* The nested handlers of the monitor

\* A step of the running context from its label to l: it stays within the
\* code of its function (or calls stop_handler), passes `visited' only when
\* it is clear, and sets it on the way.
Jump(l) ==
    /\ Goto(l) /\ mon = "running"
    /\ \/ pc[cur] \in MainLabels /\ l \in MainLabels \cup {"sh_enter"}
       \/ pc[cur] = "sh_enter" /\ l = "sh_visit" /\ ~visited
       \/ pc[cur] = "sh_visit" /\ l = "sh_timer" /\ visited'
       \/ pc[cur] = "sh_timer" /\ l = "sh_stop" /\ disp'["ALRM"] # "handler"
       \/ pc[cur] \in StoppingLabels \ {"sh_timer"} /\ l \in StoppingLabels \ {"sh_timer"}
       \/ pc[cur] \in IntrLabels /\ l \in IntrLabels \cup {"sh_enter"}
       \/ pc[cur] \in ChldLabels /\ l \in ChldLabels

Pop ==
    /\ stack' = SubSeq(stack, 1, Len(stack) - 1)
    /\ pc' = [pc EXCEPT ![cur] = "idle"]
    /\ cur # "main"

Push(s) ==
    /\ disp[s] = "handler" /\ pc[s] = "idle"
    /\ stack' = Append(stack, s)
    /\ pc' = [pc EXCEPT ![cur] = IF @ = "suspended" THEN "loop" ELSE @, ![s] = Entry(s)]

\* Nothing re-arms the statistics timer but setup_monitor_timer.
TimerStays == disp["ALRM"] # "handler" => disp'["ALRM"] # "handler" \/ At("timer")

Shape ==
    /\ visited => visited'
    /\ TimerStays
    /\ \/ UNCHANGED <<stack, pc>>
       \/ \E l \in Labels : Jump(l)
       \/ Pop
       \/ \E s \in Sigs : Push(s)

\* A handler that returns leaves the stack, main that returns leaves it alone.
LEMMA ReturnShape ==
  ASSUME Return
  PROVE  UNCHANGED <<stack, pc>> \/ Pop
  BY DEF Return, Pop

\* do_monitor_work moves within its own labels or calls stop_handler.
LEMMA MainShape ==
  ASSUME TypeOK, MainStep
  PROVE  Shape
<1> USE MainLabelFacts DEF Shape, TimerStays, At
<1>1. ASSUME NEW n \in Threads, Spawn(n) PROVE Shape
  <2>1. \E l \in Labels : Jump(l)
    BY <1>1 DEF Spawn, Jump, MainLabels
  <2> QED
    BY <1>1, <2>1 DEF Spawn
<1>2. ASSUME NEW n \in Threads, SpawnFail(n) PROVE Shape
  <2>1. UNCHANGED <<stack, pc>> \/ \E l \in Labels : Jump(l)
    BY <1>2 DEF SpawnFail, Jump, MainLabels
  <2> QED
    BY <1>2, <2>1 DEF SpawnFail
<1>3. ASSUME NEW n \in Threads, RecordPid(n) PROVE Shape
  <2>1. \E l \in Labels : Jump(l)
    BY <1>3 DEF RecordPid, Jump, MainLabels
  <2> QED
    BY <1>3, <2>1 DEF RecordPid
<1>4. CASE SetupChildSignals
  BY <1>4 DEF SetupChildSignals, Jump, MainLabels, TypeOK, Sigs
<1>5. CASE ResetStop
  BY <1>5 DEF ResetStop, Jump, MainLabels
<1>6. CASE SetupStopHandler
  BY <1>6 DEF SetupStopHandler, Jump, MainLabels, TypeOK, Sigs
<1>7. CASE WaitReady
  BY <1>7 DEF WaitReady, Jump, MainLabels
<1>8. CASE SetupMonitorTimer
  BY <1>8 DEF SetupMonitorTimer, Jump, MainLabels
<1>9. CASE StartThreads
  BY <1>9 DEF StartThreads, Jump, MainLabels
<1>10. CASE ReadStartTime
  BY <1>10 DEF ReadStartTime, Jump, MainLabels
<1>11. CASE SetTimeout
  BY <1>11 DEF SetTimeout, Jump, MainLabels
<1>12. CASE TestStop
  <2>1. \E l \in Labels : Jump(l)
    BY <1>12, HandlerLabelFacts DEF TestStop, Jump, MainLabels
  <2> QED
    BY <1>12, <2>1 DEF TestStop
<1>13. CASE SigSuspend
  BY <1>13 DEF SigSuspend, Jump, MainLabels
<1> QED
  BY <1>1, <1>2, <1>3, <1>4, <1>5, <1>6, <1>7, <1>8, <1>9, <1>10, <1>11, <1>12,
     <1>13 DEF MainStep

\* stop_handler moves through its labels in order, past `visited' once.
LEMMA StopShape ==
  ASSUME TypeOK, StopStep
  PROVE  Shape
<1> USE HandlerLabelFacts DEF Shape, TimerStays, At
<1>1. CASE StopEnter
  <2>1. UNCHANGED <<stack, pc>> \/ Pop \/ \E l \in Labels : Jump(l)
    BY <1>1, ReturnShape DEF StopEnter, Jump
  <2> QED
    BY <1>1, <2>1 DEF StopEnter
<1>2. CASE StopVisit
  BY <1>2 DEF StopVisit, Jump
<1>3. CASE StopStopTimer
  <2>1. disp'["ALRM"] # "handler"
    BY <1>3 DEF StopStopTimer, StopTimer, TypeOK, Sigs
  <2> QED
    BY <1>3, <2>1 DEF StopStopTimer, Jump
<1>4. CASE StopFlag
  BY <1>4 DEF StopFlag, Jump, StoppingLabels
<1>5. ASSUME NEW n \in Threads, StopSignal(n) PROVE Shape
  <2>1. \E l \in Labels : Jump(l)
    BY <1>5 DEF StopSignal, Jump, StoppingLabels
  <2> QED
    BY <1>5, <2>1 DEF StopSignal
<1>6. CASE StopWait
  BY <1>6 DEF StopWait, Jump, StoppingLabels
<1>7. CASE StopCommCleanup
  <2>1. UNCHANGED <<stack, pc>> \/ \E l \in Labels : Jump(l)
    BY <1>7 DEF StopCommCleanup, Jump, StoppingLabels
  <2> QED
    BY <1>7, <2>1 DEF StopCommCleanup
<1>8. CASE StopFinalStats
  BY <1>8 DEF StopFinalStats, Jump, StoppingLabels
<1>9. CASE StopExit
  BY <1>9 DEF StopExit
<1> QED
  BY <1>1, <1>2, <1>3, <1>4, <1>5, <1>6, <1>7, <1>8, <1>9 DEF StopStep

\* monitor_interrupt moves within its own labels or calls stop_handler.
LEMMA IntrShape ==
  ASSUME TypeOK, IntrStep
  PROVE  Shape
<1> USE HandlerLabelFacts DEF Shape, TimerStays, At
<1>1. CASE IntrEnter
  <2>1. UNCHANGED <<stack, pc>> \/ Pop \/ \E l \in Labels : Jump(l)
    BY <1>1, ReturnShape DEF IntrEnter, Jump, IntrLabels
  <2> QED
    BY <1>1, <2>1 DEF IntrEnter
<1>2. CASE IntrReadTime
  BY <1>2 DEF IntrReadTime, Jump, IntrLabels
<1>3. ASSUME NEW n \in Threads, IntrWait4(n) PROVE Shape
  <2>1. \E l \in Labels : Jump(l)
    BY <1>3 DEF IntrWait4, Jump, IntrLabels
  <2> QED
    BY <1>3, <2>1 DEF IntrWait4
<1>4. CASE IntrStore
  BY <1>4 DEF IntrStore, Jump, IntrLabels
<1>5. CASE IntrTimeout
  <2>1. UNCHANGED <<stack, pc>> \/ Pop \/ \E l \in Labels : Jump(l)
    BY <1>5, ReturnShape DEF IntrTimeout, Jump, IntrLabels
  <2> QED
    BY <1>5, <2>1 DEF IntrTimeout
<1> QED
  BY <1>1, <1>2, <1>3, <1>4, <1>5 DEF IntrStep

\* child_handler moves within its own labels.
LEMMA ChldShape ==
  ASSUME TypeOK, ChldStep
  PROVE  Shape
<1> USE HandlerLabelFacts DEF Shape, TimerStays, At
<1>1. CASE ChldWait
  <2>1. UNCHANGED <<stack, pc>> \/ Pop \/ \E l \in Labels : Jump(l)
    BY <1>1, ReturnShape DEF ChldWait, Jump, ChldLabels
  <2> QED
    BY <1>1, <2>1 DEF ChldWait
<1>2. CASE ChldMark
  <2>1. UNCHANGED <<stack, pc>> \/ Pop \/ \E l \in Labels : Jump(l)
    BY <1>2, ReturnShape DEF ChldMark, Jump, ChldLabels
  <2> QED
    BY <1>2, <2>1 DEF ChldMark
<1>3. CASE ChldStop
  BY <1>3 DEF ChldStop, Jump, ChldLabels
<1>4. CASE ChldStopTimer
  <2>1. disp'["ALRM"] # "handler"
    BY <1>4 DEF ChldStopTimer, StopTimer, TypeOK, Sigs
  <2> QED
    BY <1>4, <2>1 DEF ChldStopTimer, Jump, ChldLabels
<1> QED
  BY <1>1, <1>2, <1>3, <1>4 DEF ChldStep

\* The threads never touch the monitor's stack.
LEMMA ChildShape ==
  ASSUME TypeOK, NEW n \in Threads, Child(n)
  PROVE  UNCHANGED <<monVars, disp, armed, envVars>>
  BY DEF Child, ChildSetPid, ChildOnParentDeath, ChildSetupInterruptSignal,
     ChildSetAffinity, ChildReady, ChildStart, ChildInterrupted, ChildReadSched,
     ChildExit, OrphanDies, ChildSigint

\* Every step of the system is of one of four kinds as far as the monitor's
\* call stack is concerned.
LEMMA NextShape ==
  ASSUME TypeOK, [Next]_vars
  PROVE  Shape
<1>1. CASE MonitorStep
  BY <1>1, MainShape, StopShape, IntrShape, ChldShape DEF MonitorStep
<1>2. ASSUME NEW n \in Threads, Child(n) PROVE Shape
  BY <1>2, ChildShape DEF Shape, TimerStays
<1>3. ASSUME NEW s \in Sigs, Deliver(s) PROVE Shape
  BY <1>3 DEF Deliver, Deliverable, Shape, TimerStays, Push
<1>4. CASE Tick
  BY <1>4 DEF Tick, Shape, TimerStays
<1>5. CASE Advance
  BY <1>5 DEF Advance, Shape, TimerStays
<1>6. CASE SendSigint
  BY <1>6 DEF SendSigint, Shape, TimerStays
<1>7. ASSUME NEW n \in Threads, Crash(n) PROVE Shape
  BY <1>7 DEF Crash, Shape, TimerStays
<1>8. CASE UNCHANGED vars
  BY <1>8 DEF Shape, TimerStays
<1> QED
  BY <1>1, <1>2, <1>3, <1>4, <1>5, <1>6, <1>7, <1>8 DEF Next, Over

-----------------------------------------------------------------------------
\* The inductive invariant

Disarmed == StoppingLabels \ {"sh_timer"}   \* after stop_timer

\* Each context runs its own code.
CodeOK ==
    /\ pc["main"] \in MainLabels \cup StopLabels
    /\ pc["INT"] \in StopLabels \cup {"idle"}
    /\ pc["ALRM"] \in IntrLabels \cup StopLabels \cup {"idle"}
    /\ pc["CHLD"] \in ChldLabels \cup {"idle"}

\* The stack starts with main and holds each active context once.
StackOK ==
    /\ Len(stack) > 0 /\ stack[1] = "main"
    /\ \A i, j \in 1..Len(stack) : stack[i] = stack[j] => i = j
    /\ \A c \in Ctxs : pc[c] = "idle" <=> \A i \in 1..Len(stack) : stack[i] # c

\* Above a context that has passed `visited' nobody else is past the test of
\* it; after stop_timer no statistics handler is above it, nor will one be.
StopperOK ==
    /\ \A c \in Ctxs : pc[c] \in StoppingLabels => visited
    /\ \A i, j \in 1..Len(stack) : i < j /\ pc[stack[i]] \in StoppingLabels
           => pc[stack[j]] \notin StoppingLabels \cup {"sh_visit"}
    /\ \A c \in Ctxs : pc[c] \in Disarmed => disp["ALRM"] # "handler"
    /\ \A i, j \in 1..Len(stack) : i < j /\ pc[stack[i]] \in Disarmed
           => stack[j] # "ALRM"

StopInv == TypeOK /\ CodeOK /\ StackOK /\ StopperOK

\* The functions of the monitor share no label.
LEMMA LabelsApart ==
  /\ \A l \in MainLabels : l \notin StopLabels /\ l # "idle"
  /\ \A l \in StopLabels : l # "idle"
  /\ \A l \in IntrLabels : l \notin StopLabels /\ l # "idle"
  /\ \A l \in ChldLabels : l \notin StopLabels /\ l \notin IntrLabels /\ l # "idle"
  /\ \A l \in IntrLabels \cup ChldLabels \cup {"idle"} : l \notin MainLabels
  /\ StoppingLabels \subseteq StopLabels /\ "sh_enter" \in StopLabels
  /\ "sh_visit" \in StopLabels /\ "sh_timer" \in StoppingLabels
  /\ "sh_visit" \notin StoppingLabels /\ "sh_enter" \notin StoppingLabels
  /\ "idle" \notin StoppingLabels
<1>1. \A l \in MainLabels : l \notin StopLabels /\ l # "idle"
  BY DEF MainLabels, StopLabels, StoppingLabels
<1>2. \A l \in IntrLabels : l \notin StopLabels /\ l # "idle"
  BY DEF IntrLabels, StopLabels, StoppingLabels
<1>3. \A l \in ChldLabels : l \notin StopLabels /\ l \notin IntrLabels /\ l # "idle"
  BY DEF ChldLabels, IntrLabels, StopLabels, StoppingLabels
<1>4. \A l \in IntrLabels \cup ChldLabels \cup {"idle"} : l \notin MainLabels
  BY DEF IntrLabels, ChldLabels, MainLabels
<1>5. \A l \in StopLabels : l # "idle"
  BY DEF StopLabels, StoppingLabels
<1> QED
  BY <1>1, <1>2, <1>3, <1>4, <1>5 DEF StopLabels, StoppingLabels

\* The running context is an active one.
LEMMA CurFacts ==
  ASSUME TypeOK, StackOK
  PROVE  /\ Len(stack) \in Nat /\ Len(stack) \in 1..Len(stack)
         /\ cur \in Ctxs /\ pc[cur] # "idle"
         /\ \A i \in 1..Len(stack) : stack[i] \in Ctxs
         /\ pc[cur] \in MainLabels /\ CodeOK => cur = "main" /\ Len(stack) = 1
         /\ cur = "main" => Len(stack) = 1
<1>1. Len(stack) \in Nat /\ Len(stack) \in 1..Len(stack) /\ 1 \in 1..Len(stack)
  BY DEF TypeOK, StackOK
<1>2. \A i \in 1..Len(stack) : stack[i] \in Ctxs
  BY DEF TypeOK
<1>3. cur \in Ctxs /\ pc[cur] # "idle"
  BY <1>1, <1>2 DEF cur, StackOK
<1>4. cur = "main" => Len(stack) = 1
  BY <1>1 DEF cur, StackOK
<1>5. pc[cur] \in MainLabels /\ CodeOK => cur = "main"
  BY <1>3, LabelsApart DEF CodeOK, Ctxs, Sigs
<1> QED
  BY <1>1, <1>2, <1>3, <1>4, <1>5

\* What a jump does to the labels and to the timer.
LEMMA JumpFacts ==
  ASSUME NEW l \in Labels, Jump(l)
  PROVE  /\ stack' = stack /\ pc' = [pc EXCEPT ![cur] = l]
         /\ l # "idle"
         /\ l = "sh_visit" => ~visited
         /\ l \in StoppingLabels =>
               pc[cur] \in StoppingLabels \/ (pc[cur] = "sh_visit" /\ visited')
         /\ l \in Disarmed =>
               pc[cur] \in Disarmed \/ (pc[cur] = "sh_timer" /\ disp'["ALRM"] # "handler")
         /\ l \in MainLabels => pc[cur] \in MainLabels
         /\ l \in IntrLabels => pc[cur] \in IntrLabels
         /\ l \in ChldLabels <=> pc[cur] \in ChldLabels
         /\ l \in MainLabels \cup IntrLabels \cup ChldLabels \cup StopLabels
<1>1. stack' = stack /\ pc' = [pc EXCEPT ![cur] = l]
  BY DEF Jump, Goto
<1>2. \/ pc[cur] \in MainLabels /\ l \in MainLabels \cup {"sh_enter"}
      \/ pc[cur] = "sh_enter" /\ l = "sh_visit" /\ ~visited
      \/ pc[cur] = "sh_visit" /\ l = "sh_timer" /\ visited'
      \/ pc[cur] = "sh_timer" /\ l = "sh_stop" /\ disp'["ALRM"] # "handler"
      \/ pc[cur] \in Disarmed /\ l \in Disarmed
      \/ pc[cur] \in IntrLabels /\ l \in IntrLabels \cup {"sh_enter"}
      \/ pc[cur] \in ChldLabels /\ l \in ChldLabels
  BY DEF Jump, Disarmed
<1> QED
  BY <1>1, <1>2 DEF Disarmed, StopLabels, StoppingLabels, MainLabels, IntrLabels, ChldLabels

\* A step within a function preserves the invariant.
LEMMA JumpInv ==
  ASSUME StopInv, TypeOK', NEW l \in Labels, Jump(l), visited => visited', TimerStays
  PROVE  (CodeOK /\ StackOK /\ StopperOK)'
<1>1. cur \in Ctxs /\ pc[cur] # "idle" /\ Len(stack) \in 1..Len(stack)
      /\ Len(stack) \in Nat /\ \A i \in 1..Len(stack) : stack[i] \in Ctxs
  BY CurFacts DEF StopInv
<1>2. stack' = stack /\ pc' = [pc EXCEPT ![cur] = l] /\ pc \in [Ctxs -> Labels]
  BY JumpFacts DEF StopInv, TypeOK
<1>3. CodeOK'
  <2>1. /\ l \in MainLabels => pc[cur] \in MainLabels
        /\ l \in IntrLabels => pc[cur] \in IntrLabels
        /\ l \in ChldLabels <=> pc[cur] \in ChldLabels
        /\ l \in MainLabels \cup IntrLabels \cup ChldLabels \cup StopLabels
    BY JumpFacts
  <2>2. cur = "main" => l \in MainLabels \cup StopLabels
    BY <2>1, LabelsApart DEF StopInv, CodeOK
  <2>3. cur = "INT" => l \in StopLabels
    BY <1>1, <2>1, LabelsApart DEF StopInv, CodeOK
  <2>4. cur = "ALRM" => l \in IntrLabels \cup StopLabels
    BY <1>1, <2>1, LabelsApart DEF StopInv, CodeOK
  <2>5. cur = "CHLD" => l \in ChldLabels
    BY <1>1, <2>1, LabelsApart DEF StopInv, CodeOK
  <2> QED
    BY <1>1, <1>2, <2>2, <2>3, <2>4, <2>5 DEF StopInv, CodeOK, Ctxs, Sigs
<1>4. StackOK'
  BY <1>1, <1>2, JumpFacts DEF StopInv, StackOK
<1>5. \A i \in 1..Len(stack) : pc'[stack[i]] = IF i = Len(stack) THEN l ELSE pc[stack[i]]
  BY <1>1, <1>2 DEF StopInv, StackOK, cur
<1>6. \A c \in Ctxs : pc'[c] \in StoppingLabels => visited'
  BY <1>1, <1>2, JumpFacts DEF StopInv, StopperOK
<1>7. \A i, j \in 1..Len(stack) : i < j /\ pc'[stack[i]] \in StoppingLabels
           => pc'[stack[j]] \notin StoppingLabels \cup {"sh_visit"}
  <2> SUFFICES ASSUME NEW i \in 1..Len(stack), NEW j \in 1..Len(stack), i < j,
                      pc'[stack[i]] \in StoppingLabels
               PROVE  pc'[stack[j]] \notin StoppingLabels \cup {"sh_visit"}
    OBVIOUS
  <2>1. pc[stack[i]] \in StoppingLabels /\ visited
    BY <1>1, <1>5 DEF StopInv, StopperOK
  <2>2. pc[stack[j]] \notin StoppingLabels \cup {"sh_visit"}
    BY <2>1 DEF StopInv, StopperOK
  <2> QED
    BY <1>5, <2>1, <2>2, JumpFacts DEF cur
<1>8. \A c \in Ctxs : pc'[c] \in Disarmed => disp'["ALRM"] # "handler"
  <2> SUFFICES ASSUME NEW c \in Ctxs, pc'[c] \in Disarmed
               PROVE  disp'["ALRM"] # "handler"
    OBVIOUS
  <2>1. CASE pc[cur] \in MainLabels
    <3>1. cur = "main" /\ Len(stack) = 1
      BY <2>1, CurFacts DEF StopInv
    <3>2. c = cur
      BY <1>1, <1>2, <3>1, LabelsApart DEF StopInv, StackOK, cur, Disarmed
    <3> QED
      BY <1>1, <1>2, <2>1, <3>2, JumpFacts, LabelsApart DEF Disarmed
  <2>2. CASE pc[cur] \notin MainLabels
    <3>1. ~At("timer")
      BY <2>2 DEF At, MainLabels
    <3> QED
      BY <1>1, <1>2, <3>1, JumpFacts DEF StopInv, StopperOK, TimerStays
  <2> QED
    BY <2>1, <2>2
<1>9. \A i, j \in 1..Len(stack) : i < j /\ pc'[stack[i]] \in Disarmed
           => stack[j] # "ALRM"
  BY <1>1, <1>5 DEF StopInv, StopperOK
<1>10. StopperOK'
  BY <1>2, <1>6, <1>7, <1>8, <1>9 DEF StopperOK
<1> QED
  BY <1>3, <1>4, <1>10

\* The return of a handler preserves the invariant.
LEMMA PopInv ==
  ASSUME StopInv, TypeOK', Pop, visited => visited', TimerStays
  PROVE  (CodeOK /\ StackOK /\ StopperOK)'
<1> DEFINE top == Len(stack)
<1>1. cur \in Ctxs /\ pc[cur] # "idle" /\ top \in 1..top
      /\ top \in Nat /\ \A i \in 1..top : stack[i] \in Ctxs
  BY CurFacts DEF StopInv
<1>2. pc' = [pc EXCEPT ![cur] = "idle"] /\ pc \in [Ctxs -> Labels] /\ cur # "main"
  BY DEF StopInv, TypeOK, Pop
<1>3. top > 1
  BY <1>1, <1>2 DEF StopInv, StackOK, cur
<1>4. Len(stack') = top - 1 /\ \A i \in 1..top - 1 : stack'[i] = stack[i]
  <2>1. stack' = SubSeq(stack, 1, top - 1) /\ \A i \in 1..top - 1 : stack[i] \in Ctxs
    BY <1>1 DEF Pop
  <2>2. top - 1 \in Int /\ 1 \in Int
    BY <1>1
  <2>3. /\ Len(SubSeq(stack, 1, top - 1)) = IF 1 <= top - 1 THEN (top - 1) - 1 + 1 ELSE 0
        /\ \A i \in 1..(top - 1) - 1 + 1 : SubSeq(stack, 1, top - 1)[i] = stack[1 + i - 1]
    BY <2>1, <2>2, SubSeqProperties
  <2> QED
    BY <1>1, <1>3, <2>1, <2>3
<1>5. \A i \in 1..top - 1 : pc'[stack[i]] = pc[stack[i]] /\ stack[i] # cur
  BY <1>1, <1>2 DEF StopInv, StackOK, cur
<1>6. CodeOK'
  BY <1>1, <1>2 DEF StopInv, CodeOK, Ctxs, Sigs
<1>7. StackOK'
  <2>1. Len(stack') > 0 /\ stack'[1] = "main"
    BY <1>1, <1>3, <1>4 DEF StopInv, StackOK
  <2>2. \A i, j \in 1..Len(stack') : stack'[i] = stack'[j] => i = j
    BY <1>1, <1>4 DEF StopInv, StackOK
  <2>3. ASSUME NEW c \in Ctxs
        PROVE  pc'[c] = "idle" <=> \A i \in 1..Len(stack') : stack'[i] # c
    <3>1. CASE c = cur
      BY <1>1, <1>2, <1>4, <1>5, <3>1
    <3>2. CASE c # cur
      <4>1. pc'[c] = pc[c]
        BY <1>2, <3>2
      <4>2. pc[c] = "idle" <=> \A i \in 1..top : stack[i] # c
        BY DEF StopInv, StackOK
      <4>3. (\A i \in 1..top : stack[i] # c) <=> (\A i \in 1..top - 1 : stack[i] # c)
        BY <1>1, <3>2 DEF cur
      <4> QED
        BY <1>1, <1>4, <4>1, <4>2, <4>3
    <3> QED
      BY <3>1, <3>2
  <2> QED
    BY <2>1, <2>2, <2>3 DEF StackOK
<1>8. \A c \in Ctxs : pc'[c] = pc[c] \/ pc'[c] = "idle"
  BY <1>1, <1>2
<1>9. disp["ALRM"] # "handler" => disp'["ALRM"] # "handler"
  <2>1. ~At("timer")
    BY <1>2, CurFacts DEF At, StopInv, MainLabels
  <2> QED
    BY <2>1 DEF TimerStays
<1>10. "idle" \notin StoppingLabels /\ "idle" \notin Disarmed
  BY LabelsApart DEF Disarmed
<1>11. StopperOK'
  <2>1. \A c \in Ctxs : pc'[c] \in StoppingLabels => visited'
    BY <1>8, <1>10 DEF StopInv, StopperOK
  <2>2. \A c \in Ctxs : pc'[c] \in Disarmed => disp'["ALRM"] # "handler"
    BY <1>8, <1>9, <1>10 DEF StopInv, StopperOK
  <2>3. \A i, j \in 1..Len(stack') : i < j /\ pc'[stack'[i]] \in StoppingLabels
           => pc'[stack'[j]] \notin StoppingLabels \cup {"sh_visit"}
    BY <1>1, <1>4, <1>5 DEF StopInv, StopperOK
  <2>4. \A i, j \in 1..Len(stack') : i < j /\ pc'[stack'[i]] \in Disarmed
           => stack'[j] # "ALRM"
    BY <1>1, <1>4, <1>5 DEF StopInv, StopperOK
  <2> QED
    BY <2>1, <2>2, <2>3, <2>4 DEF StopperOK
<1> QED
  BY <1>6, <1>7, <1>11

\* The delivery of a signal preserves the invariant.
LEMMA PushInv ==
  ASSUME StopInv, TypeOK', NEW s \in Sigs, Push(s), visited => visited', TimerStays
  PROVE  (CodeOK /\ StackOK /\ StopperOK)'
<1> DEFINE top == Len(stack)
<1>1. cur \in Ctxs /\ pc[cur] # "idle" /\ top \in 1..top
      /\ top \in Nat /\ \A i \in 1..top : stack[i] \in Ctxs
  BY CurFacts DEF StopInv
<1>2. s \in Ctxs /\ pc[s] = "idle" /\ cur # s /\ disp[s] = "handler"
  BY <1>1 DEF Push, Ctxs
<1>3. /\ \A c \in Ctxs \ {cur, s} : pc'[c] = pc[c]
      /\ pc'[s] = Entry(s)
      /\ pc'[cur] = IF pc[cur] = "suspended" THEN "loop" ELSE pc[cur]
  BY <1>1, <1>2 DEF StopInv, TypeOK, Push
<1>4. Len(stack') = top + 1 /\ stack'[top + 1] = s /\ \A i \in 1..top : stack'[i] = stack[i]
  BY <1>1, <1>2 DEF StopInv, TypeOK, Push
<1>5. /\ Entry(s) \notin StoppingLabels \cup {"sh_visit"} /\ Entry(s) # "idle"
      /\ Entry("INT") \in StopLabels /\ Entry("ALRM") \in IntrLabels
      /\ Entry("CHLD") \in ChldLabels
  BY DEF Entry, Sigs, StopLabels, StoppingLabels, IntrLabels, ChldLabels
<1>6. pc'[cur] # pc[cur] => pc[cur] \in MainLabels /\ pc'[cur] \in MainLabels
  BY <1>3 DEF MainLabels
<1>7. CodeOK'
  <2>1. pc'["main"] \in MainLabels \cup StopLabels
    BY <1>1, <1>2, <1>3, <1>6, LabelsApart DEF StopInv, CodeOK, Ctxs, Sigs
  <2>2. \A c \in Sigs : c = s \/ pc'[c] = pc[c]
    <3>1. pc'[cur] # pc[cur] => cur = "main"
      BY <1>6, CurFacts DEF StopInv
    <3> QED
      BY <1>3, <3>1 DEF Ctxs, Sigs
  <2> QED
    BY <1>3, <1>5, <2>1, <2>2 DEF StopInv, CodeOK, Sigs
<1>8. StackOK'
  <2>1. \A i \in 1..top : stack[i] # s
    BY <1>2 DEF StopInv, StackOK
  <2>2. Len(stack') > 0 /\ stack'[1] = "main"
    BY <1>1, <1>4 DEF StopInv, StackOK
  <2>3. \A i, j \in 1..Len(stack') : stack'[i] = stack'[j] => i = j
    BY <1>1, <1>4, <2>1 DEF StopInv, StackOK
  <2>4. ASSUME NEW c \in Ctxs
        PROVE  pc'[c] = "idle" <=> \A i \in 1..Len(stack') : stack'[i] # c
    <3>1. CASE c = s
      BY <1>1, <1>3, <1>4, <1>5, <3>1
    <3>2. CASE c # s
      <4>1. pc'[c] = "idle" <=> pc[c] = "idle"
        BY <1>1, <1>3, <3>2
      <4>2. pc[c] = "idle" <=> \A i \in 1..top : stack[i] # c
        BY DEF StopInv, StackOK
      <4>3. (\A i \in 1..Len(stack') : stack'[i] # c) <=> (\A i \in 1..top : stack[i] # c)
        BY <1>1, <1>4, <3>2
      <4> QED
        BY <4>1, <4>2, <4>3
    <3> QED
      BY <3>1, <3>2
  <2> QED
    BY <2>2, <2>3, <2>4 DEF StackOK
<1>9. /\ \A c \in Ctxs : pc'[c] \in StoppingLabels \cup {"sh_visit"} => pc[c] = pc'[c]
      /\ Disarmed \subseteq StoppingLabels
  BY <1>1, <1>3, <1>5, <1>6, LabelsApart DEF Disarmed
<1>10. StopperOK'
  <2>1. \A c \in Ctxs : pc'[c] \in StoppingLabels => visited'
    BY <1>9 DEF StopInv, StopperOK
  <2>2. \A c \in Ctxs : pc'[c] \in Disarmed => disp'["ALRM"] # "handler"
    <3> SUFFICES ASSUME NEW c \in Ctxs, pc'[c] \in Disarmed
                 PROVE  disp'["ALRM"] # "handler"
      OBVIOUS
    <3>1. pc[c] \in Disarmed /\ disp["ALRM"] # "handler"
      BY <1>9 DEF StopInv, StopperOK
    <3>2. ~At("timer")
      <4>1. SUFFICES ASSUME pc[cur] = "timer" PROVE FALSE
        BY DEF At
      <4>2. cur = "main" /\ top = 1
        BY <4>1, CurFacts DEF StopInv, MainLabels
      <4>3. c = "main"
        BY <1>1, <3>1, <4>2, LabelsApart DEF StopInv, StackOK, Disarmed
      <4> QED
        BY <3>1, <4>1, <4>2, <4>3 DEF Disarmed, StoppingLabels
    <3> QED
      BY <3>1, <3>2 DEF TimerStays
  <2>3. ASSUME NEW i \in 1..Len(stack'), NEW j \in 1..Len(stack'), i < j
        PROVE  /\ pc'[stack'[i]] \in StoppingLabels
                     => pc'[stack'[j]] \notin StoppingLabels \cup {"sh_visit"}
               /\ pc'[stack'[i]] \in Disarmed => stack'[j] # "ALRM"
    <3>1. i \in 1..top /\ stack'[i] = stack[i] /\ stack[i] \in Ctxs
      BY <1>1, <1>4, <2>3
    <3>2. CASE j = top + 1
      <4>1. stack'[j] = s
        BY <1>4, <3>2
      <4>2. pc'[stack'[j]] \notin StoppingLabels \cup {"sh_visit"}
        BY <1>3, <1>5, <4>1
      <4>3. pc'[stack'[i]] \in Disarmed => s # "ALRM"
        BY <1>2, <1>9, <3>1 DEF StopInv, StopperOK
      <4> QED
        BY <4>1, <4>2, <4>3
    <3>3. CASE j # top + 1
      <4>1. j \in 1..top /\ stack'[j] = stack[j] /\ stack[j] \in Ctxs
        BY <1>1, <1>4, <3>3
      <4> QED
        BY <1>9, <2>3, <3>1, <4>1 DEF StopInv, StopperOK
    <3> QED
      BY <3>2, <3>3
  <2> QED
    BY <2>1, <2>2, <2>3 DEF StopperOK
<1> QED
  BY <1>7, <1>8, <1>10

\* A step that leaves the stack alone preserves the invariant.
LEMMA StayInv ==
  ASSUME StopInv, UNCHANGED <<stack, pc>>, visited => visited', TimerStays
  PROVE  (CodeOK /\ StackOK /\ StopperOK)'
<1>1. CodeOK' /\ StackOK'
  BY DEF StopInv, CodeOK, StackOK
<1>2. \A c \in Ctxs : pc[c] \in Disarmed => disp'["ALRM"] # "handler"
  <2> SUFFICES ASSUME NEW c \in Ctxs, pc[c] \in Disarmed
               PROVE  disp'["ALRM"] # "handler"
    OBVIOUS
  <2>1. ~At("timer")
    <3>1. SUFFICES ASSUME pc[cur] = "timer" PROVE FALSE
      BY DEF At
    <3>2. cur = "main" /\ Len(stack) = 1
      BY <3>1, CurFacts DEF StopInv, MainLabels
    <3>3. c = "main"
      BY <3>2, LabelsApart DEF StopInv, StackOK, Disarmed
    <3> QED
      BY <3>1, <3>2, <3>3 DEF Disarmed, StoppingLabels
  <2> QED
    BY <2>1 DEF StopInv, StopperOK, TimerStays
<1>3. StopperOK'
  BY <1>2 DEF StopInv, StopperOK
<1> QED
  BY <1>1, <1>3

\* The invariant holds after init_threads.
LEMMA StopInvInit == Init => StopInv
<1> SUFFICES ASSUME Init PROVE StopInv
  OBVIOUS
<1>1. stack = <<"main">> /\ \A c \in Ctxs : pc[c] = IF c = "main" THEN "spawn0" ELSE "idle"
  BY DEF Init
<1>2. CodeOK
  BY <1>1 DEF CodeOK, Ctxs, Sigs, MainLabels
<1>3. StackOK
  BY <1>1 DEF StackOK, Ctxs
<1>4. StopperOK
  <2>1. \A c \in Ctxs : pc[c] \notin StoppingLabels
    BY <1>1 DEF StoppingLabels
  <2>2. \A i \in 1..Len(stack) : stack[i] \in Ctxs
    BY <1>1 DEF Ctxs
  <2> QED
    BY <2>1, <2>2 DEF StopperOK, Disarmed
<1> QED
  BY <1>2, <1>3, <1>4, InitTypeOK DEF StopInv

\* Every step preserves the invariant.
LEMMA StopInvNext == StopInv /\ [Next]_vars => StopInv'
<1> SUFFICES ASSUME StopInv, [Next]_vars PROVE StopInv'
  OBVIOUS
<1>1. TypeOK'
  BY NextTypeOK DEF StopInv
<1>2. Shape
  BY NextShape DEF StopInv
<1>3. (visited => visited') /\ TimerStays
  BY <1>2 DEF Shape
<1>4. (CodeOK /\ StackOK /\ StopperOK)'
  BY <1>1, <1>2, <1>3, JumpInv, PopInv, PushInv, StayInv DEF Shape
<1> QED
  BY <1>1, <1>4 DEF StopInv

\* The invariant about the nested handlers of the monitor (threads_monitor.c)
\* holds throughout: each context runs its own code, each is on the stack at
\* most once, and above a call of stop_handler that has passed `visited' there
\* is no other.
THEOREM StopInvariant == Spec => []StopInv
  BY StopInvInit, StopInvNext, PTL DEF Spec

\* The invariant is as strong as the two properties.
LEMMA StopInvImplies == StopInv => OneStopper /\ StatsQuiet
<1> SUFFICES ASSUME StopInv PROVE OneStopper /\ StatsQuiet
  OBVIOUS
<1>1. \A c \in Ctxs : pc[c] # "idle" => \E i \in 1..Len(stack) : stack[i] = c
  BY DEF StopInv, StackOK
<1>2. Len(stack) \in Nat /\ Len(stack) \in 1..Len(stack)
  BY CurFacts DEF StopInv
<1>3. OneStopper
  <2> SUFFICES ASSUME NEW c \in Ctxs, NEW d \in Ctxs,
                      pc[c] \in StoppingLabels, pc[d] \in StoppingLabels
               PROVE  c = d
    BY DEF OneStopper
  <2>1. PICK i \in 1..Len(stack) : stack[i] = c
    BY <1>1, LabelsApart
  <2>2. PICK j \in 1..Len(stack) : stack[j] = d
    BY <1>1, LabelsApart
  <2>3. ~(i < j) /\ ~(j < i)
    BY <2>1, <2>2 DEF StopInv, StopperOK
  <2> QED
    BY <1>2, <2>1, <2>2, <2>3
<1>4. StatsQuiet
  <2> SUFFICES ASSUME NEW c \in Ctxs, pc[c] \in Disarmed, cur = "ALRM"
               PROVE  c = "ALRM"
    BY DEF StatsQuiet, Disarmed
  <2>1. PICK i \in 1..Len(stack) : stack[i] = c
    BY <1>1, LabelsApart DEF Disarmed
  <2>2. ~(i < Len(stack))
    BY <1>2, <2>1 DEF StopInv, StopperOK, cur
  <2> QED
    BY <1>2, <2>1, <2>2 DEF cur
<1> QED
  BY <1>3, <1>4

\* stop_handler's static `visited' admits one call only, although the test
\* and the increment are separate statements that a handler may come between.
THEOREM OneStopperHolds == Spec => []OneStopper
  BY StopInvariant, StopInvImplies, PTL

\* Once a stop has disarmed the timer, gather_periodic_stats and its wait4
\* never run on top of it.
THEOREM StatsQuietHolds == Spec => []StatsQuiet
  BY StopInvariant, StopInvImplies, PTL
=============================================================================
