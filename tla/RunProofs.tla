------------------------------ MODULE RunProofs ------------------------------
(***************************************************************************)
(* Proofs about a whole run: it lasts its full time, without both threads  *)
(* it is no run, no stale pid is signalled, the scheduling data are        *)
(* complete, with fork() and with clone(), and the run keeps the promise   *)
(* of the module Run.                                                      *)
(***************************************************************************)
EXTENDS ReportProofs

USE DEF vars, runVars, monVars, sigVars, kidVars, envVars

-----------------------------------------------------------------------------
\* The inductive invariant

\* main before setup_stop_handler has installed SIGINT's handler, and before
\* it has let the threads start.
PreInt == {"spawn0", "pid0", "spawn1", "pid1", "chld_sig", "stop_false", "int_sig"}
PreStart == PreInt \cup {"ready_wait", "timer", "start"}

\* Where a thread is that has said it is ready.
LatePlaces == {"wait_start", "play", "intr", "exit", "zombie", "gone"}

\* The threads are started after both were ready.
StartOK ==
    /\ start => pc["main"] \notin PreStart
    /\ start \/ pc["main"] \in {"timer", "start"} => \A n \in Threads : ready[n]
    /\ \A n \in Threads : ready[n] => cpc[n] \in LatePlaces
    /\ \A n \in Threads : cpc[n] = "play" => start

\* A thread is unborn until main spawns it.
SpawnOK ==
    /\ pc["main"] = "spawn0" => cpc[0] = "unborn"
    /\ pc["main"] \in {"spawn0", "pid0", "spawn1"} => cpc[1] = "unborn"

\* Whoever sets `visited' never leaves stop_handler, and only he signals the
\* threads and prints.
VisitOK ==
    /\ visited => \E c \in Ctxs : pc[c] \in StoppingLabels
    /\ printed <=> \E c \in Ctxs : pc[c] = "sh_exit"
    /\ \A n \in Threads : usr[n] \/ cpc[n] \in {"intr", "exit"} => visited

\* While SIGINT still kills the monitor, no call of stop_handler is active.
IntOK ==
    disp["INT"] # "handler" =>
        /\ pc["main"] \in PreInt /\ pc["INT"] = "idle" /\ pc["ALRM"] = "idle"
        /\ disp["ALRM"] # "handler"

\* The clock readings the statistics timer compares are not ahead of time.
TimeOK ==
    /\ timeoutSet => pc["main"] \notin PreStart \cup {"times", "timeout"}
    /\ lastStats <= age
    /\ PromptStart /\ ("ALRM" \in pend \/ pc["ALRM"] # "idle") => timeoutSet
    /\ pc["ALRM"] \in {"mi_wait0", "mi_wait1", "mi_store"} => now <= age
    /\ PromptStart /\ pc["ALRM"] \in StopLabels => age >= Runtime

RunInv == StartOK /\ SpawnOK /\ VisitOK /\ IntOK /\ TimeOK

-----------------------------------------------------------------------------
\* How a step moves the contexts

\* What a jump of the running context leaves of the labels ...
LEMMA GotoPc ==
  ASSUME StopInv, NEW l, Goto(l)
  PROVE  pc'[cur] = l /\ \A c \in Ctxs : c # cur => pc'[c] = pc[c]
<1>1. cur \in Ctxs /\ pc \in [Ctxs -> Labels]
  BY CurFacts DEF StopInv, TypeOK
<1> QED
  BY <1>1 DEF Goto

\* ... and a return.
LEMMA ReturnPc ==
  ASSUME StopInv, Return
  PROVE  \/ cur = "main" /\ mon' = "ok" /\ pc' = pc
         \/ /\ cur # "main" /\ mon' = mon /\ pc'[cur] = "idle"
            /\ \A c \in Ctxs : c # cur => pc'[c] = pc[c]
<1>1. cur \in Ctxs /\ pc \in [Ctxs -> Labels]
  BY CurFacts DEF StopInv, TypeOK
<1> QED
  BY <1>1 DEF Return

\* A handler's code runs in a handler, except for stop_handler.
LEMMA WhoRuns ==
  ASSUME StopInv
  PROVE  /\ StopStep => pc[cur] \in StopLabels /\ cur # "CHLD"
         /\ IntrStep => pc[cur] \in IntrLabels /\ cur = "ALRM"
         /\ ChldStep => pc[cur] \in ChldLabels /\ cur = "CHLD"
         /\ MainStep => pc[cur] \in MainLabels /\ cur = "main"
<1> USE DEF At
<1>1. cur \in {"main", "INT", "ALRM", "CHLD"} /\ CodeOK
  BY CurFacts DEF StopInv, Ctxs, Sigs
<1>2. StopStep => pc[cur] \in StopLabels
  BY DEF StopStep, StopEnter, StopVisit, StopStopTimer, StopFlag, StopSignal,
     StopWait, StopCommCleanup, StopFinalStats, StopExit, StopLabels, StoppingLabels
<1>3. IntrStep => pc[cur] \in IntrLabels
  BY DEF IntrStep, IntrEnter, IntrReadTime, IntrWait4, IntrStore, IntrTimeout, IntrLabels
<1>4. ChldStep => pc[cur] \in ChldLabels
  BY DEF ChldStep, ChldWait, ChldMark, ChldStop, ChldStopTimer, ChldLabels
<1>5. MainStep => pc[cur] \in MainLabels
  BY DEF MainStep, Spawn, SpawnFail, RecordPid, SetupChildSignals, ResetStop,
     SetupStopHandler, WaitReady, SetupMonitorTimer, StartThreads, ReadStartTime,
     SetTimeout, TestStop, SigSuspend, MainLabels
<1>6. pc[cur] \in MainLabels => cur = "main"
  BY CurFacts DEF StopInv
<1> QED
  BY <1>1, <1>2, <1>3, <1>4, <1>5, <1>6, LabelsApart DEF CodeOK

\* Only main's own steps take it from one label of do_monitor_work before
\* its loop to another.
BeforeLoop == PreStart \cup {"times", "timeout"}
MainPlain ==
    \/ pc'["main"] = pc["main"]
    \/ pc["main"] \notin BeforeLoop /\ pc'["main"] \notin BeforeLoop

\* Every other step is plain for main.
LEMMA OthersPlain ==
  ASSUME StopInv, [Next]_vars, ~MainStep
  PROVE  MainPlain
<1>1. cur \in Ctxs /\ pc[cur] # "idle" /\ pc \in [Ctxs -> Labels] /\ "main" \in Ctxs /\ CodeOK
  BY CurFacts DEF StopInv, TypeOK, Ctxs
<1>2. \A l \in BeforeLoop : l \in MainLabels
  BY DEF BeforeLoop, PreStart, PreInt, MainLabels
<1>3. "loop" \notin BeforeLoop /\ "suspended" \notin BeforeLoop
  BY DEF BeforeLoop, PreStart, PreInt
<1>4. CASE StopStep \/ IntrStep \/ ChldStep
  <2>1. Shape
    BY NextShape DEF StopInv
  <2>2. pc[cur] \notin MainLabels /\ (pc[cur] \in StopLabels \/ cur # "main")
    BY <1>4, WhoRuns, LabelsApart
  <2>3. ASSUME NEW l \in Labels, Jump(l) PROVE MainPlain
    <3>1. pc' = [pc EXCEPT ![cur] = l] /\ (l \in MainLabels => pc[cur] \in MainLabels)
      BY <2>3, JumpFacts
    <3> QED
      BY <1>1, <1>2, <2>2, <3>1 DEF MainPlain
  <2>4. CASE Pop
    BY <1>1, <2>4 DEF Pop, MainPlain
  <2>5. ASSUME NEW s \in Sigs, Push(s) PROVE MainPlain
    BY <1>1, <1>3, <2>5 DEF Push, MainPlain, Sigs
  <2> QED
    BY <2>1, <2>3, <2>4, <2>5 DEF Shape, MainPlain
<1>5. ASSUME NEW s \in Sigs, Deliver(s) PROVE MainPlain
  BY <1>1, <1>3, <1>5 DEF Deliver, MainPlain, Sigs
<1>6. CASE Tick \/ Advance \/ SendSigint \/ UNCHANGED vars
  BY <1>6 DEF Tick, Advance, SendSigint, MainPlain
<1>7. ASSUME NEW n \in Threads, Child(n) \/ Crash(n) PROVE MainPlain
  BY <1>7, ChildShape DEF Crash, MainPlain, StopInv
<1> QED
  BY <1>4, <1>5, <1>6, <1>7 DEF Next, MonitorStep, Over

\* Nobody enters or leaves the part of stop_handler behind `visited' but
\* with `visited++', and nobody but output_final_stats gets to its end.
Steady ==
    /\ \A c \in Ctxs : pc'[c] \in StoppingLabels <=> pc[c] \in StoppingLabels
    /\ \A c \in Ctxs : pc'[c] = "sh_exit" <=> pc[c] = "sh_exit"
    /\ UNCHANGED <<visited, printed>>

\* A jump within either part is steady ...
LEMMA SteadyGoto ==
  ASSUME StopInv, NEW l, Goto(l), UNCHANGED <<visited, printed>>,
         pc[cur] # "sh_exit", l # "sh_exit",
         pc[cur] \in StoppingLabels <=> l \in StoppingLabels
  PROVE  Steady
  BY GotoPc DEF Steady

\* ... and so is a return from outside it.
LEMMA SteadyReturn ==
  ASSUME StopInv, Return, UNCHANGED <<visited, printed>>, pc[cur] \notin StoppingLabels
  PROVE  Steady
  BY ReturnPc, LabelsApart DEF Steady, StoppingLabels

\* Every step but those two is steady.
LEMMA StepSteady ==
  ASSUME StopInv, [Next]_vars, ~StopVisit, ~StopFinalStats
  PROVE  Steady
<1> USE DEF At
<1>1. cur \in Ctxs /\ pc[cur] # "idle" /\ pc \in [Ctxs -> Labels] /\ TypeOK
  BY CurFacts DEF StopInv, TypeOK
<1>2. CASE MainStep
  <2>1. UNCHANGED <<visited, printed>> /\ (UNCHANGED pc \/ \E l \in MainLabels \cup {"sh_enter"} : Goto(l))
    BY <1>2 DEF MainStep, Spawn, SpawnFail, RecordPid, SetupChildSignals, ResetStop,
       SetupStopHandler, WaitReady, SetupMonitorTimer, StartThreads, ReadStartTime,
       SetTimeout, TestStop, SigSuspend, MainLabels
  <2>2. \A l \in MainLabels \cup {"sh_enter"} : l \notin StoppingLabels /\ l # "sh_exit"
    BY DEF MainLabels, StoppingLabels
  <2>3. pc[cur] \in MainLabels
    BY <1>2, WhoRuns
  <2>4. CASE UNCHANGED pc
    BY <2>1, <2>4 DEF Steady
  <2>5. ASSUME NEW l \in MainLabels \cup {"sh_enter"}, Goto(l) PROVE Steady
    BY <2>1, <2>2, <2>3, <2>5, SteadyGoto
  <2> QED
    BY <2>1, <2>4, <2>5
<1>3. CASE StopEnter
  <2>1. Return \/ Goto("sh_visit")
    BY <1>3 DEF StopEnter
  <2>2. pc[cur] = "sh_enter" /\ UNCHANGED <<visited, printed>>
    BY <1>3 DEF StopEnter
  <2>3. "sh_enter" \notin StoppingLabels /\ "sh_visit" \notin StoppingLabels
    BY LabelsApart
  <2> QED
    BY <2>1, <2>2, <2>3, SteadyGoto, SteadyReturn
<1>4. CASE StopStopTimer \/ StopFlag \/ (\E n \in Threads : StopSignal(n)) \/ StopWait
  <2>1. /\ UNCHANGED <<visited, printed>>
        /\ pc[cur] \in StoppingLabels /\ pc[cur] # "sh_exit"
        /\ \E l \in StoppingLabels : Goto(l) /\ l # "sh_exit"
    BY <1>4 DEF StopStopTimer, StopFlag, StopSignal, StopWait, StoppingLabels
  <2> QED
    BY <2>1, SteadyGoto
<1>5. CASE StopCommCleanup
  <2>1. UNCHANGED <<visited, printed>> /\ (UNCHANGED pc \/ (Goto("sh_final") /\ pc[cur] = "sh_cleanup"))
    BY <1>5 DEF StopCommCleanup
  <2>2. "sh_final" \in StoppingLabels /\ "sh_cleanup" \in StoppingLabels
    BY DEF StoppingLabels
  <2>3. CASE UNCHANGED pc
    BY <2>1, <2>3 DEF Steady
  <2>4. CASE Goto("sh_final") /\ pc[cur] = "sh_cleanup"
    BY <2>1, <2>2, <2>4, SteadyGoto
  <2> QED
    BY <2>1, <2>3, <2>4
<1>6. CASE StopExit
  BY <1>6 DEF StopExit, Steady
<1>7. CASE IntrStep \/ ChldStep
  <2>1. UNCHANGED <<visited, printed>>
    BY <1>7 DEF IntrStep, IntrEnter, IntrReadTime, IntrWait4, IntrStore, IntrTimeout,
       ChldStep, ChldWait, ChldMark, ChldStop, ChldStopTimer
  <2>2. Return \/ \E l \in IntrLabels \cup ChldLabels \cup {"sh_enter"} : Goto(l)
    BY <1>7 DEF IntrStep, IntrEnter, IntrReadTime, IntrWait4, IntrStore, IntrTimeout,
       ChldStep, ChldWait, ChldMark, ChldStop, ChldStopTimer, IntrLabels, ChldLabels
  <2>3. \A l \in IntrLabels \cup ChldLabels \cup {"sh_enter"} : l \notin StoppingLabels /\ l # "sh_exit"
    BY DEF IntrLabels, ChldLabels, StoppingLabels
  <2>4. pc[cur] \in IntrLabels \cup ChldLabels
    BY <1>7, WhoRuns
  <2> QED
    BY <2>1, <2>2, <2>3, <2>4, SteadyGoto, SteadyReturn
<1>8. ASSUME NEW s \in Sigs, Deliver(s) PROVE Steady
  <2>1. UNCHANGED <<visited, printed>> /\ pc[s] = "idle"
    BY <1>8 DEF Deliver, Deliverable
  <2>2. Entry(s) \notin StoppingLabels /\ Entry(s) # "sh_exit"
    BY DEF Entry, Sigs, StoppingLabels
  <2>3. \A c \in Ctxs : \/ pc'[c] = pc[c]
                        \/ pc[c] = "suspended" /\ pc'[c] = "loop"
                        \/ pc[c] = "idle" /\ pc'[c] = Entry(s)
    BY <1>1, <1>8, <2>1 DEF Deliver, Ctxs
  <2>4. {"suspended", "loop", "idle"} \cap StoppingLabels = {}
    BY DEF StoppingLabels
  <2> QED
    BY <2>1, <2>2, <2>3, <2>4 DEF Steady
<1>9. CASE Tick \/ Advance \/ SendSigint \/ UNCHANGED vars
  BY <1>9 DEF Tick, Advance, SendSigint, Steady
<1>10. ASSUME NEW n \in Threads, Child(n) \/ Crash(n) PROVE Steady
  BY <1>1, <1>10, ChildShape DEF Crash, Steady
<1> QED
  BY <1>2, <1>3, <1>4, <1>5, <1>6, <1>7, <1>8, <1>9, <1>10
     DEF Next, MonitorStep, StopStep, Over

\* A handler that is not installed does not start.
LEMMA IdleStays ==
  ASSUME StopInv, Shape, NEW s \in Sigs, pc[s] = "idle", disp[s] # "handler"
  PROVE  pc'[s] = "idle"
<1>1. cur \in Ctxs /\ pc[cur] # "idle" /\ pc \in [Ctxs -> Labels] /\ s \in Ctxs
  BY CurFacts DEF StopInv, TypeOK, Ctxs
<1>2. ASSUME NEW l \in Labels, Jump(l) PROVE pc'[s] = "idle"
  BY <1>1, <1>2, JumpFacts
<1>3. ASSUME NEW t \in Sigs, Push(t) PROVE pc'[s] = "idle"
  BY <1>1, <1>3 DEF Push
<1> QED
  BY <1>1, <1>2, <1>3 DEF Shape, Pop

-----------------------------------------------------------------------------
\* The invariant is inductive

\* What a step that is not main's leaves of the threads: an unborn one stays
\* unborn, one that has said it is ready stays behind that point, one that
\* plays has been started, and one that is interrupted was signalled.
KidsPlain ==
    /\ \A n \in Threads : cpc'[n] = "unborn" <=> cpc[n] = "unborn"
    /\ \A n \in Threads : ready[n] => ready'[n]
    /\ \A n \in Threads : ready'[n] => cpc'[n] \in LatePlaces
    /\ \A n \in Threads : cpc'[n] = "play" => cpc[n] = "play" \/ start
    /\ \A n \in Threads : cpc'[n] \in {"intr", "exit"} => cpc[n] \in {"intr", "exit"} \/ usr[n]
    /\ \A n \in Threads : usr'[n] => usr[n] \/ visited

\* A thread's death is plain.
LEMMA DiePlain ==
  ASSUME TypeOK, StartOK, NEW n \in Threads, cpc[n] \in LivePlaces, Die(n), UNCHANGED ready
  PROVE  KidsPlain
<1>1. \A m \in Threads : cpc'[m] = IF m = n THEN (IF mon = "running" THEN "zombie" ELSE "gone") ELSE cpc[m]
  BY DEF Die, TypeOK
<1>2. \A m \in Threads : usr'[m] = IF m = n THEN FALSE ELSE usr[m]
  BY DEF Die, TypeOK
<1>3. "unborn" \notin LivePlaces
  BY DEF LivePlaces, EarlyPlaces
<1> QED
  BY <1>1, <1>2, <1>3 DEF KidsPlain, StartOK, LatePlaces

\* So is a thread's move from one place to another.
LEMMA MovePlain ==
  ASSUME TypeOK, StartOK, NEW n \in Threads, NEW p \in Places, NEW q \in Places,
         Moves(n, p, q), UNCHANGED <<ready, usr>>, p # "unborn", q # "unborn",
         p \in LatePlaces => q \in LatePlaces, q = "play" => start,
         q \in {"intr", "exit"} => p \in {"intr", "exit"}
  PROVE  KidsPlain
<1>1. \A m \in Threads : cpc'[m] = IF m = n THEN q ELSE cpc[m]
  BY DEF Moves, TypeOK
<1>2. cpc[n] = p
  BY DEF Moves
<1> QED
  BY <1>1, <1>2 DEF KidsPlain, StartOK

\* The steps of the threads are plain.
LEMMA ChildPlain ==
  ASSUME TypeOK, StartOK, NEW n \in Threads, Child(n)
  PROVE  KidsPlain
<1>1. cpc \in [Threads -> Places] /\ usr \in [Threads -> BOOLEAN] /\ ready \in [Threads -> BOOLEAN]
  BY DEF TypeOK
<1>2. /\ {"setpid", "pdeath", "sigs", "affinity", "ready", "wait_start", "play", "intr", "exit"}
            \subseteq LivePlaces
      /\ LivePlaces \subseteq Places
  BY DEF Places, LivePlaces, EarlyPlaces
<1>3. ASSUME Die(n), cpc[n] \in LivePlaces, UNCHANGED ready PROVE KidsPlain
  BY <1>3, DiePlain
<1>4. CASE ChildSetPid(n)
  BY <1>2, <1>4, MovePlain DEF ChildSetPid, LatePlaces
<1>5. CASE ChildOnParentDeath(n)
  BY <1>2, <1>5, MovePlain DEF ChildOnParentDeath, LatePlaces
<1>6. CASE ChildSetupInterruptSignal(n)
  BY <1>2, <1>6, MovePlain DEF ChildSetupInterruptSignal, LatePlaces
<1>7. CASE ChildSetAffinity(n)
  <2>1. CASE n \in BadCpu
    BY <1>2, <1>3, <1>7, <2>1 DEF ChildSetAffinity
  <2>2. CASE n \notin BadCpu
    BY <1>2, <1>7, <2>2, MovePlain DEF ChildSetAffinity, LatePlaces
  <2> QED
    BY <2>1, <2>2
<1>8. CASE ChildReady(n)
  <2>1. \A m \in Threads : ready'[m] = IF m = n THEN TRUE ELSE ready[m]
    BY <1>1, <1>8 DEF ChildReady
  <2>2. \A m \in Threads : cpc'[m] = IF m = n THEN "wait_start" ELSE cpc[m]
    BY <1>1, <1>8 DEF ChildReady, Moves
  <2>3. cpc[n] = "ready" /\ UNCHANGED usr
    BY <1>8 DEF ChildReady, Moves
  <2> QED
    BY <2>1, <2>2, <2>3 DEF KidsPlain, StartOK, LatePlaces
<1>9. CASE ChildStart(n)
  BY <1>2, <1>9, MovePlain DEF ChildStart, LatePlaces
<1>10. CASE ChildInterrupted(n)
  <2>1. CASE cpc[n] \in EarlyPlaces
    BY <1>2, <1>3, <1>10, <2>1 DEF ChildInterrupted, Alive
  <2>2. CASE cpc[n] \notin EarlyPlaces
    <3>1. usr[n] /\ cpc[n] \in LivePlaces /\ UNCHANGED ready
      BY <1>10 DEF ChildInterrupted, Alive
    <3>2. \A m \in Threads : cpc'[m] = IF m = n /\ stop THEN "intr" ELSE cpc[m]
      BY <1>1, <1>10, <2>2 DEF ChildInterrupted
    <3>3. \A m \in Threads : usr'[m] => usr[m]
      BY <1>1, <1>10, <2>2 DEF ChildInterrupted
    <3>4. cpc[n] # "unborn"
      BY <3>1 DEF LivePlaces, EarlyPlaces
    <3> QED
      BY <3>1, <3>2, <3>3, <3>4 DEF KidsPlain, StartOK, LatePlaces
  <2> QED
    BY <2>1, <2>2
<1>11. CASE ChildReadSched(n)
  BY <1>2, <1>11, MovePlain DEF ChildReadSched, LatePlaces
<1>12. CASE ChildExit(n) \/ OrphanDies(n) \/ ChildSigint(n)
  BY <1>2, <1>3, <1>12 DEF ChildExit, OrphanDies, ChildSigint, Alive
<1> QED
  BY <1>4, <1>5, <1>6, <1>7, <1>8, <1>9, <1>10, <1>11, <1>12 DEF Child

\* So is every step that is not main's.
LEMMA OthersKids ==
  ASSUME StopInv, StartOK, [Next]_vars, ~MainStep
  PROVE  KidsPlain /\ UNCHANGED <<start, timeoutSet, disp["INT"]>>
<1> USE DEF At
<1>1. TypeOK /\ cpc \in [Threads -> Places] /\ usr \in [Threads -> BOOLEAN]
      /\ disp \in [Sigs -> {"dfl", "ign", "handler"}] /\ cur \in Ctxs
  BY CurFacts DEF StopInv, TypeOK
<1>2. ASSUME UNCHANGED <<cpc, ready, usr>> PROVE KidsPlain
  BY <1>2 DEF KidsPlain, StartOK
<1>3. ASSUME NEW z \in Threads, cpc[z] = "zombie", Reap(z), UNCHANGED ready PROVE KidsPlain
  <2>1. \A m \in Threads : cpc'[m] = IF m = z THEN "gone" ELSE cpc[m]
    BY <1>1, <1>3 DEF Reap
  <2>2. UNCHANGED usr
    BY <1>3 DEF Reap
  <2> QED
    BY <1>3, <2>1, <2>2 DEF KidsPlain, StartOK, LatePlaces
<1>4. CASE StopStep
  <2>1. UNCHANGED <<start, timeoutSet, cpc, ready>> /\ disp'["INT"] = disp["INT"]
    BY <1>1, <1>4 DEF StopStep, StopEnter, StopVisit, StopStopTimer, StopTimer, StopFlag,
       StopSignal, StopWait, StopCommCleanup, StopFinalStats, StopExit, Sigs
  <2>2. UNCHANGED usr \/ \E n \in Threads : StopSignal(n)
    BY <1>4 DEF StopStep, StopEnter, StopVisit, StopStopTimer, StopFlag,
       StopWait, StopCommCleanup, StopFinalStats, StopExit
  <2>3. (\E n \in Threads : StopSignal(n)) => visited
    <3>1. (\E n \in Threads : StopSignal(n)) => pc[cur] \in StoppingLabels
      BY DEF StopSignal, StoppingLabels
    <3> QED
      BY <1>1, <3>1 DEF StopInv, StopperOK
  <2>4. \A n \in Threads : usr'[n] => usr[n] \/ visited
    BY <2>2, <2>3
  <2> QED
    BY <2>1, <2>4 DEF KidsPlain, StartOK
<1>5. CASE IntrStep
  <2>1. UNCHANGED <<start, timeoutSet, ready, disp>>
    BY <1>5 DEF IntrStep, IntrEnter, IntrReadTime, IntrWait4, IntrStore, IntrTimeout
  <2>2. UNCHANGED <<cpc, usr>> \/ \E z \in Threads : cpc[z] = "zombie" /\ Reap(z)
    BY <1>5 DEF IntrStep, IntrEnter, IntrReadTime, IntrWait4, IntrStore, IntrTimeout,
       Waitable, Zombies
  <2> QED
    BY <1>2, <1>3, <2>1, <2>2
<1>6. CASE ChldStep
  <2>1. UNCHANGED <<start, timeoutSet, ready>> /\ disp'["INT"] = disp["INT"]
    BY <1>1, <1>6 DEF ChldStep, ChldWait, ChldMark, ChldStop, ChldStopTimer, StopTimer, Sigs
  <2>2. UNCHANGED <<cpc, usr>> \/ \E z \in Threads : cpc[z] = "zombie" /\ Reap(z)
    BY <1>6 DEF ChldStep, ChldWait, ChldMark, ChldStop, ChldStopTimer, Zombies
  <2> QED
    BY <1>2, <1>3, <2>1, <2>2
<1>7. ASSUME NEW n \in Threads, Child(n) PROVE KidsPlain /\ UNCHANGED <<start, timeoutSet, disp>>
  <2>1. UNCHANGED <<start, timeoutSet, disp>>
    BY <1>7 DEF Child, ChildSetPid, ChildOnParentDeath, ChildSetupInterruptSignal,
       ChildSetAffinity, ChildReady, ChildStart, ChildInterrupted, ChildReadSched,
       ChildExit, OrphanDies, ChildSigint
  <2> QED
    BY <1>1, <1>7, <2>1, ChildPlain
<1>8. ASSUME NEW s \in Sigs, Deliver(s) PROVE UNCHANGED <<start, timeoutSet, disp, cpc, ready, usr>>
  BY <1>8 DEF Deliver
<1>9. CASE Tick \/ Advance \/ SendSigint \/ UNCHANGED vars
  <2>1. UNCHANGED <<start, timeoutSet, disp, cpc, ready, usr>>
    BY <1>9 DEF Tick, Advance, SendSigint
  <2> QED
    BY <1>2, <2>1
<1>10. ASSUME NEW n \in Threads, Crash(n) PROVE KidsPlain /\ UNCHANGED <<start, timeoutSet, disp>>
  <2>1. cpc[n] \in LivePlaces /\ Die(n) /\ UNCHANGED <<start, timeoutSet, disp, ready>>
    BY <1>10, ConstantsAssumption DEF Crash, ConstantsAssumption
  <2> QED
    BY <1>1, <2>1, DiePlain
<1> QED
  BY <1>2, <1>4, <1>5, <1>6, <1>7, <1>8, <1>9, <1>10 DEF Next, MonitorStep, Over

\* The clock, the timer signal and the statistics handler: a step that is
\* not main's keeps the readings behind the clock.
LEMMA OthersTime ==
  ASSUME StopInv, TimeOK, [Next]_vars, ~MainStep, MainPlain, UNCHANGED timeoutSet
  PROVE  TimeOK'
<1> USE DEF At
<1>1. /\ TypeOK /\ cur \in Ctxs /\ pc[cur] # "idle" /\ pc \in [Ctxs -> Labels] /\ CodeOK
      /\ "ALRM" \in Ctxs /\ age \in Int /\ lastStats \in Int /\ now \in Int /\ Runtime \in Int
  BY CurFacts, ConstantsAssumption DEF StopInv, TypeOK, Ctxs, Sigs, ConstantsAssumption, Unset
<1>2. timeoutSet' => pc'["main"] \notin PreStart \cup {"times", "timeout"}
  BY DEF MainPlain, BeforeLoop, TimeOK
<1> DEFINE Reading == {"mi_wait0", "mi_wait1", "mi_store"}
           Frame == UNCHANGED <<lastStats, age, now>> /\ pend' \subseteq pend
                    /\ (pc["ALRM"] = "idle" => pc'["ALRM"] = "idle")
                    /\ (pc'["ALRM"] \in Reading => pc["ALRM"] \in Reading)
                    /\ (pc'["ALRM"] \in StopLabels => pc["ALRM"] \in StopLabels)
<1>3. ASSUME Frame PROVE TimeOK'
  BY <1>2, <1>3 DEF TimeOK
<1>4. \A l \in StopLabels \cup ChldLabels : l \notin Reading
  BY DEF StopLabels, StoppingLabels, ChldLabels
<1>5. CASE StopStep
  <2>1. UNCHANGED <<lastStats, age, now>> /\ pend' \subseteq pend
    BY <1>5 DEF StopStep, StopEnter, StopVisit, StopStopTimer, StopTimer, StopFlag,
       StopSignal, StopWait, StopCommCleanup, StopFinalStats, StopExit
  <2>2. pc[cur] \in StopLabels
    BY <1>5, WhoRuns
  <2>3. UNCHANGED pc \/ Return \/ \E l \in StopLabels : Goto(l)
    BY <1>5 DEF StopStep, StopEnter, StopVisit, StopStopTimer, StopFlag,
       StopSignal, StopWait, StopCommCleanup, StopFinalStats, StopExit, StopLabels, StoppingLabels
  <2>4. UNCHANGED pc \/ (pc'[cur] \in StopLabels \cup {"idle"} /\ \A c \in Ctxs : c # cur => pc'[c] = pc[c])
    BY <2>3, GotoPc, ReturnPc
  <2>5. "idle" \notin Reading /\ "idle" \notin StopLabels
    BY LabelsApart
  <2> QED
    BY <1>1, <1>3, <1>4, <2>1, <2>2, <2>4, <2>5
<1>6. CASE ChldStep
  <2>1. UNCHANGED <<lastStats, age, now>> /\ pend' \subseteq pend
    BY <1>6 DEF ChldStep, ChldWait, ChldMark, ChldStop, ChldStopTimer, StopTimer
  <2>2. cur = "CHLD"
    BY <1>6, WhoRuns
  <2>3. Return \/ \E l : Goto(l)
    BY <1>6 DEF ChldStep, ChldWait, ChldMark, ChldStop, ChldStopTimer
  <2>4. pc'["ALRM"] = pc["ALRM"]
    BY <1>1, <2>2, <2>3, GotoPc, ReturnPc
  <2> QED
    BY <1>3, <2>1, <2>4
<1>7. CASE IntrStep
  <2>1. cur = "ALRM" /\ pc["ALRM"] # "idle" /\ cur # "main" /\ UNCHANGED <<age, pend>>
    BY <1>1, <1>7, WhoRuns DEF IntrStep, IntrEnter, IntrReadTime, IntrWait4, IntrStore, IntrTimeout
  <2>2. PromptStart => timeoutSet
    BY <2>1 DEF TimeOK
  <2>3. ASSUME UNCHANGED <<lastStats, now>>, pc'["ALRM"] \in {"idle", "mi_time"} PROVE TimeOK'
    <3>1. {"idle", "mi_time"} \cap (Reading \cup StopLabels) = {}
      BY DEF StopLabels, StoppingLabels
    <3> QED
      BY <1>3, <2>1, <2>3, <3>1
  <2>4. CASE IntrEnter
    <3>1. UNCHANGED <<lastStats, now>> /\ (Return \/ Goto("mi_time"))
      BY <2>4 DEF IntrEnter
    <3> QED
      BY <2>1, <2>3, <3>1, GotoPc, ReturnPc
  <2>5. CASE IntrReadTime
    <3>1. UNCHANGED lastStats /\ now' = age /\ pc'["ALRM"] = "mi_wait0"
      BY <2>1, <2>5, GotoPc DEF IntrReadTime
    <3>2. "mi_wait0" \notin StopLabels
      BY DEF StopLabels, StoppingLabels
    <3> QED
      BY <1>1, <1>2, <2>1, <2>2, <3>1, <3>2 DEF TimeOK
  <2>6. ASSUME NEW n \in Threads, IntrWait4(n) PROVE TimeOK'
    <3>1. UNCHANGED <<lastStats, now>> /\ pc["ALRM"] \in Reading /\ pc'["ALRM"] \in Reading
      BY <2>1, <2>6, GotoPc DEF IntrWait4
    <3> HIDE DEF Reading
    <3>2. pc'["ALRM"] \notin StopLabels
      BY <1>4, <3>1
    <3> QED
      BY <1>3, <2>1, <3>1, <3>2
  <2>7. CASE IntrStore
    <3>1. lastStats' \in {lastStats, now} /\ UNCHANGED now /\ pc["ALRM"] = "mi_store"
      BY <2>1, <2>7 DEF IntrStore
    <3>2. pc'["ALRM"] = "mi_timeout"
      BY <2>1, <2>7, GotoPc DEF IntrStore
    <3>3. "mi_timeout" \notin StopLabels
      BY DEF StopLabels, StoppingLabels
    <3> QED
      BY <1>1, <1>2, <2>1, <2>2, <3>1, <3>2, <3>3 DEF TimeOK
  <2>8. CASE IntrTimeout
    <3>1. UNCHANGED <<lastStats, now>>
      BY <2>8 DEF IntrTimeout
    <3>2. CASE TimedOut
      <4>1. pc'["ALRM"] = "sh_enter"
        BY <2>1, <2>8, <3>2, GotoPc DEF IntrTimeout
      <4>2. PromptStart => age >= Runtime
        BY <1>1, <2>2, <3>2 DEF TimedOut, TimeOK
      <4> QED
        BY <1>1, <1>2, <2>1, <2>2, <3>1, <4>1, <4>2 DEF TimeOK
    <3>3. CASE ~TimedOut
      <4>1. pc'["ALRM"] = "idle"
        BY <2>1, <2>8, <3>3, ReturnPc DEF IntrTimeout
      <4> QED
        BY <2>3, <3>1, <4>1
    <3> QED
      BY <3>2, <3>3
  <2> QED
    BY <1>7, <2>4, <2>5, <2>6, <2>7, <2>8 DEF IntrStep
<1>8. ASSUME NEW s \in Sigs, Deliver(s) PROVE TimeOK'
  <2>1. UNCHANGED <<lastStats, age, now>> /\ pend' \subseteq pend /\ s \in pend
    BY <1>8 DEF Deliver, Deliverable
  <2>2. CASE s # "ALRM"
    <3>1. pc'["ALRM"] = IF cur = "ALRM" /\ pc["ALRM"] = "suspended" THEN "loop" ELSE pc["ALRM"]
      BY <1>1, <1>8, <2>2 DEF Deliver, Ctxs
    <3>2. pc["ALRM"] # "suspended"
      BY <1>1 DEF CodeOK, IntrLabels, StopLabels, StoppingLabels
    <3> QED
      BY <1>3, <2>1, <3>1, <3>2
  <2>3. CASE s = "ALRM"
    <3>1. pc'["ALRM"] = "mi_enter"
      BY <1>1, <1>8, <2>3 DEF Deliver, Entry, Ctxs
    <3>2. "mi_enter" \notin StopLabels
      BY DEF StopLabels, StoppingLabels
    <3> QED
      BY <1>2, <2>1, <2>3, <3>1, <3>2 DEF TimeOK
  <2> QED
    BY <2>2, <2>3
<1>9. CASE Tick
  <2>1. UNCHANGED <<lastStats, age, now, pc>> /\ (PromptStart => timeoutSet)
    BY <1>9 DEF Tick
  <2> QED
    BY <1>2, <2>1 DEF TimeOK
<1>10. CASE Advance
  <2>1. UNCHANGED <<lastStats, now, pc, pend>> /\ age' = age + 1
    BY <1>10 DEF Advance
  <2> QED
    BY <1>1, <1>2, <2>1 DEF TimeOK
<1>11. CASE SendSigint
  <2>1. UNCHANGED <<lastStats, age, now, pc>> /\ ("ALRM" \in pend' => "ALRM" \in pend)
    BY <1>11 DEF SendSigint
  <2> QED
    BY <1>2, <2>1 DEF TimeOK
<1>12. ASSUME NEW n \in Threads, Child(n) \/ Crash(n) PROVE TimeOK'
  <2>1. UNCHANGED <<lastStats, age, now, pc>>
    BY <1>1, <1>12, ChildShape DEF Crash, Child, ChildSetPid, ChildOnParentDeath,
       ChildSetupInterruptSignal, ChildSetAffinity, ChildReady, ChildStart,
       ChildInterrupted, ChildReadSched, ChildExit, OrphanDies, ChildSigint
  <2>2. "ALRM" \in pend' => "ALRM" \in pend
    BY <1>12 DEF Crash, Die, Child, ChildSetPid, ChildOnParentDeath,
       ChildSetupInterruptSignal, ChildSetAffinity, ChildReady, ChildStart,
       ChildInterrupted, ChildReadSched, ChildExit, OrphanDies, ChildSigint
  <2> QED
    BY <1>2, <2>1, <2>2 DEF TimeOK
<1>13. CASE UNCHANGED vars
  BY <1>2, <1>13 DEF TimeOK
<1> QED
  BY <1>5, <1>6, <1>7, <1>8, <1>9, <1>10, <1>11, <1>12, <1>13 DEF Next, MonitorStep, Over

\* The steps of main: it runs alone, and goes from each label to the next.
LEMMA MainRun ==
  ASSUME StopInv, RunInv, MainStep
  PROVE  (StartOK /\ SpawnOK /\ TimeOK)'
<1> USE DEF At
<1>1. /\ TypeOK /\ cpc \in [Threads -> Places] /\ pc[cur] \in MainLabels /\ "ALRM" \in Sigs
      /\ 0 \in Threads /\ 1 \in Threads /\ \A n \in Threads : n = 0 \/ n = 1
  BY WhoRuns DEF StopInv, TypeOK, Sigs, Threads
<1>2. cur = "main" /\ (\A c \in Sigs : pc[c] = "idle") /\ "main" \in Ctxs /\ pc \in [Ctxs -> Labels]
  BY <1>1, MainAlone
<1>3. ASSUME NEW l, Goto(l) PROVE pc'["main"] = l /\ pc'["ALRM"] = "idle"
  BY <1>1, <1>2, <1>3, GotoPc DEF Ctxs
<1>4. "idle" \notin StopLabels
  BY LabelsApart
<1>5. ASSUME UNCHANGED <<lastStats, age, now, timeoutSet, pend>>, pc["main"] \in BeforeLoop \/ pc'["main"] \notin BeforeLoop,
             pc'["ALRM"] = "idle"
      PROVE  TimeOK'
  BY <1>4, <1>5 DEF RunInv, TimeOK, BeforeLoop
<1>6. ASSUME UNCHANGED <<start, ready, cpc>>,
             pc'["main"] \in {"timer", "start"} => pc["main"] = "timer" \/ \A n \in Threads : ready[n],
             pc["main"] \in PreStart \/ pc'["main"] \notin PreStart,
             pc'["main"] # "spawn0", pc'["main"] \in {"pid0", "spawn1"} => pc["main"] \in {"spawn0", "pid0"}
      PROVE  (StartOK /\ SpawnOK)'
  BY <1>6 DEF RunInv, StartOK, SpawnOK
<1>7. ASSUME NEW n \in Threads, Spawn(n) PROVE (StartOK /\ SpawnOK /\ TimeOK)'
  <2>1. pc["main"] = (IF n = 0 THEN "spawn0" ELSE "spawn1")
        /\ UNCHANGED <<start, ready, lastStats, age, now, timeoutSet, pend>>
    BY <1>2, <1>7 DEF Spawn
  <2>2. pc'["main"] \in (IF n = 0 THEN {"pid0", "spawn1"} ELSE {"pid1", "chld_sig"}) /\ pc'["ALRM"] = "idle"
    BY <1>3, <1>7 DEF Spawn
  <2>3. cpc[n] = "unborn" /\ ~start
    BY <1>1, <2>1 DEF RunInv, SpawnOK, StartOK, PreStart, PreInt
  <2>4. \A m \in Threads : cpc'[m] = IF m = n THEN "setpid" ELSE cpc[m]
    BY <1>1, <1>7 DEF Spawn
  <2>5. TimeOK'
    BY <1>5, <2>1, <2>2 DEF BeforeLoop, PreStart, PreInt
  <2>6. StartOK'
    BY <2>1, <2>2, <2>3, <2>4 DEF RunInv, StartOK, LatePlaces
  <2>7. SpawnOK'
    BY <1>1, <2>1, <2>2, <2>4 DEF RunInv, SpawnOK
  <2> QED
    BY <2>5, <2>6, <2>7
<1>8. ASSUME NEW n \in Threads, SpawnFail(n) PROVE (StartOK /\ SpawnOK /\ TimeOK)'
  <2>1. UNCHANGED <<start, ready, cpc, lastStats, age, now, timeoutSet, pend>>
        /\ pc["main"] = (IF n = 0 THEN "spawn0" ELSE "spawn1")
    BY <1>2, <1>8 DEF SpawnFail
  <2>2. UNCHANGED pc \/ (pc'["main"] = (IF n = 0 THEN "spawn1" ELSE "chld_sig") /\ pc'["ALRM"] = "idle")
    BY <1>3, <1>8 DEF SpawnFail
  <2>3. TimeOK'
    BY <1>1, <1>2, <1>5, <2>1, <2>2 DEF BeforeLoop, PreStart, PreInt
  <2>4. (StartOK /\ SpawnOK)'
    <3>1. CASE UNCHANGED pc
      BY <2>1, <3>1 DEF RunInv, StartOK, SpawnOK
    <3>2. CASE pc'["main"] = (IF n = 0 THEN "spawn1" ELSE "chld_sig")
      BY <1>6, <2>1, <3>2 DEF PreStart, PreInt
    <3> QED
      BY <2>2, <3>1, <3>2
  <2> QED
    BY <2>3, <2>4
<1>9. ASSUME NEW n \in Threads, RecordPid(n) PROVE (StartOK /\ SpawnOK /\ TimeOK)'
  <2>1. UNCHANGED <<start, ready, cpc, lastStats, age, now, timeoutSet, pend>>
        /\ pc["main"] = (IF n = 0 THEN "pid0" ELSE "pid1")
    BY <1>2, <1>9 DEF RecordPid
  <2>2. pc'["main"] = (IF n = 0 THEN "spawn1" ELSE "chld_sig") /\ pc'["ALRM"] = "idle"
    BY <1>3, <1>9 DEF RecordPid
  <2> QED
    BY <1>5, <1>6, <2>1, <2>2 DEF BeforeLoop, PreStart, PreInt
<1>10. CASE SetupChildSignals \/ ResetStop \/ SetupStopHandler \/ WaitReady \/ SetupMonitorTimer
  <2>1. UNCHANGED <<start, ready, cpc, lastStats, age, now, timeoutSet, pend>>
    BY <1>10 DEF SetupChildSignals, ResetStop, SetupStopHandler, WaitReady, SetupMonitorTimer
  <2>2. /\ pc["main"] \in {"chld_sig", "stop_false", "int_sig", "ready_wait", "timer"}
        /\ pc'["main"] \in {"stop_false", "int_sig", "ready_wait", "timer", "start"}
        /\ pc'["ALRM"] = "idle"
        /\ pc'["main"] \in {"timer", "start"} => pc["main"] = "timer" \/ \A n \in Threads : ready[n]
    BY <1>2, <1>3, <1>10 DEF SetupChildSignals, ResetStop, SetupStopHandler, WaitReady, SetupMonitorTimer
  <2> QED
    BY <1>5, <1>6, <2>1, <2>2 DEF BeforeLoop, PreStart, PreInt
<1>11. CASE StartThreads
  <2>1. UNCHANGED <<ready, cpc, lastStats, age, now, timeoutSet, pend>> /\ pc["main"] = "start" /\ start'
    BY <1>2, <1>11 DEF StartThreads
  <2>2. pc'["main"] = "times" /\ pc'["ALRM"] = "idle"
    BY <1>3, <1>11 DEF StartThreads
  <2>3. "times" \notin PreStart /\ "start" \in PreStart
    BY DEF PreStart, PreInt
  <2>4. TimeOK'
    BY <1>5, <2>1, <2>2, <2>3 DEF BeforeLoop
  <2> QED
    BY <2>1, <2>2, <2>3, <2>4 DEF RunInv, StartOK, SpawnOK
<1>12. CASE ReadStartTime
  <2>1. UNCHANGED <<start, ready, cpc, now, timeoutSet, pend>> /\ pc["main"] = "times"
        /\ age' = 0 /\ lastStats' = 0
    BY <1>2, <1>12 DEF ReadStartTime
  <2>2. pc'["main"] = "timeout" /\ pc'["ALRM"] = "idle"
    BY <1>3, <1>12 DEF ReadStartTime
  <2>3. "timeout" \notin PreStart
    BY DEF PreStart, PreInt
  <2>4. TimeOK'
    BY <1>4, <2>1, <2>2 DEF RunInv, TimeOK
  <2> QED
    BY <1>6, <2>1, <2>2, <2>3, <2>4
<1>13. CASE SetTimeout
  <2>1. UNCHANGED <<start, ready, cpc, now, age, lastStats, pend>> /\ pc["main"] = "timeout" /\ timeoutSet'
    BY <1>2, <1>13 DEF SetTimeout
  <2>2. pc'["main"] = "loop" /\ pc'["ALRM"] = "idle"
    BY <1>3, <1>13 DEF SetTimeout
  <2>3. "loop" \notin PreStart
    BY DEF PreStart, PreInt
  <2>4. TimeOK'
    BY <1>4, <2>1, <2>2, <2>3 DEF RunInv, TimeOK
  <2> QED
    BY <1>6, <2>1, <2>2, <2>3, <2>4
<1>14. CASE TestStop \/ SigSuspend
  <2>1. UNCHANGED <<start, ready, cpc, lastStats, age, now, timeoutSet, pend>>
    BY <1>14 DEF TestStop, SigSuspend
  <2>2. pc'["main"] \in {"sh_enter", "suspend", "suspended"} /\ pc'["ALRM"] = "idle"
    BY <1>2, <1>3, <1>14 DEF TestStop, SigSuspend
  <2>3. pc'["main"] \notin BeforeLoop /\ pc'["main"] \notin PreStart
    BY <2>2 DEF BeforeLoop, PreStart, PreInt
  <2> QED
    BY <1>5, <1>6, <2>1, <2>2, <2>3
<1> QED
  BY <1>7, <1>8, <1>9, <1>10, <1>11, <1>12, <1>13, <1>14 DEF MainStep

\* `visited', the report and the signalled threads, for every step.
LEMMA VisitNext ==
  ASSUME StopInv, RunInv, [Next]_vars
  PROVE  VisitOK'
<1> USE DEF At
<1>1. TypeOK /\ cur \in Ctxs /\ cpc \in [Threads -> Places]
  BY CurFacts DEF StopInv, TypeOK
<1>2. /\ \A n \in Threads : cpc'[n] \in {"intr", "exit"} => cpc[n] \in {"intr", "exit"} \/ usr[n]
      /\ \A n \in Threads : usr'[n] => usr[n] \/ visited
  <2>1. CASE MainStep
    <3>1. UNCHANGED usr
      BY <2>1 DEF MainStep, Spawn, SpawnFail, RecordPid, SetupChildSignals, ResetStop,
         SetupStopHandler, WaitReady, SetupMonitorTimer, StartThreads, ReadStartTime,
         SetTimeout, TestStop, SigSuspend
    <3>2. \A n \in Threads : cpc'[n] = cpc[n] \/ cpc'[n] = "setpid"
      BY <1>1, <2>1 DEF MainStep, Spawn, SpawnFail, RecordPid, SetupChildSignals, ResetStop,
         SetupStopHandler, WaitReady, SetupMonitorTimer, StartThreads, ReadStartTime,
         SetTimeout, TestStop, SigSuspend
    <3> QED
      BY <3>1, <3>2
  <2>2. CASE ~MainStep
    BY <2>2, OthersKids DEF KidsPlain, RunInv
  <2> QED
    BY <2>1, <2>2
<1>3. CASE StopVisit
  <2>1. visited' /\ UNCHANGED printed /\ pc[cur] = "sh_visit"
    BY <1>3 DEF StopVisit
  <2>2. pc'[cur] = "sh_timer" /\ \A c \in Ctxs : c # cur => pc'[c] = pc[c]
    BY <1>3, GotoPc DEF StopVisit
  <2>3. "sh_timer" \in StoppingLabels
    BY LabelsApart
  <2> QED
    BY <1>1, <1>2, <2>1, <2>2, <2>3 DEF RunInv, VisitOK
<1>4. CASE StopFinalStats
  <2>1. UNCHANGED visited /\ printed' /\ pc[cur] = "sh_final"
    BY <1>4 DEF StopFinalStats
  <2>2. pc'[cur] = "sh_exit"
    BY <1>4, GotoPc DEF StopFinalStats
  <2>3. "sh_exit" \in StoppingLabels
    BY DEF StoppingLabels
  <2> QED
    BY <1>1, <1>2, <2>1, <2>2, <2>3 DEF RunInv, VisitOK
<1>5. CASE ~StopVisit /\ ~StopFinalStats
  BY <1>2, <1>5, StepSteady DEF Steady, RunInv, VisitOK
<1> QED
  BY <1>3, <1>4, <1>5

\* SIGINT's handler, for every step.
LEMMA IntNext ==
  ASSUME StopInv, RunInv, [Next]_vars
  PROVE  IntOK'
<1> USE DEF At
<1>1. TypeOK /\ disp \in [Sigs -> {"dfl", "ign", "handler"}] /\ "INT" \in Sigs /\ "ALRM" \in Sigs
  BY DEF StopInv, TypeOK, Sigs
<1>2. Shape
  BY <1>1, NextShape
<1>3. CASE disp["INT"] = "handler"
  <2>1. CASE MainStep
    BY <1>1, <1>3, <2>1 DEF IntOK, MainStep, Spawn, SpawnFail, RecordPid, SetupChildSignals,
       ResetStop, SetupStopHandler, WaitReady, SetupMonitorTimer, StartThreads,
       ReadStartTime, SetTimeout, TestStop, SigSuspend
  <2>2. CASE ~MainStep
    BY <1>3, <2>2, OthersKids DEF IntOK, RunInv
  <2> QED
    BY <2>1, <2>2
<1>4. CASE disp["INT"] # "handler"
  <2>1. pc["main"] \in PreInt /\ pc["INT"] = "idle" /\ pc["ALRM"] = "idle" /\ disp["ALRM"] # "handler"
    BY <1>4 DEF RunInv, IntOK
  <2>2. pc'["INT"] = "idle" /\ pc'["ALRM"] = "idle"
    BY <1>1, <1>2, <1>4, <2>1, IdleStays
  <2>3. CASE MainStep
    <3>1. cur = "main"
      BY <2>3, WhoRuns
    <3>2. disp'["ALRM"] # "handler"
      BY <1>2, <2>1, <3>1 DEF Shape, TimerStays, PreInt
    <3>3. UNCHANGED pc \/ \E l : Goto(l)
      BY <2>3 DEF MainStep, Spawn, SpawnFail, RecordPid, SetupChildSignals,
         ResetStop, SetupStopHandler, WaitReady, SetupMonitorTimer, StartThreads,
         ReadStartTime, SetTimeout, TestStop, SigSuspend
    <3>4. ASSUME NEW l, Goto(l) PROVE pc'["main"] = l
      BY <3>1, <3>4, GotoPc
    <3>5. pc'["main"] \in PreInt \/ disp'["INT"] = "handler"
      BY <1>1, <2>1, <2>3, <3>1, <3>4 DEF MainStep, Spawn, SpawnFail, RecordPid, SetupChildSignals,
         ResetStop, SetupStopHandler, WaitReady, SetupMonitorTimer, StartThreads,
         ReadStartTime, SetTimeout, TestStop, SigSuspend, PreInt
    <3> QED
      BY <2>2, <3>2, <3>5 DEF IntOK
  <2>4. CASE ~MainStep
    <3>1. MainPlain
      BY <2>4, OthersPlain
    <3>2. pc'["main"] = pc["main"]
      BY <2>1, <3>1 DEF MainPlain, BeforeLoop, PreStart
    <3>3. disp'["ALRM"] # "handler"
      <4>1. ~(mon = "running" /\ pc[cur] = "timer")
        BY <2>1, CurFacts DEF StopInv, PreInt, MainLabels
      <4> QED
        BY <1>2, <2>1, <4>1 DEF Shape, TimerStays
    <3> QED
      BY <2>1, <2>2, <3>2, <3>3 DEF IntOK
  <2> QED
    BY <2>3, <2>4
<1> QED
  BY <1>3, <1>4

\* The invariant holds after init_threads ...
LEMMA RunInvInit == Init => RunInv
<1> SUFFICES ASSUME Init PROVE RunInv
  OBVIOUS
<1>1. /\ pc["main"] = "spawn0" /\ pc["INT"] = "idle" /\ pc["ALRM"] = "idle"
      /\ \A c \in Ctxs : pc[c] = "spawn0" \/ pc[c] = "idle"
      /\ disp["INT"] = "dfl" /\ disp["ALRM"] = "dfl"
      /\ \A n \in Threads : ~ready[n] /\ cpc[n] = "unborn" /\ ~usr[n]
  BY DEF Init, Ctxs, Sigs
<1>2. ~start /\ ~visited /\ ~printed /\ ~timeoutSet /\ lastStats = age /\ pend = {} /\ age \in Int
  BY DEF Init, Unset
<1>3. 0 \in Threads /\ 1 \in Threads /\ "idle" \notin StopLabels
  BY LabelsApart DEF Threads
<1>4. StartOK /\ SpawnOK
  BY <1>1, <1>2, <1>3 DEF StartOK, SpawnOK
<1>5. VisitOK /\ IntOK
  BY <1>1, <1>2 DEF VisitOK, IntOK, PreInt
<1>6. TimeOK
  BY <1>1, <1>2, <1>3 DEF TimeOK
<1> QED
  BY <1>4, <1>5, <1>6 DEF RunInv

\* ... and every step preserves it.
LEMMA RunInvNext ==
  ASSUME StopInv, RunInv, [Next]_vars
  PROVE  RunInv'
<1>1. CASE MainStep
  BY <1>1, MainRun, VisitNext, IntNext DEF RunInv
<1>2. CASE ~MainStep
  <2>1. KidsPlain /\ UNCHANGED <<start, timeoutSet>> /\ MainPlain
    BY <1>2, OthersKids, OthersPlain DEF RunInv
  <2>2. TimeOK'
    BY <1>2, <2>1, OthersTime DEF RunInv
  <2>3. StartOK'
    <3>1. pc'["main"] \in BeforeLoop \/ pc["main"] \in BeforeLoop => pc'["main"] = pc["main"]
      BY <2>1 DEF MainPlain
    <3>2. PreStart \subseteq BeforeLoop /\ {"timer", "start"} \subseteq BeforeLoop
      BY DEF BeforeLoop, PreStart
    <3> QED
      BY <2>1, <3>1, <3>2 DEF RunInv, StartOK, KidsPlain
  <2>4. SpawnOK'
    <3>1. {"spawn0", "pid0", "spawn1"} \subseteq BeforeLoop /\ 0 \in Threads /\ 1 \in Threads
      BY DEF BeforeLoop, PreStart, PreInt, Threads
    <3>2. \A l \in BeforeLoop : pc'["main"] = l => pc["main"] = l
      BY <2>1 DEF MainPlain
    <3> QED
      BY <2>1, <3>1, <3>2 DEF RunInv, SpawnOK, KidsPlain
  <2> QED
    BY <2>2, <2>3, <2>4, VisitNext, IntNext DEF RunInv
<1> QED
  BY <1>1, <1>2

\* The invariant holds throughout every run.
THEOREM RunInvariant == Spec => [](StopInv /\ RunInv)
<1>1. Init => StopInv /\ RunInv
  BY StopInvInit, RunInvInit
<1>2. StopInv /\ RunInv /\ [Next]_vars => (StopInv /\ RunInv)'
  BY StopInvNext, RunInvNext
<1> QED
  BY <1>1, <1>2, PTL DEF Spec

\* When the first statistics interval outlasts lines 210-217, the timer
\* never ends a run before config.runtime has passed, however the handlers
\* nest and whenever the clock is read.
THEOREM RunsFullTimeHolds ==
  ASSUME PromptStart
  PROVE  Spec => []RunsFullTime
<1>1. StopInv /\ RunInv => RunsFullTime
  BY DEF RunInv, TimeOK, RunsFullTime
<1> QED
  BY <1>1, RunInvariant, PTL

-----------------------------------------------------------------------------
\* Runs that lack a thread

Missing == \E n \in Threads : cpc[n] = "unborn"

\* Why the pid 0 of a missing thread is not mistaken: SIGCHLD comes only when
\* the other thread has died, so waitpid then returns its pid or -1, never 0.
LackInv ==
    /\ \A n \in Threads : cpc[n] = "unborn" => pid[n] = NoPid
    /\ mon = "ok" \/ (\E c \in Ctxs : pc[c] \in ReportLabels) => ~Missing
    /\ Missing /\ ("CHLD" \in pend \/ pc["CHLD"] # "idle") => \A n \in Threads : ~Alive(n)
    /\ Missing /\ pc["CHLD"] = "ch_mark" => wres # 0
    /\ disp["CHLD"] # "handler" => "CHLD" \notin pend /\ pc["CHLD"] = "idle"
    /\ pc["main"] \in Spawning => disp["CHLD"] # "handler"
    /\ (pc["main"] = "pid0" => cpc[0] # "unborn") /\ (pc["main"] = "pid1" => cpc[1] # "unborn")

\* A step that stores no pid, raises no SIGCHLD and reports over no missing
\* thread preserves the invariant.
LEMMA LackPlain ==
  ASSUME LackInv, KidsPlain, MainPlain, UNCHANGED <<pid, disp["CHLD"]>>,
         mon' = "ok" \/ (\E c \in Ctxs : pc'[c] \in ReportLabels) =>
            mon = "ok" \/ (\E c \in Ctxs : pc[c] \in ReportLabels) \/ ~Missing,
         "CHLD" \in pend' \/ pc'["CHLD"] # "idle" => "CHLD" \in pend \/ pc["CHLD"] # "idle",
         \A n \in Threads : cpc'[n] \in LivePlaces => cpc[n] \in LivePlaces,
         Missing /\ pc'["CHLD"] = "ch_mark" => wres' # 0
  PROVE  LackInv'
<1>1. 0 \in Threads /\ 1 \in Threads /\ Spawning \subseteq BeforeLoop
      /\ "pid0" \in Spawning /\ "pid1" \in Spawning
  BY DEF Threads, Spawning, BeforeLoop, PreStart, PreInt
<1>2. \A l \in Spawning : pc'["main"] = l => pc["main"] = l
  BY <1>1 DEF MainPlain
<1>3. (Missing' <=> Missing) /\ \A n \in Threads : cpc'[n] = "unborn" <=> cpc[n] = "unborn"
  BY DEF KidsPlain, Missing
<1> QED
  BY <1>1, <1>2, <1>3 DEF LackInv, Alive

\* The steps of main: while it spawns the threads, SIGCHLD is discarded.
LEMMA LackMain ==
  ASSUME StopInv, RunInv, LackInv, MainStep
  PROVE  LackInv'
<1> USE DEF At
<1>1. /\ TypeOK /\ cpc \in [Threads -> Places] /\ pc[cur] \in MainLabels /\ 0 \in Threads /\ 1 \in Threads
      /\ \A n \in Threads : n = 0 \/ n = 1
  BY WhoRuns DEF StopInv, TypeOK, Threads
<1>2. cur = "main" /\ (\A c \in Sigs : pc[c] = "idle") /\ "main" \in Ctxs /\ pc \in [Ctxs -> Labels]
  BY <1>1, MainAlone
<1>3. ASSUME NEW l, Goto(l) PROVE pc'["main"] = l /\ \A c \in Sigs : pc'[c] = "idle"
  BY <1>2, <1>3 DEF Goto, Ctxs, Sigs
<1>4. pc'["CHLD"] = "idle" /\ mon' # "ok" /\ \A c \in Ctxs : pc'[c] \notin ReportLabels
  <2>1. mon' # "ok"
    BY DEF MainStep, Spawn, SpawnFail, RecordPid, SetupChildSignals, ResetStop,
       SetupStopHandler, WaitReady, SetupMonitorTimer, StartThreads, ReadStartTime,
       SetTimeout, TestStop, SigSuspend
  <2>2. UNCHANGED pc \/ \E l : Goto(l) /\ l \notin ReportLabels
    BY DEF MainStep, Spawn, SpawnFail, RecordPid, SetupChildSignals, ResetStop,
       SetupStopHandler, WaitReady, SetupMonitorTimer, StartThreads, ReadStartTime,
       SetTimeout, TestStop, SigSuspend, ReportLabels
  <2>3. ASSUME UNCHANGED pc PROVE pc'["CHLD"] = "idle" /\ \A c \in Ctxs : pc'[c] \notin ReportLabels
    BY <1>1, <1>2, <2>3 DEF Ctxs, Sigs, MainLabels, ReportLabels
  <2>4. ASSUME NEW l, Goto(l), l \notin ReportLabels
        PROVE  pc'["CHLD"] = "idle" /\ \A c \in Ctxs : pc'[c] \notin ReportLabels
    BY <1>3, <2>4 DEF Ctxs, Sigs, ReportLabels
  <2> QED
    BY <2>1, <2>2, <2>3, <2>4
<1>5. ASSUME NEW n \in Threads, Spawn(n) PROVE LackInv'
  <2>1. UNCHANGED <<pid, disp, pend>> /\ \A m \in Threads : cpc'[m] = IF m = n THEN "setpid" ELSE cpc[m]
    BY <1>1, <1>5 DEF Spawn
  <2>2. pc["main"] \in Spawning
    BY <1>2, <1>5 DEF Spawn, Spawning
  <2>3. pc'["main"] \in (IF n = 0 THEN {"pid0", "spawn1"} ELSE {"pid1", "chld_sig"})
    BY <1>3, <1>5 DEF Spawn
  <2> QED
    BY <1>1, <1>4, <2>1, <2>2, <2>3 DEF LackInv, Missing
<1>6. ASSUME NEW n \in Threads, SpawnFail(n) PROVE LackInv'
  <2>1. UNCHANGED <<pid, disp, pend, cpc>> /\ pc["main"] \in Spawning
    BY <1>2, <1>6 DEF SpawnFail, Spawning
  <2>2. pc'["main"] = pc["main"] \/ pc'["main"] \in {"spawn1", "chld_sig"}
    BY <1>3, <1>6 DEF SpawnFail
  <2> QED
    BY <1>1, <1>4, <2>1, <2>2 DEF LackInv, Missing
<1>7. ASSUME NEW n \in Threads, RecordPid(n) PROVE LackInv'
  <2>1. /\ UNCHANGED <<disp, pend, cpc>> /\ pc["main"] = (IF n = 0 THEN "pid0" ELSE "pid1")
        /\ \A m \in Threads : m # n => pid'[m] = pid[m]
    BY <1>1, <1>2, <1>7 DEF RecordPid, TypeOK
  <2>2. pc'["main"] \in {"spawn1", "chld_sig"} /\ pc["main"] \in Spawning
    BY <1>3, <1>7, <2>1 DEF RecordPid, Spawning
  <2>3. cpc[n] # "unborn"
    BY <1>1, <2>1 DEF LackInv
  <2> QED
    BY <1>1, <1>4, <2>1, <2>2, <2>3 DEF LackInv, Missing
<1>8. CASE \/ SetupChildSignals \/ ResetStop \/ SetupStopHandler \/ WaitReady \/ SetupMonitorTimer
           \/ StartThreads \/ ReadStartTime \/ SetTimeout \/ TestStop \/ SigSuspend
  <2>1. UNCHANGED <<pid, pend, cpc>>
    BY <1>8 DEF SetupChildSignals, ResetStop, SetupStopHandler, WaitReady, SetupMonitorTimer,
       StartThreads, ReadStartTime, SetTimeout, TestStop, SigSuspend
  <2>2. pc'["main"] \notin Spawning
    <3>1. \E l : Goto(l) /\ l \notin Spawning
      BY <1>8 DEF SetupChildSignals, ResetStop, SetupStopHandler, WaitReady, SetupMonitorTimer,
         StartThreads, ReadStartTime, SetTimeout, TestStop, SigSuspend, Spawning
    <3> QED
      BY <1>3, <3>1
  <2>3. disp'["CHLD"] # "handler" => disp["CHLD"] # "handler"
    <3>1. disp \in [Sigs -> {"dfl", "ign", "handler"}]
      BY <1>1 DEF TypeOK
    <3> QED
      BY <1>8, <3>1 DEF SetupChildSignals, ResetStop, SetupStopHandler, WaitReady, SetupMonitorTimer,
         StartThreads, ReadStartTime, SetTimeout, TestStop, SigSuspend, Sigs
  <2>4. pc'["main"] # "pid0" /\ pc'["main"] # "pid1"
    BY <2>2 DEF Spawning
  <2>5. pc["CHLD"] = "idle"
    BY <1>2 DEF Sigs
  <2> QED
    BY <1>4, <2>1, <2>2, <2>3, <2>4, <2>5 DEF LackInv, Missing, Alive
<1> QED
  BY <1>5, <1>6, <1>7, <1>8 DEF MainStep

\* The steps of stop_handler: it waits until both pids are -1, which the pid
\* of a missing thread is not.
LEMMA LackStop ==
  ASSUME StopInv, RunInv, LackInv, KidsPlain, MainPlain, StopStep
  PROVE  LackInv'
<1> USE DEF At
<1>1. /\ TypeOK /\ pc \in [Ctxs -> Labels] /\ cur \in Ctxs /\ cur # "CHLD" /\ "CHLD" \in Ctxs
      /\ disp \in [Sigs -> {"dfl", "ign", "handler"}]
  BY CurFacts, WhoRuns DEF StopInv, TypeOK, Ctxs, Sigs
<1>2. UNCHANGED <<pid, wres, cpc>> /\ disp'["CHLD"] = disp["CHLD"]
      /\ ("CHLD" \in pend' => "CHLD" \in pend)
  BY <1>1 DEF StopStep, StopEnter, StopVisit, StopStopTimer, StopTimer, StopFlag,
     StopSignal, StopWait, StopCommCleanup, StopFinalStats, StopExit, Sigs
<1>3. UNCHANGED pc \/ Return \/ \E l : Goto(l)
  BY DEF StopStep, StopEnter, StopVisit, StopStopTimer, StopFlag,
     StopSignal, StopWait, StopCommCleanup, StopFinalStats, StopExit
<1>4. pc'["CHLD"] = pc["CHLD"]
  BY <1>1, <1>3, GotoPc, ReturnPc
<1>5. ASSUME NEW c \in Ctxs, pc'[c] \in ReportLabels, \A d \in Ctxs : pc[d] \notin ReportLabels
      PROVE  ~Missing
  <2>1. CASE StopWait
    <3>1. \A n \in Threads : pid[n] = DeadPid
      BY <2>1 DEF StopWait
    <3>2. NoPid # DeadPid
      BY DEF NoPid, DeadPid
    <3> QED
      BY <3>1, <3>2 DEF LackInv, Missing
  <2>2. CASE ~StopWait
    <3>1. \/ UNCHANGED pc \/ Return
          \/ \E l : Goto(l) /\ l \notin ReportLabels
      BY <1>1, <1>5, <2>2 DEF StopStep, StopEnter, StopVisit, StopStopTimer, StopFlag,
         StopSignal, StopCommCleanup, StopFinalStats, StopExit, ReportLabels
    <3>2. "idle" \notin ReportLabels
      BY DEF ReportLabels
    <3> QED
      BY <1>1, <1>5, <3>1, <3>2, GotoPc, ReturnPc
  <2> QED
    BY <2>1, <2>2
<1>6. ASSUME mon' = "ok" PROVE \E c \in Ctxs : pc[c] \in ReportLabels
  <2>1. CASE StopEnter
    <3>1. visited /\ Return /\ mon = "running" /\ pc[cur] = "sh_enter"
      BY <1>6, <2>1 DEF StopEnter
    <3>2. cur = "main" /\ Len(stack) = 1
      BY <1>6, <3>1, CurFacts, ReturnPc DEF StopInv
    <3>3. \A c \in Sigs : pc[c] = "idle"
      BY <3>2 DEF StopInv, StackOK, Ctxs, Sigs
    <3>4. \A c \in Ctxs : pc[c] \notin StoppingLabels
      BY <3>1, <3>2, <3>3, LabelsApart DEF Ctxs
    <3> QED
      BY <3>1, <3>4 DEF RunInv, VisitOK
  <2>2. CASE ~StopEnter
    <3>1. pc[cur] \in ReportLabels
      BY <1>6, <2>2 DEF StopStep, StopVisit, StopStopTimer, StopFlag,
         StopSignal, StopWait, StopCommCleanup, StopFinalStats, StopExit, ReportLabels
    <3> QED
      BY <1>1, <3>1
  <2> QED
    BY <2>1, <2>2
<1>7. Missing /\ pc'["CHLD"] = "ch_mark" => wres' # 0
  BY <1>2, <1>4 DEF LackInv
<1> QED
  BY <1>2, <1>4, <1>5, <1>6, <1>7, LackPlain

\* The steps of monitor_interrupt.
LEMMA LackIntr ==
  ASSUME StopInv, LackInv, KidsPlain, MainPlain, IntrStep
  PROVE  LackInv'
<1> USE DEF At
<1>1. /\ TypeOK /\ pc \in [Ctxs -> Labels] /\ cur = "ALRM" /\ {"ALRM", "CHLD"} \subseteq Ctxs
      /\ cpc \in [Threads -> Places]
  BY WhoRuns DEF StopInv, TypeOK, Ctxs, Sigs
<1>2. /\ UNCHANGED <<pid, wres, disp, pend>>
      /\ UNCHANGED cpc \/ \E z \in Threads : cpc[z] = "zombie" /\ Reap(z)
  BY DEF IntrStep, IntrEnter, IntrReadTime, IntrWait4, IntrStore, IntrTimeout, Waitable, Zombies
<1>3. \/ Return \/ \E l : Goto(l) /\ UNCHANGED mon /\ l \notin ReportLabels
  BY DEF IntrStep, IntrEnter, IntrReadTime, IntrWait4, IntrStore, IntrTimeout, ReportLabels
<1>4. /\ pc'["CHLD"] = pc["CHLD"] /\ mon' = mon
      /\ \A c \in Ctxs : pc'[c] = pc[c] \/ pc'[c] \notin ReportLabels
  <2>1. "idle" \notin ReportLabels
    BY DEF ReportLabels
  <2> QED
    BY <1>1, <1>3, <2>1, GotoPc, ReturnPc
<1>5. \A n \in Threads : cpc'[n] \in LivePlaces => cpc[n] \in LivePlaces
  BY <1>1, <1>2 DEF Reap, LivePlaces, EarlyPlaces
<1>6. Missing /\ pc'["CHLD"] = "ch_mark" => wres' # 0
  BY <1>2, <1>4 DEF LackInv
<1> QED
  BY <1>2, <1>4, <1>5, <1>6, LackPlain

\* The steps of child_handler: when a thread is missing and the handler runs,
\* whatever else there is to wait for has died.
LEMMA LackChld ==
  ASSUME StopInv, LackInv, KidsPlain, MainPlain, ChldStep
  PROVE  LackInv'
<1> USE DEF At
<1>1. /\ TypeOK /\ pc \in [Ctxs -> Labels] /\ cur = "CHLD" /\ "CHLD" \in Ctxs
      /\ cpc \in [Threads -> Places] /\ disp \in [Sigs -> {"dfl", "ign", "handler"}]
      /\ pc["CHLD"] # "idle"
  BY WhoRuns, LabelsApart DEF StopInv, TypeOK, Ctxs, Sigs
<1>2. /\ disp'["CHLD"] = disp["CHLD"]
      /\ UNCHANGED cpc \/ \E z \in Threads : cpc[z] = "zombie" /\ Reap(z)
  BY <1>1 DEF ChldStep, ChldWait, ChldMark, ChldStop, ChldStopTimer, StopTimer, Zombies, Sigs
<1>3. \/ Return \/ \E l : Goto(l) /\ UNCHANGED mon /\ l \notin ReportLabels
  BY DEF ChldStep, ChldWait, ChldMark, ChldStop, ChldStopTimer, ReportLabels
<1>4. mon' = mon /\ \A c \in Ctxs : pc'[c] = pc[c] \/ pc'[c] \notin ReportLabels
  <2>1. "idle" \notin ReportLabels
    BY DEF ReportLabels
  <2> QED
    BY <1>1, <1>3, <2>1, GotoPc, ReturnPc
<1>5. \A n \in Threads : cpc'[n] \in LivePlaces => cpc[n] \in LivePlaces
  BY <1>1, <1>2 DEF Reap, LivePlaces, EarlyPlaces
<1>6. \A n \in Threads : Pid(n) # 0
  BY DEF Pid, Threads
<1>7. Missing => \A n \in Threads : ~Alive(n)
  BY <1>1 DEF LackInv
<1>8. Missing /\ pc'["CHLD"] = "ch_mark" => wres' # 0
  <2>1. CASE ChldWait
    <3>1. ASSUME Missing PROVE WaitTargets(-1) = {} \/ Zombies # {}
      BY <1>1, <1>7, <3>1 DEF WaitTargets, Zombies, Alive, Places
    <3>2. Return => pc'["CHLD"] = "idle"
      BY <1>1, ReturnPc
    <3> QED
      BY <1>6, <2>1, <3>1, <3>2 DEF ChldWait, Zombies
  <2>2. CASE ~ChldWait
    <3>1. Return \/ \E l : Goto(l) /\ l # "ch_mark"
      BY <2>2 DEF ChldStep, ChldMark, ChldStop, ChldStopTimer
    <3> QED
      BY <1>1, <3>1, GotoPc, ReturnPc
  <2> QED
    BY <2>1, <2>2
<1>9. CASE ~ChldMark
  <2>1. UNCHANGED pid
    BY <1>9 DEF ChldStep, ChldWait, ChldStop, ChldStopTimer
  <2> QED
    BY <1>1, <1>2, <1>4, <1>5, <1>8, <2>1, LackPlain
<1>10. CASE ChldMark
  <2>1. CASE ~Missing
    <3>1. ~Missing' /\ \A n \in Threads : cpc'[n] # "unborn"
      BY <2>1 DEF KidsPlain, Missing
    <3>2. disp["CHLD"] = "handler" /\ pc["main"] \notin Spawning /\ disp'["CHLD"] = "handler"
      BY <1>1, <1>2 DEF LackInv
    <3>3. Spawning \subseteq BeforeLoop /\ {0, 1} \subseteq Threads
      BY DEF Spawning, BeforeLoop, PreStart, PreInt, Threads
    <3>4. pc'["main"] \notin Spawning
      BY <3>2, <3>3 DEF MainPlain
    <3> QED
      BY <3>1, <3>2, <3>3, <3>4 DEF LackInv
  <2>2. CASE Missing
    <3>1. wres # 0 /\ UNCHANGED <<cpc, pend>>
      BY <1>1, <1>10, <2>2 DEF ChldMark, LackInv
    <3>2. \A n \in Threads : cpc[n] = "unborn" => pid'[n] = NoPid
      <4>1. CASE UNCHANGED pid
        BY <4>1 DEF LackInv
      <4>2. CASE Matches(wres) # {} /\ pid' = [pid EXCEPT ![Marked(wres)] = DeadPid]
        <5>1. Marked(wres) \in Threads /\ pid[Marked(wres)] = wres
          BY <4>2 DEF Matches, Marked, Threads
        <5>2. cpc[Marked(wres)] # "unborn"
          BY <3>1, <5>1 DEF LackInv, NoPid
        <5>3. pid \in [Threads -> {NoPid, DeadPid, Pid(0), Pid(1)}]
          BY <1>1 DEF TypeOK
        <5> QED
          BY <4>2, <5>2, <5>3 DEF LackInv
      <4> QED
        BY <1>10, <4>1, <4>2 DEF ChldMark
    <3>3. disp["CHLD"] = "handler" /\ pc["main"] \notin Spawning /\ disp'["CHLD"] = "handler"
      BY <1>1, <1>2 DEF LackInv
    <3>4. Spawning \subseteq BeforeLoop /\ "pid0" \in Spawning /\ "pid1" \in Spawning
      BY DEF Spawning, BeforeLoop, PreStart, PreInt
    <3>5. pc'["main"] \notin Spawning
      BY <3>3, <3>4 DEF MainPlain
    <3>6. Missing' <=> Missing
      BY <3>1 DEF Missing
    <3> QED
      BY <1>4, <1>7, <1>8, <2>2, <3>1, <3>2, <3>3, <3>4, <3>5, <3>6 DEF LackInv, Alive
  <2> QED
    BY <2>1, <2>2
<1> QED
  BY <1>9, <1>10

\* The steps of the threads: when one is missing and the other dies, nobody
\* is left alive.
LEMMA LackChild ==
  ASSUME StopInv, LackInv, KidsPlain, MainPlain, NEW n \in Threads, Child(n) \/ Crash(n)
  PROVE  LackInv'
<1>1. /\ TypeOK /\ cpc \in [Threads -> Places] /\ UNCHANGED <<pc, wres, mon, disp>>
      /\ \A m \in Threads : m = 0 \/ m = 1
  BY ChildShape DEF StopInv, TypeOK, Crash, Threads
<1>2. cpc[n] \in LivePlaces
  BY ConstantsAssumption DEF ConstantsAssumption, Crash, Child, ChildSetPid, ChildOnParentDeath,
     ChildSetupInterruptSignal, ChildSetAffinity, ChildReady, ChildStart, ChildInterrupted,
     ChildReadSched, ChildExit, OrphanDies, ChildSigint, Moves, Alive, LivePlaces, EarlyPlaces
<1>3. \A m \in Threads : m # n => cpc'[m] = cpc[m] /\ pid'[m] = pid[m]
  <2>1. pid \in [Threads -> {NoPid, DeadPid, Pid(0), Pid(1)}]
    BY <1>1 DEF TypeOK
  <2> QED
    BY <1>1, <2>1 DEF Crash, Child, ChildSetPid, ChildOnParentDeath,
       ChildSetupInterruptSignal, ChildSetAffinity, ChildReady, ChildStart, ChildInterrupted,
       ChildReadSched, ChildExit, OrphanDies, ChildSigint, Moves, Die
<1>4. "unborn" \notin LivePlaces
  BY DEF LivePlaces, EarlyPlaces
<1>5. (Missing' <=> Missing) /\ cpc'[n] # "unborn"
  BY <1>2, <1>4 DEF KidsPlain, Missing
<1>6. Missing => "CHLD" \notin pend /\ pc["CHLD"] = "idle"
  BY <1>2 DEF LackInv, Alive
<1>7. \/ UNCHANGED pend
      \/ cpc'[n] \notin LivePlaces /\ disp["CHLD"] = "handler"
  <2>1. CASE Die(n)
    <3>1. cpc'[n] \in {"zombie", "gone"}
      BY <1>1, <2>1 DEF Die
    <3> QED
      BY <2>1, <3>1 DEF Die, LivePlaces, EarlyPlaces
  <2>2. CASE ~Die(n)
    BY <2>2 DEF Crash, Child, ChildSetPid, ChildOnParentDeath,
       ChildSetupInterruptSignal, ChildSetAffinity, ChildReady, ChildStart, ChildInterrupted,
       ChildReadSched, ChildExit, OrphanDies, ChildSigint
  <2> QED
    BY <2>1, <2>2
<1>8. ASSUME Missing, cpc'[n] \notin LivePlaces PROVE \A m \in Threads : cpc'[m] \notin LivePlaces
  <2>1. PICK k \in Threads : cpc[k] = "unborn"
    BY <1>8 DEF Missing
  <2> QED
    BY <1>1, <1>2, <1>3, <1>4, <1>8, <2>1
<1>9. \A m \in Threads : cpc'[m] = "unborn" => cpc[m] = "unborn" /\ pid'[m] = pid[m]
  BY <1>3, <1>5
<1>10. \A m \in Threads : cpc[m] # "unborn" => cpc'[m] # "unborn"
  BY DEF KidsPlain
<1>11. 0 \in Threads /\ 1 \in Threads
  BY DEF Threads
<1> QED
  BY <1>1, <1>5, <1>6, <1>7, <1>8, <1>9, <1>10, <1>11 DEF LackInv, Alive

\* Every step preserves the invariant.
LEMMA LackNext ==
  ASSUME StopInv, RunInv, LackInv, [Next]_vars
  PROVE  LackInv'
<1>1. /\ TypeOK /\ pc \in [Ctxs -> Labels] /\ cur \in Ctxs /\ pc[cur] # "idle"
      /\ "CHLD" \in Ctxs
  BY CurFacts DEF StopInv, TypeOK, Ctxs, Sigs
<1>2. CASE MainStep
  BY <1>2, LackMain
<1>3. CASE ~MainStep
  <2>1. KidsPlain /\ MainPlain
    BY <1>3, OthersKids, OthersPlain DEF RunInv
  <2>2. CASE StopStep \/ IntrStep \/ ChldStep
    BY <2>1, <2>2, LackStop, LackIntr, LackChld
  <2>3. ASSUME NEW n \in Threads, Child(n) \/ Crash(n) PROVE LackInv'
    BY <2>1, <2>3, LackChild
  <2>4. ASSUME NEW s \in Sigs, Deliver(s) PROVE LackInv'
    <3>1. /\ UNCHANGED <<pid, wres, cpc, mon, disp>> /\ pc[s] = "idle" /\ s \in pend
          /\ pend' = pend \ {s}
      BY <2>4 DEF Deliver, Deliverable
    <3>2. /\ \A c \in Ctxs \ {cur, s} : pc'[c] = pc[c]
          /\ pc'[s] = Entry(s)
          /\ pc'[cur] = IF pc[cur] = "suspended" THEN "loop" ELSE pc[cur]
      BY <1>1, <2>4, <3>1 DEF Deliver, Ctxs
    <3>3. {Entry(s), "loop"} \cap (ReportLabels \cup {"ch_mark"}) = {}
      BY DEF Entry, Sigs, ReportLabels
    <3>4. \A c \in Ctxs : pc'[c] = pc[c] \/ pc'[c] \notin ReportLabels \cup {"ch_mark"}
      BY <3>2, <3>3
    <3>5. "CHLD" \in pend' \/ pc'["CHLD"] # "idle" => "CHLD" \in pend \/ pc["CHLD"] # "idle"
      BY <1>1, <3>1, <3>2
    <3>6. Missing /\ pc'["CHLD"] = "ch_mark" => wres' # 0
      BY <1>1, <3>1, <3>4 DEF LackInv
    <3> QED
      BY <2>1, <3>1, <3>4, <3>5, <3>6, LackPlain
  <2>5. CASE Tick \/ Advance \/ SendSigint \/ UNCHANGED vars
    <3>1. UNCHANGED <<pid, wres, cpc, pc, disp>> /\ ("CHLD" \in pend' => "CHLD" \in pend)
          /\ (mon' = "ok" => mon = "ok")
      BY <2>5 DEF Tick, Advance, SendSigint
    <3>2. Missing /\ pc'["CHLD"] = "ch_mark" => wres' # 0
      BY <3>1 DEF LackInv
    <3> QED
      BY <2>1, <3>1, <3>2, LackPlain
  <2> QED
    BY <1>3, <2>2, <2>3, <2>4, <2>5 DEF Next, MonitorStep, Over
<1> QED
  BY <1>2, <1>3

\* A thread that fork() or clone() could not make is never taken for dead, and
\* a run that lacks it is not started, prints no totals and does not end with
\* success: in both modes, whatever else dies and whoever sends SIGINT.
THEOREM NoThreadNoRunHolds == Spec => []NoThreadNoRun
<1>1. Init => LackInv
  BY DEF Init, LackInv, Ctxs, Sigs, ReportLabels, Spawning
<1>2. StopInv /\ RunInv /\ LackInv /\ [Next]_vars => LackInv'
  BY LackNext
<1>3. StopInv /\ RunInv /\ LackInv => NoThreadNoRun
  <2> SUFFICES ASSUME StopInv, RunInv, LackInv, NEW n \in Threads, cpc[n] = "unborn"
               PROVE  ~start /\ pid[n] # DeadPid /\ ~printed /\ mon # "ok"
    BY DEF NoThreadNoRun
  <2>1. ~start
    BY DEF RunInv, StartOK, LatePlaces
  <2>2. pid[n] # DeadPid
    BY DEF LackInv, NoPid, DeadPid
  <2>3. ~printed /\ mon # "ok"
    BY DEF RunInv, VisitOK, LackInv, Missing, ReportLabels
  <2> QED
    BY <2>1, <2>2, <2>3
<1> QED
  BY <1>1, <1>2, <1>3, RunInvariant, PTL DEF Spec

-----------------------------------------------------------------------------
\* The pids that stop_threads signals

\* stop_handler after it has signalled thread n.
PastKill(n) == {"sh_wait", "sh_cleanup", "sh_final", "sh_exit"} \cup
               (IF n = 0 THEN {"sh_kill1"} ELSE {})

\* A thread that ends or is about to.
Ending == {"intr", "exit", "zombie", "gone"}

\* Nobody but stop_threads ends a thread.
KillOK ==
    /\ \A n \in Threads : ~kint[n]
    /\ mon = "running" => \A n \in Threads :
          usr[n] \/ cpc[n] \in Ending => \E c \in Ctxs : pc[c] \in PastKill(n)

\* Only stop_handler's own steps move a context that is inside it.
LEMMA StoppersRest ==
  ASSUME StopInv, [Next]_vars, ~StopStep
  PROVE  /\ \A c \in Ctxs : pc[c] \in StopLabels => pc'[c] = pc[c]
         /\ \A c \in Ctxs : pc'[c] \in StoppingLabels => pc'[c] = pc[c]
<1>1. cur \in Ctxs /\ pc[cur] # "idle" /\ pc \in [Ctxs -> Labels] /\ TypeOK
  BY CurFacts DEF StopInv, TypeOK
<1>2. CASE MainStep \/ IntrStep \/ ChldStep
  <2>1. pc[cur] \notin StopLabels /\ cur \in Ctxs
    BY <1>1, <1>2, WhoRuns, LabelsApart
  <2>2. Steady
    <3>1. ~StopVisit /\ ~StopFinalStats
      BY DEF StopStep
    <3> QED
      BY <3>1, StepSteady
  <2>3. UNCHANGED pc \/ Return \/ \E l : Goto(l)
    BY <1>2 DEF MainStep, Spawn, SpawnFail, RecordPid, SetupChildSignals, ResetStop,
       SetupStopHandler, WaitReady, SetupMonitorTimer, StartThreads, ReadStartTime,
       SetTimeout, TestStop, SigSuspend, IntrStep, IntrEnter, IntrReadTime, IntrWait4,
       IntrStore, IntrTimeout, ChldStep, ChldWait, ChldMark, ChldStop, ChldStopTimer
  <2>4. \A c \in Ctxs : c # cur => pc'[c] = pc[c]
    BY <2>3, GotoPc, ReturnPc
  <2> QED
    BY <2>1, <2>2, <2>4, LabelsApart DEF Steady
<1>3. ASSUME NEW s \in Sigs, Deliver(s)
      PROVE  /\ \A c \in Ctxs : pc[c] \in StopLabels => pc'[c] = pc[c]
             /\ \A c \in Ctxs : pc'[c] \in StoppingLabels => pc'[c] = pc[c]
  <2>1. pc[s] = "idle" /\ s \in Ctxs
    BY <1>3 DEF Deliver, Deliverable, Ctxs
  <2>2. \A c \in Ctxs : \/ pc'[c] = pc[c]
                        \/ pc[c] = "suspended" /\ pc'[c] = "loop"
                        \/ pc[c] = "idle" /\ pc'[c] = Entry(s)
    BY <1>1, <1>3, <2>1 DEF Deliver, Ctxs
  <2>3. Entry(s) \notin StoppingLabels /\ "loop" \notin StoppingLabels
    BY DEF Entry, Sigs, StoppingLabels
  <2>4. "suspended" \notin StopLabels /\ "idle" \notin StopLabels
    BY DEF StopLabels, StoppingLabels
  <2> QED
    BY <2>2, <2>3, <2>4
<1>4. CASE Tick \/ Advance \/ SendSigint \/ UNCHANGED vars
  BY <1>4 DEF Tick, Advance, SendSigint
<1>5. ASSUME NEW n \in Threads, Child(n) \/ Crash(n) PROVE UNCHANGED pc
  BY <1>1, <1>5, ChildShape DEF Crash
<1> QED
  BY <1>2, <1>3, <1>4, <1>5 DEF Next, MonitorStep, Over

\* Once stop_handler has signalled a thread it stays behind that point.
LEMMA PastStays ==
  ASSUME StopInv, [Next]_vars, NEW n \in Threads, NEW c \in Ctxs, pc[c] \in PastKill(n)
  PROVE  pc'[c] \in PastKill(n)
<1> USE DEF At
<1>1. PastKill(n) \subseteq StopLabels
  BY DEF PastKill, StopLabels, StoppingLabels
<1>2. CASE ~StopStep
  BY <1>1, <1>2, StoppersRest
<1>3. CASE StopStep
  <2>1. CASE c # cur
    <3>1. UNCHANGED pc \/ Return \/ \E l : Goto(l)
      BY <1>3 DEF StopStep, StopEnter, StopVisit, StopStopTimer, StopFlag,
         StopSignal, StopWait, StopCommCleanup, StopFinalStats, StopExit
    <3> QED
      BY <2>1, <3>1, GotoPc, ReturnPc
  <2>2. CASE c = cur
    <3>1. ASSUME NEW l, Goto(l) PROVE pc'[c] = l
      BY <2>2, <3>1, GotoPc
    <3>2. pc[cur] \in {"sh_kill1", "sh_wait", "sh_cleanup", "sh_final", "sh_exit"}
      BY <2>2 DEF PastKill
    <3>3. \/ UNCHANGED pc
          \/ pc'[c] \in {"sh_wait", "sh_cleanup", "sh_final", "sh_exit"}
      <4>1. CASE UNCHANGED pc
        BY <4>1
      <4>2. CASE \E l \in {"sh_wait", "sh_cleanup", "sh_final", "sh_exit"} : Goto(l)
        BY <3>1, <4>2
      <4> QED
        BY <1>3, <3>2, <4>1, <4>2 DEF StopStep, StopEnter, StopVisit, StopStopTimer,
           StopFlag, StopSignal, StopWait, StopCommCleanup, StopFinalStats, StopExit
    <3> QED
      BY <2>2, <3>3 DEF PastKill
  <2> QED
    BY <2>1, <2>2
<1> QED
  BY <1>2, <1>3

\* The monitor does not come back once it has ended.
LEMMA MonStays == ASSUME [Next]_vars, mon' = "running" PROVE mon = "running"
  BY DEF At, Next, MonitorStep, MainStep, Spawn, SpawnFail, RecordPid, SetupChildSignals, ResetStop,
     SetupStopHandler, WaitReady, SetupMonitorTimer, StartThreads, ReadStartTime,
     SetTimeout, TestStop, SigSuspend, IntrStep, IntrEnter, IntrReadTime, IntrWait4,
     IntrStore, IntrTimeout, ChldStep, ChldWait, ChldMark, ChldStop, ChldStopTimer,
     StopStep, StopEnter, StopVisit, StopStopTimer, StopFlag,
     StopSignal, StopWait, StopCommCleanup, StopFinalStats, StopExit, Deliver, Tick, Advance,
     SendSigint, Crash, Over, Child, ChildSetPid, ChildOnParentDeath,
     ChildSetupInterruptSignal, ChildSetAffinity, ChildReady, ChildStart,
     ChildInterrupted, ChildReadSched, ChildExit, OrphanDies, ChildSigint

\* A thread ends, or gets its stop signal, only by stop_threads.
LEMMA KillNext ==
  ASSUME SigintScope = "monitor", MaxCrash = 0, BadCpu = {},
         StopInv, RunInv, KillOK, [Next]_vars
  PROVE  KillOK'
<1> USE DEF At
<1>1. /\ TypeOK /\ cpc \in [Threads -> Places] /\ usr \in [Threads -> BOOLEAN]
      /\ kint \in [Threads -> BOOLEAN] /\ cur \in Ctxs /\ crashes = 0
  BY CurFacts DEF StopInv, TypeOK
<1>2. \A n \in Threads : ~kint[n]
  BY DEF KillOK
<1> DEFINE Calm == /\ \A n \in Threads : ~kint'[n]
                   /\ mon = "running" => \A n \in Threads :
                         usr'[n] \/ cpc'[n] \in Ending => usr[n] \/ cpc[n] \in Ending
<1>3. ASSUME Calm PROVE KillOK'
  BY <1>3, MonStays, PastStays DEF KillOK
<1>4. ASSUME UNCHANGED <<cpc, usr, kint>> PROVE KillOK'
  BY <1>2, <1>3, <1>4
<1>5. ASSUME NEW z \in Threads, cpc[z] = "zombie", Reap(z) PROVE KillOK'
  BY <1>1, <1>2, <1>3, <1>5 DEF Reap, Ending
<1>6. ASSUME NEW n \in Threads, Die(n), mon = "running" => usr[n] \/ cpc[n] \in Ending PROVE KillOK'
  <2>1. \A m \in Threads : m # n => cpc'[m] = cpc[m] /\ usr'[m] = usr[m]
    BY <1>1, <1>6 DEF Die
  <2>2. \A m \in Threads : ~kint'[m]
    BY <1>1, <1>2, <1>6 DEF Die
  <2> QED
    BY <1>3, <1>6, <2>1, <2>2
<1>7. ASSUME NEW n \in Threads, NEW p, NEW q, Moves(n, p, q), UNCHANGED <<usr, kint>>,
             q \in Ending => p \in Ending
      PROVE  KillOK'
  BY <1>1, <1>2, <1>3, <1>7 DEF Moves
<1>8. CASE MainStep
  <2>1. ASSUME NEW n \in Threads, Spawn(n) PROVE KillOK'
    <3>1. UNCHANGED <<usr, kint>> /\ \A m \in Threads : cpc'[m] = cpc[m] \/ cpc'[m] = "setpid"
      BY <1>1, <2>1 DEF Spawn
    <3> QED
      BY <1>2, <1>3, <3>1 DEF Ending
  <2> QED
    BY <1>4, <1>8, <2>1 DEF MainStep, SpawnFail, RecordPid, SetupChildSignals, ResetStop,
       SetupStopHandler, WaitReady, SetupMonitorTimer, StartThreads, ReadStartTime,
       SetTimeout, TestStop, SigSuspend
<1>9. ASSUME NEW n \in Threads, StopSignal(n) PROVE KillOK'
  <2>1. UNCHANGED <<cpc, kint>> /\ \A m \in Threads : m # n => usr'[m] = usr[m]
    BY <1>1, <1>9 DEF StopSignal
  <2>2. pc'[cur] \in PastKill(n)
    BY <1>9, GotoPc DEF StopSignal, PastKill
  <2>3. \A m \in Threads : ~kint'[m]
    BY <1>2, <2>1
  <2> QED
    BY <1>1, <2>1, <2>2, <2>3, MonStays, PastStays DEF KillOK
<1>10. CASE StopStep /\ ~\E n \in Threads : StopSignal(n)
  BY <1>4, <1>10 DEF StopStep, StopEnter, StopVisit, StopStopTimer, StopFlag,
     StopWait, StopCommCleanup, StopFinalStats, StopExit
<1>11. CASE IntrStep \/ ChldStep
  <2>1. UNCHANGED <<cpc, usr, kint>> \/ \E z \in Threads : cpc[z] = "zombie" /\ Reap(z)
    BY <1>11 DEF IntrStep, IntrEnter, IntrReadTime, IntrWait4, IntrStore, IntrTimeout,
       ChldStep, ChldWait, ChldMark, ChldStop, ChldStopTimer, Zombies, Waitable
  <2> QED
    BY <1>4, <1>5, <2>1
<1>12. ASSUME NEW n \in Threads, Child(n) PROVE KillOK'
  <2>1. CASE ChildSetPid(n) \/ ChildOnParentDeath(n) \/ ChildSetupInterruptSignal(n)
             \/ ChildReady(n) \/ ChildStart(n) \/ ChildReadSched(n)
    BY <1>7, <2>1 DEF ChildSetPid, ChildOnParentDeath, ChildSetupInterruptSignal,
       ChildReady, ChildStart, ChildReadSched, Ending
  <2>2. CASE ChildSetAffinity(n)
    BY <1>7, <2>2 DEF ChildSetAffinity, Ending
  <2>3. CASE ChildInterrupted(n)
    <3>1. CASE cpc[n] \in EarlyPlaces
      BY <1>6, <2>3, <3>1 DEF ChildInterrupted
    <3>2. CASE cpc[n] \notin EarlyPlaces
      <4>1. usr[n] /\ UNCHANGED kint
        BY <2>3, <3>2 DEF ChildInterrupted
      <4>2. \A m \in Threads : m # n => cpc'[m] = cpc[m] /\ usr'[m] = usr[m]
        BY <1>1, <2>3, <3>2 DEF ChildInterrupted
      <4> QED
        BY <1>2, <1>3, <4>1, <4>2
    <3> QED
      BY <3>1, <3>2
  <2>4. CASE ChildExit(n) \/ OrphanDies(n)
    BY <1>6, <2>4 DEF ChildExit, OrphanDies, Ending
  <2>5. ~ChildSigint(n)
    BY <1>2 DEF ChildSigint
  <2> QED
    BY <1>12, <2>1, <2>2, <2>3, <2>4, <2>5 DEF Child
<1>13. ASSUME NEW s \in Sigs, Deliver(s) PROVE KillOK'
  BY <1>4, <1>13 DEF Deliver
<1>14. CASE Tick \/ Advance \/ UNCHANGED vars
  BY <1>4, <1>14 DEF Tick, Advance
<1>15. CASE SendSigint
  <2>1. UNCHANGED <<cpc, usr>> /\ \A n \in Threads : kint'[n] = kint[n]
    BY <1>1, <1>15 DEF SendSigint
  <2> QED
    BY <1>2, <1>3, <2>1
<1>16. \A n \in Threads : ~Crash(n)
  BY <1>1 DEF Crash
<1> QED
  BY <1>8, <1>9, <1>10, <1>11, <1>12, <1>13, <1>14, <1>15, <1>16 DEF Next, MonitorStep, Over

\* When nobody else kills a thread, stop_threads signals no process that has
\* been reaped, so never a stranger: this holds for fork() and clone(), and
\* for any number of SIGINTs sent to the monitor.
THEOREM NoStaleSignalHolds ==
  ASSUME SigintScope = "monitor", MaxCrash = 0, BadCpu = {}
  PROVE  Spec => []NoStaleSignal
<1>1. Init => KillOK
  BY DEF Init, KillOK, Ending
<1>2. StopInv /\ RunInv /\ KillOK /\ [Next]_vars => KillOK'
  BY KillNext
<1>3. StopInv /\ KillOK => NoStaleSignal
  <2> SUFFICES ASSUME StopInv, KillOK, NEW n \in Threads, cpc[n] = "gone", mon = "running",
                      pc[cur] = (IF n = 0 THEN "sh_kill0" ELSE "sh_kill1")
               PROVE  FALSE
    BY DEF NoStaleSignal, At
  <2>1. PICK c \in Ctxs : pc[c] \in PastKill(n)
    BY DEF KillOK, Ending
  <2>2. cur \in Ctxs /\ pc[cur] \in StoppingLabels /\ pc[c] \in StoppingLabels
    BY <2>1, CurFacts DEF StopInv, StoppingLabels, PastKill
  <2>3. c = cur
    BY <2>2, StopInvImplies DEF OneStopper
  <2> QED
    BY <2>1, <2>3 DEF PastKill
<1> QED
  BY <1>1, <1>2, <1>3, RunInvariant, PTL DEF Spec

-----------------------------------------------------------------------------
\* The scheduling data in the report

\* Nobody but the monitor has ended a thread so far.
Undisturbed == crashes = 0 /\ (SigintScope = "monitor" \/ sigints = 0)

\* A thread that had become ready leaves its scheduling data before it ends.
SchedOK ==
    Undisturbed =>
      /\ \A n \in Threads : ~kint[n]
      /\ mon = "running" => \A n \in Threads :
            ready[n] /\ cpc[n] \in {"exit", "zombie", "gone"} => sched[n]
      /\ \A c \in Ctxs : pc[c] \in ReportLabels /\ start => \A n \in Threads : sched[n]

\* Every step preserves that, provided a pid of -1 can be trusted.
LEMMA SchedNext ==
  ASSUME StopInv, RunInv, SchedOK, [Next]_vars,
         \A n \in Threads : pid[n] = DeadPid => cpc[n] = "gone"
  PROVE  SchedOK'
<1> USE DEF At
<1>1. /\ TypeOK /\ cpc \in [Threads -> Places] /\ kint \in [Threads -> BOOLEAN]
      /\ ready \in [Threads -> BOOLEAN] /\ sched \in [Threads -> BOOLEAN]
      /\ cur \in Ctxs /\ crashes \in Nat /\ sigints \in Nat
  BY CurFacts DEF StopInv, TypeOK
<1>2. Undisturbed' => Undisturbed
  <2>1. \A n \in Threads : Child(n) => UNCHANGED <<crashes, sigints>>
    BY <1>1, ChildShape
  <2>2. crashes' \in {crashes, crashes + 1} /\ sigints' \in {sigints, sigints + 1}
    BY <2>1 DEF Next, MonitorStep, MainStep, Spawn, SpawnFail, RecordPid, SetupChildSignals,
       ResetStop, SetupStopHandler, WaitReady, SetupMonitorTimer, StartThreads, ReadStartTime,
       SetTimeout, TestStop, SigSuspend, IntrStep, IntrEnter, IntrReadTime, IntrWait4,
       IntrStore, IntrTimeout, ChldStep, ChldWait, ChldMark, ChldStop, ChldStopTimer,
       StopStep, StopEnter, StopVisit, StopStopTimer, StopFlag, StopSignal, StopWait,
       StopCommCleanup, StopFinalStats, StopExit, Deliver, Tick, Advance, SendSigint, Crash, Over
  <2> QED
    BY <1>1, <2>2 DEF Undisturbed
<1> SUFFICES ASSUME Undisturbed', Undisturbed PROVE SchedOK'
  BY <1>2 DEF SchedOK
<1>3. \A n \in Threads : ~kint[n]
  BY DEF SchedOK
<1> DEFINE Done == {"exit", "zombie", "gone"}
           Kids == /\ \A n \in Threads : ~kint'[n]
                   /\ \A n \in Threads : sched[n] => sched'[n]
                   /\ mon = "running" => \A n \in Threads :
                         ready'[n] /\ cpc'[n] \in Done => (ready[n] /\ cpc[n] \in Done) \/ sched'[n]
           Late == \A c \in Ctxs : pc'[c] \in ReportLabels /\ start' =>
                      \/ pc[c] \in ReportLabels /\ start
                      \/ \A n \in Threads : sched[n]
<1>4. ASSUME Kids, Late PROVE SchedOK'
  BY <1>4, MonStays DEF SchedOK
<1>5. ASSUME UNCHANGED <<cpc, kint, ready, sched>> PROVE Kids
  BY <1>3, <1>5
<1>6. ASSUME NEW z \in Threads, cpc[z] = "zombie", Reap(z), UNCHANGED <<ready, sched>> PROVE Kids
  BY <1>1, <1>3, <1>6 DEF Reap
<1>7. ASSUME NEW n \in Threads, Die(n), UNCHANGED <<ready, sched>>,
             mon = "running" /\ ready[n] => cpc[n] \in Done
      PROVE  Kids
  <2>1. \A m \in Threads : m # n => cpc'[m] = cpc[m]
    BY <1>1, <1>7 DEF Die
  <2>2. \A m \in Threads : ~kint'[m]
    BY <1>1, <1>3, <1>7 DEF Die
  <2> QED
    BY <1>7, <2>1, <2>2
<1>8. CASE ~StopStep
  <2>1. Late
    <3>1. \A c \in Ctxs : pc'[c] \in ReportLabels => pc'[c] = pc[c]
      BY <1>8, StoppersRest DEF ReportLabels, StoppingLabels
    <3>2. CASE MainStep
      <4>1. \A c \in Ctxs : pc[c] \notin ReportLabels
        <5>1. pc[cur] \in MainLabels /\ cur = "main" /\ \A c \in Sigs : pc[c] = "idle"
          BY <3>2, WhoRuns, MainAlone
        <5> QED
          BY <5>1 DEF Ctxs, MainLabels, ReportLabels
      <4> QED
        BY <3>1, <4>1
    <3>3. CASE ~MainStep
      BY <3>1, <3>3, OthersKids DEF RunInv
    <3> QED
      BY <3>2, <3>3
  <2>2. Kids
    <3>1. CASE MainStep
      <4>1. ASSUME NEW n \in Threads, Spawn(n) PROVE Kids
        <5>1. UNCHANGED <<kint, ready, sched>> /\ \A m \in Threads : cpc'[m] = cpc[m] \/ cpc'[m] = "setpid"
          BY <1>1, <4>1 DEF Spawn
        <5> QED
          BY <1>3, <5>1
      <4> QED
        BY <1>5, <3>1, <4>1 DEF MainStep, SpawnFail, RecordPid, SetupChildSignals, ResetStop,
           SetupStopHandler, WaitReady, SetupMonitorTimer, StartThreads, ReadStartTime,
           SetTimeout, TestStop, SigSuspend
    <3>2. CASE IntrStep \/ ChldStep
      <4>1. /\ UNCHANGED <<ready, sched>>
            /\ UNCHANGED <<cpc, kint>> \/ \E z \in Threads : cpc[z] = "zombie" /\ Reap(z)
        BY <3>2 DEF IntrStep, IntrEnter, IntrReadTime, IntrWait4, IntrStore, IntrTimeout,
           ChldStep, ChldWait, ChldMark, ChldStop, ChldStopTimer, Zombies, Waitable
      <4> QED
        BY <1>5, <1>6, <4>1
    <3>3. ASSUME NEW n \in Threads, Child(n) PROVE Kids
      <4>1. \A m \in Threads : ready[m] => cpc[m] \in LatePlaces
        BY DEF RunInv, StartOK
      <4>2. CASE ChildSetPid(n) \/ ChildOnParentDeath(n) \/ ChildSetupInterruptSignal(n) \/ ChildStart(n)
        <5>1. UNCHANGED <<kint, ready, sched>>
          BY <4>2 DEF ChildSetPid, ChildOnParentDeath, ChildSetupInterruptSignal, ChildStart
        <5>2. \A m \in Threads : cpc'[m] = cpc[m] \/ cpc'[m] \notin Done
          BY <1>1, <4>2 DEF ChildSetPid, ChildOnParentDeath, ChildSetupInterruptSignal, ChildStart, Moves
        <5> QED
          BY <1>3, <5>1, <5>2
      <4>3. CASE ChildSetAffinity(n)
        <5>1. UNCHANGED <<ready, sched>> /\ ~ready[n]
          BY <4>1, <4>3 DEF ChildSetAffinity, LatePlaces
        <5>2. CASE n \in BadCpu
          BY <1>7, <4>3, <5>1, <5>2 DEF ChildSetAffinity
        <5>3. CASE n \notin BadCpu
          BY <1>1, <1>3, <4>3, <5>1, <5>3 DEF ChildSetAffinity, Moves
        <5> QED
          BY <5>2, <5>3
      <4>4. CASE ChildReady(n)
        <5>1. UNCHANGED <<kint, sched>> /\ \A m \in Threads : m # n => ready'[m] = ready[m]
          BY <1>1, <4>4 DEF ChildReady
        <5>2. \A m \in Threads : cpc'[m] = IF m = n THEN "wait_start" ELSE cpc[m]
          BY <1>1, <4>4 DEF ChildReady, Moves
        <5> QED
          BY <1>3, <5>1, <5>2
      <4>5. CASE ChildInterrupted(n)
        <5>1. UNCHANGED <<ready, sched>>
          BY <4>5 DEF ChildInterrupted
        <5>2. CASE cpc[n] \in EarlyPlaces
          <6>1. ~ready[n]
            BY <4>1, <5>2 DEF EarlyPlaces, LatePlaces
          <6> QED
            BY <1>7, <4>5, <5>1, <5>2, <6>1 DEF ChildInterrupted
        <5>3. CASE cpc[n] \notin EarlyPlaces
          <6>1. UNCHANGED kint /\ \A m \in Threads : cpc'[m] = cpc[m] \/ cpc'[m] = "intr"
            BY <1>1, <4>5, <5>3 DEF ChildInterrupted
          <6> QED
            BY <1>3, <5>1, <6>1
        <5> QED
          BY <5>2, <5>3
      <4>6. CASE ChildReadSched(n)
        <5>1. UNCHANGED <<kint, ready>> /\ \A m \in Threads : sched'[m] = IF m = n THEN TRUE ELSE sched[m]
          BY <1>1, <4>6 DEF ChildReadSched
        <5>2. \A m \in Threads : m # n => cpc'[m] = cpc[m]
          BY <1>1, <4>6 DEF ChildReadSched, Moves
        <5> QED
          BY <1>3, <5>1, <5>2
      <4>7. CASE ChildExit(n) \/ OrphanDies(n)
        BY <1>7, <4>7 DEF ChildExit, OrphanDies
      <4>8. ~ChildSigint(n)
        BY <1>3 DEF ChildSigint
      <4> QED
        BY <3>3, <4>2, <4>3, <4>4, <4>5, <4>6, <4>7, <4>8 DEF Child
    <3>4. ASSUME NEW s \in Sigs, Deliver(s) PROVE Kids
      BY <1>5, <3>4 DEF Deliver
    <3>5. CASE Tick \/ Advance \/ UNCHANGED vars
      BY <1>5, <3>5 DEF Tick, Advance
    <3>6. CASE SendSigint
      <4>1. SigintScope = "monitor"
        BY <1>1, <3>6 DEF SendSigint, Undisturbed
      <4>2. UNCHANGED <<cpc, ready, sched>> /\ \A n \in Threads : kint'[n] = kint[n]
        BY <1>1, <3>6, <4>1 DEF SendSigint
      <4> QED
        BY <1>3, <4>2
    <3>7. \A n \in Threads : ~Crash(n)
      BY <1>1 DEF Crash, Undisturbed
    <3> QED
      BY <1>8, <3>1, <3>2, <3>3, <3>4, <3>5, <3>6, <3>7 DEF Next, MonitorStep, Over
  <2> QED
    BY <1>4, <2>1, <2>2
<1>9. CASE StopStep
  <2>1. Kids
    BY <1>5, <1>9 DEF StopStep, StopEnter, StopVisit, StopStopTimer, StopFlag, StopSignal,
       StopWait, StopCommCleanup, StopFinalStats, StopExit
  <2>2. UNCHANGED start
    BY <1>9 DEF StopStep, StopEnter, StopVisit, StopStopTimer, StopFlag, StopSignal,
       StopWait, StopCommCleanup, StopFinalStats, StopExit
  <2>3. CASE StopWait
    <3>1. \A n \in Threads : pid[n] = DeadPid
      BY <2>3 DEF StopWait
    <3>2. start => \A n \in Threads : cpc[n] = "gone" /\ ready[n]
      BY <3>1 DEF RunInv, StartOK
    <3>3. start => \A n \in Threads : sched[n]
      BY <2>3, <3>2 DEF StopWait, SchedOK
    <3> QED
      BY <1>4, <2>1, <2>2, <3>3
  <2>4. CASE ~StopWait
    <3>1. ASSUME NEW l, Goto(l), l \in ReportLabels => pc[cur] \in ReportLabels PROVE Late
      BY <1>1, <2>2, <3>1, GotoPc
    <3>2. ASSUME Return PROVE Late
      BY <1>1, <2>2, <3>2, ReturnPc DEF ReportLabels
    <3>3. ASSUME UNCHANGED pc PROVE Late
      BY <2>2, <3>3
    <3>4. Return \/ UNCHANGED pc \/ \E l : Goto(l) /\ (l \in ReportLabels => pc[cur] \in ReportLabels)
      BY <1>9, <2>4 DEF StopStep, StopEnter, StopVisit, StopStopTimer, StopFlag, StopSignal,
         StopCommCleanup, StopFinalStats, StopExit, ReportLabels
    <3> QED
      BY <1>4, <2>1, <3>1, <3>2, <3>3, <3>4
  <2> QED
    BY <2>3, <2>4
<1> QED
  BY <1>8, <1>9

\* The invariant of a run with fork(), for one step and for the whole run.
ForkInv == StopInv /\ RunInv /\ ReapInv /\ SchedOK

\* It holds after init_threads ...
LEMMA ForkInvInit == Init => ForkInv
<1>1. Init => SchedOK
  BY DEF Init, SchedOK
<1> QED
  BY <1>1, StopInvInit, RunInvInit, ReapInvInit DEF ForkInv

\* ... every step preserves it ...
LEMMA ForkInvNext == ThreadMode = "fork" /\ ForkInv /\ [Next]_vars => ForkInv'
<1>1. ReapInv => \A n \in Threads : pid[n] = DeadPid => cpc[n] = "gone"
  BY DEF ReapInv
<1> QED
  BY <1>1, StopInvNext, RunInvNext, ReapInvNext, SchedNext DEF ForkInv

\* ... and it makes the report quiet and complete.
LEMMA ForkInvImplies == ForkInv => QuietReport /\ SchedComplete
  BY ReapInvImplies DEF ForkInv, SchedOK, SchedComplete, Undisturbed, Reporting, ReportLabels

\* With fork() output_final_stats finds the scheduling data of both threads
\* whenever they were started and nobody else killed them.
THEOREM SchedCompleteHolds ==
  ASSUME ThreadMode = "fork"
  PROVE  Spec => []SchedComplete
  BY ForkInvInit, ForkInvNext, ForkInvImplies, PTL DEF Spec

-----------------------------------------------------------------------------
\* The report with clone()

\* With clone() each thread stores its own pid, so for a while after the
\* SIGCHLD handler is installed a pid may still be 0, which is also what
\* waitpid returns when there is nothing to reap.  Nothing happens in that
\* while: until both threads are ready no signal is on its way.
AllReady == \A n \in Threads : ready[n]

Dormant ==
    /\ mon = "running" /\ ~stop /\ ~armed /\ pend = {}
    /\ pc["ALRM"] = "idle" /\ pc["CHLD"] = "idle"
    /\ pc["main"] \in PreInt \cup {"ready_wait"}
    /\ \A n \in Threads : ~usr[n] /\ cpc[n] \notin Ending

\* Nobody sends SIGINT.
NoSigint == pc["INT"] = "idle" /\ "INT" \notin pend /\ \A n \in Threads : ~kint[n]

\* A thread has its pid stored from its first statement on, and only a thread
\* that has been reaped is marked as dead.
MarkOK ==
    /\ \A n \in Threads : pid[n] \in {NoPid, DeadPid, Pid(n)}
    /\ \A n \in Threads : cpc[n] \notin {"unborn", "setpid"} => pid[n] # NoPid
    /\ \A n \in Threads : pid[n] = DeadPid => cpc[n] = "gone"
    /\ pc["CHLD"] = "ch_mark" => \A n \in Threads : wres = Pid(n) => cpc[n] = "gone"
    /\ \A c \in Ctxs : pc[c] \in ReportLabels => \A n \in Threads : pid[n] = DeadPid

CloneInv == NoSigint /\ MarkOK /\ (AllReady \/ Dormant)

\* What is assumed of a run with clone(): no SIGINT, CPUs that exist, and
\* nobody who kills a thread that is not playing yet.
CloneCase ==
    /\ ThreadMode = "clone" /\ MaxSigint = 0 /\ BadCpu = {}
    /\ CrashAt \subseteq {"play", "intr", "exit"}

\* In such a run no SIGINT ever comes.
LEMMA NoSigintNext ==
  ASSUME CloneCase, StopInv, NoSigint, [Next]_vars
  PROVE  NoSigint'
<1> USE DEF At
<1>1. /\ TypeOK /\ cur \in Ctxs /\ pc[cur] # "idle" /\ pc \in [Ctxs -> Labels]
      /\ "INT" \in Ctxs /\ kint \in [Threads -> BOOLEAN] /\ sigints \in 0..MaxSigint
  BY CurFacts DEF StopInv, TypeOK, Ctxs, Sigs
<1>2. cur # "INT" /\ MaxSigint = 0
  BY <1>1 DEF NoSigint, CloneCase
<1>3. ~SendSigint
  BY <1>1, <1>2 DEF SendSigint
<1>4. CASE MonitorStep
  <2>1. UNCHANGED kint /\ pend' \subseteq pend
    BY <1>4 DEF MonitorStep, MainStep, Spawn, SpawnFail, RecordPid, SetupChildSignals, ResetStop,
       SetupStopHandler, WaitReady, SetupMonitorTimer, StartThreads, ReadStartTime,
       SetTimeout, TestStop, SigSuspend, IntrStep, IntrEnter, IntrReadTime, IntrWait4,
       IntrStore, IntrTimeout, ChldStep, ChldWait, ChldMark, ChldStop, ChldStopTimer,
       StopStep, StopEnter, StopVisit, StopStopTimer, StopFlag, StopTimer, Reap,
       StopSignal, StopWait, StopCommCleanup, StopFinalStats, StopExit
  <2>2. UNCHANGED pc \/ Return \/ \E l : Goto(l)
    BY <1>4 DEF MonitorStep, MainStep, Spawn, SpawnFail, RecordPid, SetupChildSignals, ResetStop,
       SetupStopHandler, WaitReady, SetupMonitorTimer, StartThreads, ReadStartTime,
       SetTimeout, TestStop, SigSuspend, IntrStep, IntrEnter, IntrReadTime, IntrWait4,
       IntrStore, IntrTimeout, ChldStep, ChldWait, ChldMark, ChldStop, ChldStopTimer,
       StopStep, StopEnter, StopVisit, StopStopTimer, StopFlag,
       StopSignal, StopWait, StopCommCleanup, StopFinalStats, StopExit
  <2>3. pc'["INT"] = pc["INT"]
    BY <1>1, <1>2, <2>2, GotoPc, ReturnPc
  <2> QED
    BY <2>1, <2>3 DEF NoSigint
<1>5. ASSUME NEW n \in Threads, Child(n) \/ Crash(n) PROVE NoSigint'
  <2>1. UNCHANGED pc
    BY <1>1, <1>5, ChildShape DEF Crash
  <2>2. "INT" \notin pend' /\ (UNCHANGED kint \/ Die(n))
    BY <1>5 DEF NoSigint, Crash, Die, Child, ChildSetPid, ChildOnParentDeath,
       ChildSetupInterruptSignal, ChildSetAffinity, ChildReady, ChildStart,
       ChildInterrupted, ChildReadSched, ChildExit, OrphanDies, ChildSigint
  <2>3. \A m \in Threads : ~kint'[m]
    BY <1>1, <2>2 DEF Die, NoSigint
  <2> QED
    BY <2>1, <2>2, <2>3 DEF NoSigint
<1>6. ASSUME NEW s \in Sigs, Deliver(s) PROVE NoSigint'
  <2>1. s # "INT" /\ "INT" \notin pend' /\ UNCHANGED kint
    BY <1>6 DEF Deliver, Deliverable, NoSigint
  <2>2. pc'["INT"] = pc["INT"]
    BY <1>1, <1>2, <1>6, <2>1 DEF Deliver
  <2> QED
    BY <2>1, <2>2 DEF NoSigint
<1>7. CASE Tick \/ Advance \/ UNCHANGED vars
  BY <1>7 DEF Tick, Advance, NoSigint
<1> QED
  BY <1>3, <1>4, <1>5, <1>6, <1>7 DEF Next, Over

\* Nothing wakes a dormant run but the threads' becoming ready.
LEMMA DormantNext ==
  ASSUME CloneCase, StopInv, RunInv, NoSigint, Dormant, [Next]_vars
  PROVE  AllReady \/ AllReady' \/ Dormant'
<1> USE DEF At
<1> SUFFICES ASSUME ~AllReady PROVE AllReady' \/ Dormant'
  OBVIOUS
<1>1. /\ TypeOK /\ cpc \in [Threads -> Places] /\ pc \in [Ctxs -> Labels]
      /\ usr \in [Threads -> BOOLEAN] /\ sigints \in 0..MaxSigint /\ MaxSigint = 0
      /\ "CHLD" \in Ctxs /\ "ALRM" \in Ctxs
  BY DEF StopInv, TypeOK, Ctxs, Sigs, CloneCase
<1>2. cur = "main" /\ pc[cur] \in PreInt \cup {"ready_wait"}
  BY CurFacts DEF StopInv, Ctxs, Sigs, Dormant, NoSigint
<1>3. pc[cur] \in MainLabels
  BY <1>2 DEF PreInt, MainLabels
<1>4. ~StopStep /\ ~IntrStep /\ ~ChldStep
  BY <1>2, <1>3, LabelsApart, WhoRuns
<1>5. ~start
  BY DEF RunInv, StartOK, AllReady
<1>6. CASE MainStep
  <2>1. ASSUME NEW l \in PreInt \cup {"ready_wait"}, Goto(l), UNCHANGED <<mon, armed, pend, usr>>, ~stop',
               \A n \in Threads : cpc'[n] = cpc[n] \/ cpc'[n] = "setpid"
        PROVE  Dormant'
    <3>1. pc'["main"] = l /\ pc'["ALRM"] = pc["ALRM"] /\ pc'["CHLD"] = pc["CHLD"]
      BY <1>1, <1>2, <2>1, GotoPc
    <3> QED
      BY <2>1, <3>1 DEF Dormant, Ending
  <2>2. ASSUME NEW n \in Threads, Spawn(n) PROVE Dormant'
    <3>1. \A m \in Threads : cpc'[m] = cpc[m] \/ cpc'[m] = "setpid"
      BY <1>1, <2>2 DEF Spawn
    <3> QED
      BY <2>1, <2>2, <3>1 DEF Spawn, Dormant, PreInt
  <2>3. ASSUME NEW n \in Threads, SpawnFail(n) PROVE Dormant'
    <3>1. Goto(IF n = 0 THEN "spawn1" ELSE "chld_sig") /\ UNCHANGED mon
      BY <2>3 DEF SpawnFail, CloneCase
    <3> QED
      BY <2>1, <2>3, <3>1 DEF SpawnFail, Dormant, PreInt
  <2>4. ASSUME NEW n \in Threads, RecordPid(n) PROVE Dormant'
    BY <2>1, <2>4 DEF RecordPid, Dormant, PreInt
  <2>5. CASE SetupChildSignals \/ ResetStop \/ SetupStopHandler
    BY <2>1, <2>5 DEF SetupChildSignals, ResetStop, SetupStopHandler, Dormant, PreInt
  <2>6. ~WaitReady
    BY DEF WaitReady, AllReady
  <2>7. CASE SetupMonitorTimer \/ StartThreads \/ ReadStartTime \/ SetTimeout \/ TestStop \/ SigSuspend
    BY <1>2, <2>7 DEF SetupMonitorTimer, StartThreads, ReadStartTime, SetTimeout, TestStop,
       SigSuspend, PreInt
  <2> QED
    BY <1>6, <2>2, <2>3, <2>4, <2>5, <2>6, <2>7 DEF MainStep
<1>7. ASSUME NEW n \in Threads, Child(n) PROVE Dormant'
  <2>1. ASSUME NEW p, NEW q, Moves(n, p, q), q \notin Ending,
               UNCHANGED <<mon, pc, armed, stop, pend, usr>>
        PROVE  Dormant'
    <3>1. \A m \in Threads : cpc'[m] \notin Ending
      BY <1>1, <2>1 DEF Moves, Dormant
    <3> QED
      BY <2>1, <3>1 DEF Dormant
  <2>2. CASE ChildSetPid(n) \/ ChildOnParentDeath(n) \/ ChildSetupInterruptSignal(n)
             \/ ChildReady(n) \/ ChildStart(n)
    BY <2>1, <2>2 DEF ChildSetPid, ChildOnParentDeath, ChildSetupInterruptSignal,
       ChildReady, ChildStart, Ending
  <2>3. CASE ChildSetAffinity(n)
    BY <2>1, <2>3 DEF ChildSetAffinity, Ending, CloneCase
  <2>4. ~ChildInterrupted(n) /\ ~OrphanDies(n) /\ ~ChildSigint(n)
    BY DEF ChildInterrupted, OrphanDies, ChildSigint, Dormant, NoSigint
  <2>5. ~ChildReadSched(n) /\ ~ChildExit(n)
    BY DEF ChildReadSched, ChildExit, Dormant, Ending, Moves
  <2> QED
    BY <1>7, <2>2, <2>3, <2>4, <2>5 DEF Child
<1>8. ASSUME NEW s \in Sigs PROVE ~Deliver(s)
  BY DEF Deliver, Deliverable, Dormant
<1>9. ~Tick /\ ~SendSigint
  BY <1>1 DEF Tick, SendSigint, Dormant
<1>10. ASSUME NEW n \in Threads PROVE ~Crash(n)
  BY <1>5 DEF Crash, CloneCase, Dormant, Ending, RunInv, StartOK
<1>11. CASE Advance \/ UNCHANGED vars
  BY <1>11 DEF Advance, Dormant
<1> QED
  BY <1>4, <1>6, <1>7, <1>8, <1>9, <1>10, <1>11 DEF Next, MonitorStep, Over

\* Threads that have said they are ready do not take it back.
LEMMA ReadyStays ==
  ASSUME StopInv, RunInv, AllReady, [Next]_vars
  PROVE  AllReady'
<1>1. CASE MainStep
  BY <1>1 DEF AllReady, MainStep, Spawn, SpawnFail, RecordPid, SetupChildSignals, ResetStop,
     SetupStopHandler, WaitReady, SetupMonitorTimer, StartThreads, ReadStartTime,
     SetTimeout, TestStop, SigSuspend
<1>2. CASE ~MainStep
  BY <1>2, OthersKids DEF RunInv, AllReady, KidsPlain
<1> QED
  BY <1>1, <1>2

\* A step that stores no pid and moves no thread out of its first statement.
LEMMA MarkPlain ==
  ASSUME MarkOK, UNCHANGED pid, GoneStays, PcPlain, UNCHANGED wres,
         \A n \in Threads : cpc'[n] \notin {"unborn", "setpid"} => cpc[n] \notin {"unborn", "setpid"}
  PROVE  MarkOK'
<1>1. "CHLD" \in Ctxs /\ "ch_mark" \notin ReportLabels
  BY DEF Ctxs, Sigs, ReportLabels
<1>2. pc'["CHLD"] = "ch_mark" => pc["CHLD"] = "ch_mark"
  BY <1>1 DEF PcPlain
<1>3. \A c \in Ctxs : pc'[c] \in ReportLabels => pc[c] \in ReportLabels
  BY DEF PcPlain
<1> QED
  BY <1>2, <1>3 DEF MarkOK, GoneStays

\* The steps of main: it brings a thread to life only once.
LEMMA MarkMain ==
  ASSUME StopInv, RunInv, MarkOK, MainStep
  PROVE  MarkOK'
<1> USE DEF At
<1>1. /\ TypeOK /\ cpc \in [Threads -> Places] /\ pc[cur] \in MainLabels
      /\ \A n \in Threads : n = 0 \/ n = 1
  BY WhoRuns DEF StopInv, TypeOK, Threads
<1>2. cur = "main" /\ (\A c \in Sigs : pc[c] = "idle") /\ "main" \in Ctxs /\ pc \in [Ctxs -> Labels]
  BY <1>1, MainAlone
<1>3. ASSUME NEW l, Goto(l) PROVE pc'["main"] = l /\ \A c \in Sigs : pc'[c] = "idle"
  BY <1>2, <1>3 DEF Goto, Ctxs, Sigs
<1>4. pc'["CHLD"] = "idle" /\ \A c \in Ctxs : pc'[c] \notin ReportLabels
  <2>1. UNCHANGED pc \/ \E l : Goto(l) /\ l \notin ReportLabels
    BY DEF MainStep, Spawn, SpawnFail, RecordPid, SetupChildSignals, ResetStop,
       SetupStopHandler, WaitReady, SetupMonitorTimer, StartThreads, ReadStartTime,
       SetTimeout, TestStop, SigSuspend, ReportLabels
  <2>2. CASE UNCHANGED pc
    BY <1>1, <1>2, <2>2 DEF Ctxs, Sigs, MainLabels, ReportLabels
  <2>3. CASE \E l : Goto(l) /\ l \notin ReportLabels
    BY <1>3, <2>3 DEF Ctxs, Sigs, ReportLabels
  <2> QED
    BY <2>1, <2>2, <2>3
<1>5. CASE UNCHANGED <<pid, cpc>>
  BY <1>4, <1>5 DEF MarkOK
<1>6. ASSUME NEW n \in Threads, Spawn(n) PROVE MarkOK'
  <2>1. UNCHANGED pid /\ \A m \in Threads : cpc'[m] = IF m = n THEN "setpid" ELSE cpc[m]
    BY <1>1, <1>6 DEF Spawn
  <2>2. cpc[n] = "unborn"
    BY <1>1, <1>2, <1>6 DEF Spawn, RunInv, SpawnOK
  <2> QED
    BY <1>4, <2>1, <2>2 DEF MarkOK
<1>7. ASSUME NEW n \in Threads, RecordPid(n) PROVE MarkOK'
  <2>1. UNCHANGED cpc /\ \A m \in Threads : pid'[m] = IF m = n THEN Pid(m) ELSE pid[m]
    BY <1>1, <1>7 DEF RecordPid, TypeOK
  <2>2. \A m \in Threads : Pid(m) # NoPid /\ Pid(m) # DeadPid
    BY DEF Pid, NoPid, DeadPid, Threads
  <2> QED
    BY <1>4, <2>1, <2>2 DEF MarkOK
<1> QED
  BY <1>5, <1>6, <1>7 DEF MainStep, SpawnFail, SetupChildSignals, ResetStop,
     SetupStopHandler, WaitReady, SetupMonitorTimer, StartThreads, ReadStartTime,
     SetTimeout, TestStop, SigSuspend

\* The steps of stop_handler and of monitor_interrupt mark nobody.
LEMMA MarkStop ==
  ASSUME StopInv, MarkOK, StopStep \/ IntrStep
  PROVE  MarkOK'
<1> USE DEF At
<1>1. TypeOK /\ pc \in [Ctxs -> Labels] /\ cur \in Ctxs /\ cpc \in [Threads -> Places]
  BY CurFacts DEF StopInv, TypeOK
<1>2. UNCHANGED <<pid, wres>> /\ (UNCHANGED cpc \/ \E z \in Threads : cpc[z] = "zombie" /\ Reap(z))
  BY DEF StopStep, StopEnter, StopVisit, StopStopTimer, StopTimer, StopFlag,
     StopSignal, StopWait, StopCommCleanup, StopFinalStats, StopExit,
     IntrStep, IntrEnter, IntrReadTime, IntrWait4, IntrStore, IntrTimeout, Waitable, Zombies
<1>3. /\ GoneStays
      /\ \A n \in Threads : cpc'[n] \notin {"unborn", "setpid"} => cpc[n] \notin {"unborn", "setpid"}
  BY <1>1, <1>2 DEF GoneStays, Reap
<1>4. CASE StopWait
  <2>1. (\A n \in Threads : pid[n] = DeadPid) /\ Goto("sh_cleanup") /\ pc[cur] = "sh_wait"
    BY <1>4 DEF StopWait
  <2>2. pc'["CHLD"] = "ch_mark" => pc["CHLD"] = "ch_mark"
    BY <1>1, <2>1, GotoPc DEF Ctxs, Sigs
  <2> QED
    BY <1>2, <1>3, <2>1, <2>2 DEF MarkOK, GoneStays
<1>5. CASE ~StopWait
  <2>1. \/ UNCHANGED pc \/ Return
        \/ \E l : /\ Goto(l)
                  /\ \/ l \notin Spawning \cup ReportLabels \cup {"ch_mark"}
                     \/ pc[cur] \in ReportLabels /\ l \in ReportLabels
    BY <1>5 DEF StopStep, StopEnter, StopVisit, StopStopTimer, StopFlag,
       StopSignal, StopCommCleanup, StopFinalStats, StopExit, IntrStep, IntrEnter,
       IntrReadTime, IntrWait4, IntrStore, IntrTimeout, Spawning, ReportLabels
  <2>2. PcPlain
    BY <2>1, GotoPlain, ReturnPlain DEF PcPlain
  <2> QED
    BY <1>2, <1>3, <2>2, MarkPlain
<1> QED
  BY <1>4, <1>5

\* The steps of child_handler: when it runs both pids are stored, so the 0
\* that waitpid returns matches none of them.
LEMMA MarkChld ==
  ASSUME StopInv, RunInv, MarkOK, AllReady, ChldStep
  PROVE  MarkOK'
<1> USE DEF At
<1>1. TypeOK /\ pc \in [Ctxs -> Labels] /\ cpc \in [Threads -> Places]
      /\ "CHLD" \in Ctxs /\ cur = "CHLD"
  BY WhoRuns DEF StopInv, TypeOK, Ctxs, Sigs
<1>2. \A n \in Threads : Pid(n) # NoPid /\ Pid(n) # DeadPid
  BY DEF Pid, NoPid, DeadPid, Threads
<1>3. \A n \in Threads : pid[n] # NoPid
  BY DEF AllReady, RunInv, StartOK, LatePlaces, MarkOK
<1>4. CASE ChldWait
  <2>1. UNCHANGED pid
    BY <1>4 DEF ChldWait
  <2>2. /\ GoneStays
        /\ \A n \in Threads : cpc'[n] \notin {"unborn", "setpid"} => cpc[n] \notin {"unborn", "setpid"}
    BY <1>1, <1>4 DEF ChldWait, Reap, GoneStays, Zombies
  <2>3. CASE Return /\ UNCHANGED wres
    BY <2>1, <2>2, <2>3, ReturnPlain, MarkPlain
  <2>4. CASE Goto("ch_mark") /\ \A n \in Threads : wres' = Pid(n) => cpc'[n] = "gone"
    <3>1. \A c \in Ctxs : pc'[c] \in ReportLabels => pc[c] \in ReportLabels
      BY <1>1, <2>4, GotoPc DEF ReportLabels
    <3> QED
      BY <2>1, <2>2, <2>4, <3>1 DEF MarkOK, GoneStays
  <2>5. ASSUME NEW z \in Zombies, Reap(z), wres' = Pid(z)
        PROVE  \A n \in Threads : wres' = Pid(n) => cpc'[n] = "gone"
    BY <1>1, <2>5 DEF Reap, Zombies, Pid, Threads
  <2>6. wres' = 0 => \A n \in Threads : wres' # Pid(n)
    BY <1>2 DEF NoPid
  <2> QED
    BY <1>4, <2>3, <2>4, <2>5, <2>6 DEF ChldWait
<1>5. CASE ChldMark
  <2>1. UNCHANGED <<wres, cpc>> /\ pc["CHLD"] = "ch_mark"
    BY <1>1, <1>5 DEF ChldMark
  <2>2. CASE Matches(wres) # {} /\ pid' = [pid EXCEPT ![Marked(wres)] = DeadPid] /\ Goto("ch_stop")
    <3> DEFINE m == Marked(wres)
    <3>1. m \in Threads /\ pid[m] = wres
      BY <2>2 DEF Matches, Marked, Threads
    <3>2. wres # NoPid /\ wres # DeadPid
      BY <1>1, <1>3, <3>1 DEF TypeOK, DeadPid, Threads, Pid
    <3>3. cpc[m] = "gone"
      BY <2>1, <3>1, <3>2 DEF MarkOK
    <3>4. \A n \in Threads : pid'[n] = IF n = m THEN DeadPid ELSE pid[n]
      BY <1>1, <2>2, <3>1 DEF TypeOK
    <3>5. pc'["CHLD"] # "ch_mark" /\ \A c \in Ctxs : pc'[c] \in ReportLabels => pc[c] \in ReportLabels
      BY <1>1, <2>2, GotoPc DEF ReportLabels
    <3>6. NoPid # DeadPid
      BY DEF NoPid, DeadPid
    <3> HIDE DEF m
    <3> QED
      BY <2>1, <3>3, <3>4, <3>5, <3>6 DEF MarkOK
  <2>3. CASE UNCHANGED pid /\ (Return \/ Goto("ch_wait"))
    <3>1. "ch_wait" \notin Spawning \cup ReportLabels \cup {"ch_mark"}
      BY DEF Spawning, ReportLabels
    <3> QED
      BY <2>1, <2>3, <3>1, ReturnPlain, GotoPlain, MarkPlain DEF GoneStays
  <2> QED
    BY <1>5, <2>2, <2>3 DEF ChldMark
<1>6. CASE ChldStop \/ ChldStopTimer
  <2>1. UNCHANGED <<pid, wres, cpc>>
    BY <1>6 DEF ChldStop, ChldStopTimer
  <2>2. \E l : Goto(l) /\ l \notin Spawning \cup ReportLabels \cup {"ch_mark"}
    BY <1>6 DEF ChldStop, ChldStopTimer, Spawning, ReportLabels
  <2> QED
    BY <2>1, <2>2, GotoPlain, MarkPlain DEF GoneStays
<1> QED
  BY <1>4, <1>5, <1>6 DEF ChldStep

\* The steps of the threads: none of them ends before it has stored its pid.
LEMMA MarkChild ==
  ASSUME StopInv, RunInv, CloneInv, NEW n \in Threads, Child(n)
  PROVE  MarkOK'
<1>1. /\ TypeOK /\ cpc \in [Threads -> Places] /\ UNCHANGED <<pc, wres>>
      /\ \A m \in Threads : pid[m] \in {NoPid, DeadPid, Pid(m)}
  BY ChildShape DEF StopInv, TypeOK, CloneInv, MarkOK
<1>2. PcPlain
  BY <1>1 DEF PcPlain
<1>3. GoneStays
  BY <1>1 DEF GoneStays, TypeOK, Child, Moves, Die, Alive, LivePlaces, EarlyPlaces,
     ChildSetPid, ChildOnParentDeath, ChildSetupInterruptSignal,
     ChildSetAffinity, ChildReady, ChildStart, ChildInterrupted, ChildReadSched,
     ChildExit, OrphanDies, ChildSigint
<1>4. CASE ChildSetPid(n)
  <2>1. \A m \in Threads : pid'[m] = IF m = n /\ pid[m] = NoPid THEN Pid(m) ELSE pid[m]
    BY <1>1, <1>4 DEF ChildSetPid, TypeOK
  <2>2. \A m \in Threads : m # n => cpc'[m] = cpc[m]
    BY <1>1, <1>4 DEF ChildSetPid, Moves
  <2>3. \A m \in Threads : Pid(m) # NoPid /\ Pid(m) # DeadPid
    BY DEF Pid, NoPid, DeadPid, Threads
  <2>4. NoPid # DeadPid
    BY DEF NoPid, DeadPid
  <2> QED
    BY <1>1, <1>3, <2>1, <2>2, <2>3, <2>4 DEF CloneInv, MarkOK, GoneStays
<1>5. CASE ~ChildSetPid(n)
  <2>1. UNCHANGED pid
    BY <1>5 DEF Child, ChildOnParentDeath, ChildSetupInterruptSignal,
       ChildSetAffinity, ChildReady, ChildStart, ChildInterrupted, ChildReadSched,
       ChildExit, OrphanDies, ChildSigint
  <2>2. cpc[n] # "setpid"
    <3>1. CASE AllReady
      BY <3>1 DEF AllReady, RunInv, StartOK, LatePlaces
    <3>2. CASE Dormant
      <4>1. ~ChildInterrupted(n) /\ ~OrphanDies(n) /\ ~ChildSigint(n)
        BY <3>2 DEF ChildInterrupted, OrphanDies, ChildSigint, Dormant, CloneInv, NoSigint
      <4> QED
        BY <1>5, <4>1 DEF Child, ChildOnParentDeath, ChildSetupInterruptSignal, Moves,
           ChildSetAffinity, ChildReady, ChildStart, ChildReadSched, ChildExit
    <3> QED
      BY <3>1, <3>2 DEF CloneInv
  <2>3. \A m \in Threads : cpc'[m] = "unborn" <=> cpc[m] = "unborn"
    BY <1>1, ChildPlain DEF RunInv, KidsPlain
  <2>4. \A m \in Threads : m # n => cpc'[m] = cpc[m]
    BY <1>1, <1>5 DEF Child, ChildOnParentDeath, ChildSetupInterruptSignal, Moves, Die,
       ChildSetAffinity, ChildReady, ChildStart, ChildInterrupted, ChildReadSched,
       ChildExit, OrphanDies, ChildSigint
  <2>5. \A m \in Threads : cpc'[m] \notin {"unborn", "setpid"} => cpc[m] \notin {"unborn", "setpid"}
    BY <2>2, <2>3, <2>4
  <2> QED
    BY <1>1, <1>2, <1>3, <2>1, <2>5, MarkPlain DEF CloneInv
<1> QED
  BY <1>4, <1>5

\* Every step preserves the invariant.
LEMMA CloneInvNext ==
  ASSUME CloneCase, StopInv, RunInv, CloneInv, [Next]_vars
  PROVE  CloneInv'
<1>1. /\ TypeOK /\ pc \in [Ctxs -> Labels] /\ cur \in Ctxs /\ pc[cur] # "idle"
      /\ cpc \in [Threads -> Places]
  BY CurFacts DEF StopInv, TypeOK
<1>2. NoSigint' /\ (AllReady' \/ Dormant')
  BY NoSigintNext, DormantNext, ReadyStays DEF CloneInv
<1>3. MarkOK'
  <2>1. CASE MainStep
    BY <2>1, MarkMain DEF CloneInv
  <2>2. CASE StopStep \/ IntrStep
    BY <2>2, MarkStop DEF CloneInv
  <2>3. CASE ChldStep
    <3>1. pc["CHLD"] # "idle"
      BY <1>1, <2>3, WhoRuns
    <3> QED
      BY <2>3, <3>1, MarkChld DEF CloneInv, Dormant
  <2>4. ASSUME NEW n \in Threads, Child(n) PROVE MarkOK'
    BY <2>4, MarkChild
  <2>5. ASSUME NEW s \in Sigs, Deliver(s) PROVE MarkOK'
    <3>1. UNCHANGED <<pid, wres, cpc>> /\ pc[s] = "idle" /\ disp[s] = "handler"
      BY <2>5 DEF Deliver, Deliverable
    <3>2. /\ \A c \in Ctxs \ {cur, s} : pc'[c] = pc[c]
          /\ pc'[s] = Entry(s)
          /\ pc'[cur] = IF pc[cur] = "suspended" THEN "loop" ELSE pc[cur]
      BY <1>1, <2>5, <3>1 DEF Deliver, Ctxs
    <3>3. Entry(s) \notin Spawning \cup ReportLabels \cup {"ch_mark"}
          /\ "loop" \notin Spawning \cup ReportLabels \cup {"ch_mark"}
      BY DEF Entry, Sigs, Spawning, ReportLabels
    <3>4. PcPlain
      BY <1>1, <3>1, <3>2, <3>3 DEF PcPlain, Ctxs, Sigs
    <3> QED
      BY <3>1, <3>4, MarkPlain DEF CloneInv, GoneStays
  <2>6. CASE Tick \/ Advance \/ SendSigint \/ UNCHANGED vars
    <3>1. UNCHANGED <<pid, wres, cpc, pc>>
      BY <2>6 DEF Tick, Advance, SendSigint
    <3> QED
      BY <3>1, MarkPlain DEF CloneInv, GoneStays, PcPlain
  <2>7. ASSUME NEW n \in Threads, Crash(n) PROVE MarkOK'
    <3>1. UNCHANGED <<pid, wres, pc>> /\ cpc[n] \in {"play", "intr", "exit"}
      BY <2>7 DEF Crash, CloneCase
    <3>2. \A m \in Threads : m # n => cpc'[m] = cpc[m]
      BY <1>1, <2>7 DEF Crash, Die
    <3> QED
      BY <3>1, <3>2, MarkPlain DEF CloneInv, PcPlain, GoneStays
  <2> QED
    BY <2>1, <2>2, <2>3, <2>4, <2>5, <2>6, <2>7 DEF Next, MonitorStep, Over
<1> QED
  BY <1>2, <1>3 DEF CloneInv

\* The invariant of a run with clone(), for one step and for the whole run.
ClonedInv == StopInv /\ RunInv /\ CloneInv /\ SchedOK

\* It holds after init_threads ...
LEMMA ClonedInvInit == Init => ClonedInv
<1>1. Init => SchedOK
  BY DEF Init, SchedOK
<1>2. ASSUME Init PROVE CloneInv
  <2>1. /\ pc["main"] = "spawn0" /\ pc["INT"] = "idle" /\ pc["ALRM"] = "idle" /\ pc["CHLD"] = "idle"
        /\ \A c \in Ctxs : pc[c] = "spawn0" \/ pc[c] = "idle"
        /\ \A n \in Threads : cpc[n] = "unborn" /\ ~usr[n] /\ ~kint[n] /\ pid[n] = NoPid
    BY <1>2 DEF Init, Ctxs, Sigs
  <2>2. mon = "running" /\ ~stop /\ ~armed /\ pend = {} /\ NoPid # DeadPid
    BY <1>2 DEF Init, NoPid, DeadPid
  <2>3. NoSigint /\ Dormant
    BY <2>1, <2>2 DEF NoSigint, Dormant, PreInt, Ending
  <2>4. MarkOK
    BY <2>1, <2>2 DEF MarkOK, ReportLabels
  <2> QED
    BY <2>3, <2>4 DEF CloneInv
<1> QED
  BY <1>1, <1>2, StopInvInit, RunInvInit DEF ClonedInv

\* ... every step preserves it ...
LEMMA ClonedInvNext == CloneCase /\ ClonedInv /\ [Next]_vars => ClonedInv'
<1>1. CloneInv => \A n \in Threads : pid[n] = DeadPid => cpc[n] = "gone"
  BY DEF CloneInv, MarkOK
<1> QED
  BY <1>1, StopInvNext, RunInvNext, CloneInvNext, SchedNext DEF ClonedInv

\* ... and it makes the report quiet and complete.
LEMMA ClonedInvImplies == ClonedInv => QuietReport /\ SchedComplete
  BY DEF ClonedInv, CloneInv, MarkOK, QuietReport, SchedOK, SchedComplete, Undisturbed,
     Reporting, ReportLabels

\* With clone() too the report is quiet and complete, although child_handler
\* is installed before the pids are stored: no thread can die, and no timer
\* expire, before both threads have reported ready, which each does after it
\* has stored its pid.  This fails once a SIGINT comes in between.
THEOREM CloneReportHolds ==
  ASSUME CloneCase
  PROVE  Spec => [](QuietReport /\ SchedComplete)
  BY ClonedInvInit, ClonedInvNext, ClonedInvImplies, PTL DEF Spec

-----------------------------------------------------------------------------
\* The run keeps its promise

Stopping == \E c \in Ctxs : pc[c] \in StoppingLabels
ThreadStates == [n \in Threads |-> ThreadState(n)]

\* What the user sees of a state, and when a step leaves it alone.
LEMMA PhaseFacts ==
  /\ mon # "running" => Phase = "over"
  /\ mon = "running" /\ printed => Phase = "reported"
  /\ mon = "running" /\ ~printed /\ Stopping => Phase = "stopping"
  /\ mon = "running" /\ ~printed /\ ~Stopping => Phase = IF start THEN "running" ELSE "starting"
  BY DEF Phase, Stopping

\* A steady step leaves the phase alone.
LEMMA PhaseStays ==
  ASSUME UNCHANGED <<mon, start>>, Steady
  PROVE  UNCHANGED Phase
<1>1. (\E c \in Ctxs : pc'[c] \in StoppingLabels) <=> (\E c \in Ctxs : pc[c] \in StoppingLabels)
  BY DEF Steady
<1>2. printed' = printed
  BY DEF Steady
<1> QED
  BY <1>1, <1>2 DEF Phase

\* How a thread looks in each of its places ...
LEMMA ThreadFacts ==
  ASSUME NEW n \in Threads
  PROVE  /\ cpc[n] = "unborn" => ThreadState(n) = "unborn"
         /\ cpc[n] \in {"zombie", "gone"} => ThreadState(n) = "dead"
         /\ cpc[n] = "play" => ThreadState(n) = "playing"
         /\ cpc[n] \in {"intr", "exit"} => ThreadState(n) = IF start THEN "playing" ELSE "alive"
         /\ cpc[n] \notin {"unborn", "zombie", "gone", "play", "intr", "exit"} => ThreadState(n) = "alive"
  BY DEF ThreadState

\* ... and after the step.
LEMMA ThreadFactsNext ==
  ASSUME NEW n \in Threads
  PROVE  /\ cpc'[n] = "unborn" => ThreadState(n)' = "unborn"
         /\ cpc'[n] \in {"zombie", "gone"} => ThreadState(n)' = "dead"
         /\ cpc'[n] = "play" => ThreadState(n)' = "playing"
         /\ cpc'[n] \in {"intr", "exit"} => ThreadState(n)' = IF start' THEN "playing" ELSE "alive"
         /\ cpc'[n] \notin {"unborn", "zombie", "gone", "play", "intr", "exit"} => ThreadState(n)' = "alive"
  BY DEF ThreadState

\* The other threads look the same when neither they nor start change.
LEMMA ThreadStays ==
  ASSUME NEW n \in Threads, cpc'[n] = cpc[n], start' = start
  PROVE  ThreadState(n)' = ThreadState(n)
  BY DEF ThreadState

\* The threads as the promise sees them, after a step of thread n.
LEMMA OneThread ==
  ASSUME NEW n \in Threads, UNCHANGED start, \A m \in Threads : m # n => cpc'[m] = cpc[m]
  PROVE  ThreadStates' = [ThreadStates EXCEPT ![n] = ThreadState(n)']
<1>1. \A m \in Threads : m # n => ThreadState(m)' = ThreadState(m)
  BY ThreadStays
<1> QED
  BY <1>1 DEF ThreadStates

\* A step that changes nothing the user sees.
LEMMA PromiseStutter ==
  ASSUME UNCHANGED <<mon, start, ready>>, Steady,
         \A n \in Threads : ThreadState(n)' = ThreadState(n)
  PROVE  UNCHANGED Promise!vars
<1>1. UNCHANGED Phase
  BY PhaseStays
<1>2. UNCHANGED <<ThreadStates, start, ready>> /\ (mon = "ok")' = (mon = "ok")
  BY DEF ThreadStates
<1> QED
  BY <1>1, <1>2 DEF Promise!vars, ThreadStates

\* A death, from whatever cause, is a death of the promise.
LEMMA PromiseDie ==
  ASSUME TypeOK, NEW n \in Threads, cpc[n] \in LivePlaces, Die(n),
         UNCHANGED <<mon, start, ready>>, Steady
  PROVE  Promise!Next
<1>1. \A m \in Threads : m # n => cpc'[m] = cpc[m]
  BY DEF Die, TypeOK
<1>2. cpc'[n] \in {"zombie", "gone"}
  BY DEF Die, TypeOK
<1>3. ThreadState(n) \in {"alive", "playing"}
  BY ThreadFacts DEF LivePlaces, EarlyPlaces
<1>4. ThreadState(n)' = "dead"
  BY <1>2, ThreadFactsNext
<1>5. UNCHANGED Phase
  BY PhaseStays
<1>6. ThreadStates' = [ThreadStates EXCEPT ![n] = "dead"] /\ ThreadStates[n] = ThreadState(n)
  BY <1>1, <1>4, OneThread DEF ThreadStates
<1>7. Promise!Die(n)
  BY <1>3, <1>5, <1>6 DEF Promise!Die, ThreadStates
<1> QED
  BY <1>7 DEF Promise!Next

\* The steps of the threads.
LEMMA PromiseChild ==
  ASSUME StopInv, RunInv, NEW n \in Threads, Child(n)
  PROVE  Promise!Next \/ UNCHANGED Promise!vars
<1>1. TypeOK /\ cpc \in [Threads -> Places]
  BY DEF StopInv, TypeOK
<1>2. UNCHANGED <<mon, start>> /\ Steady
  <2>1. UNCHANGED monVars
    BY <1>1, ChildShape
  <2>2. UNCHANGED start
    BY DEF Child, ChildSetPid, ChildOnParentDeath, ChildSetupInterruptSignal,
       ChildSetAffinity, ChildReady, ChildStart, ChildInterrupted, ChildReadSched,
       ChildExit, OrphanDies, ChildSigint
  <2> QED
    BY <2>1, <2>2 DEF Steady
<1>3. UNCHANGED Phase
  BY <1>2, PhaseStays
<1>4. ASSUME Die(n), cpc[n] \in LivePlaces, UNCHANGED ready PROVE Promise!Next
  BY <1>1, <1>2, <1>4, PromiseDie
<1> DEFINE Early == {"setpid", "pdeath", "sigs", "affinity", "ready", "wait_start"}
<1>5. ASSUME UNCHANGED ready, \A m \in Threads : m # n => cpc'[m] = cpc[m],
             \/ cpc[n] \in Early /\ cpc'[n] \in Early
             \/ cpc[n] \in {"intr", "exit"} /\ cpc'[n] \in {"intr", "exit"}
             \/ cpc[n] = "play" /\ cpc'[n] \in {"play", "intr"} /\ start
             \/ cpc[n] \in Early /\ cpc'[n] = "intr" /\ ~start
      PROVE  UNCHANGED Promise!vars
  <2>1. \A m \in Threads : m # n => ThreadState(m)' = ThreadState(m)
    BY <1>2, <1>5, ThreadStays
  <2>2. ThreadState(n)' = ThreadState(n)
    BY <1>2, <1>5, ThreadFacts, ThreadFactsNext
  <2> QED
    BY <1>2, <1>5, <2>1, <2>2, PromiseStutter
<1>6. ASSUME UNCHANGED ready, start, \A m \in Threads : m # n => cpc'[m] = cpc[m],
             cpc[n] \in Early, cpc'[n] \in {"play", "intr"}
      PROVE  Promise!Next
  <2>1. ThreadState(n) = "alive" /\ ThreadState(n)' = "playing"
    BY <1>2, <1>6, ThreadFacts, ThreadFactsNext
  <2>2. ThreadStates' = [ThreadStates EXCEPT ![n] = "playing"] /\ ThreadStates[n] = "alive"
    BY <1>2, <1>6, <2>1, OneThread DEF ThreadStates
  <2>3. Promise!Play(n)
    BY <1>2, <1>3, <1>6, <2>2 DEF Promise!Play, ThreadStates
  <2> QED
    BY <2>3 DEF Promise!Next
<1>7. CASE ChildSetPid(n) \/ ChildOnParentDeath(n) \/ ChildSetupInterruptSignal(n) \/ ChildReadSched(n)
  <2>1. UNCHANGED ready /\ \A m \in Threads : m # n => cpc'[m] = cpc[m]
    BY <1>1, <1>7 DEF ChildSetPid, ChildOnParentDeath, ChildSetupInterruptSignal, ChildReadSched, Moves
  <2>2. \/ cpc[n] \in Early /\ cpc'[n] \in Early
        \/ cpc[n] \in {"intr", "exit"} /\ cpc'[n] \in {"intr", "exit"}
    BY <1>1, <1>7 DEF ChildSetPid, ChildOnParentDeath, ChildSetupInterruptSignal, ChildReadSched, Moves
  <2> QED
    BY <1>5, <2>1, <2>2
<1>8. CASE ChildSetAffinity(n)
  <2>1. CASE n \in BadCpu
    BY <1>4, <1>8, <2>1 DEF ChildSetAffinity, LivePlaces
  <2>2. CASE n \notin BadCpu
    BY <1>1, <1>5, <1>8, <2>2 DEF ChildSetAffinity, Moves
  <2> QED
    BY <2>1, <2>2
<1>9. CASE ChildReady(n)
  <2>1. \A m \in Threads : cpc'[m] = IF m = n THEN "wait_start" ELSE cpc[m]
    BY <1>1, <1>9 DEF ChildReady, Moves
  <2>2. cpc[n] = "ready" /\ ready' = [ready EXCEPT ![n] = TRUE]
    BY <1>9 DEF ChildReady, Moves
  <2>3. ThreadState(n) = "alive" /\ ThreadState(n)' = "alive"
    BY <2>1, <2>2, ThreadFacts, ThreadFactsNext
  <2>4. \A m \in Threads : m # n => ThreadState(m)' = ThreadState(m)
    BY <1>2, <2>1, ThreadStays
  <2>5. UNCHANGED ThreadStates /\ ThreadStates[n] = "alive"
    BY <2>3, <2>4 DEF ThreadStates
  <2>6. Promise!GetReady(n)
    BY <1>2, <1>3, <2>2, <2>5 DEF Promise!GetReady, ThreadStates
  <2> QED
    BY <2>6 DEF Promise!Next
<1>10. CASE ChildStart(n)
  <2>1. UNCHANGED ready /\ start /\ cpc[n] = "wait_start"
    BY <1>10 DEF ChildStart, Moves
  <2>2. \A m \in Threads : cpc'[m] = IF m = n THEN "play" ELSE cpc[m]
    BY <1>1, <1>10 DEF ChildStart, Moves
  <2> QED
    BY <1>6, <2>1, <2>2
<1>11. CASE ChildInterrupted(n)
  <2>1. UNCHANGED ready /\ cpc[n] \in LivePlaces /\ cpc[n] \notin {"intr", "exit"}
    BY <1>11 DEF ChildInterrupted, Alive
  <2>2. CASE cpc[n] \in EarlyPlaces
    BY <1>4, <1>11, <2>1, <2>2 DEF ChildInterrupted
  <2>3. CASE cpc[n] \notin EarlyPlaces
    <3>1. \A m \in Threads : m # n => cpc'[m] = cpc[m]
      BY <1>1, <1>11, <2>3 DEF ChildInterrupted
    <3>2. cpc'[n] = cpc[n] \/ cpc'[n] = "intr"
      BY <1>1, <1>11, <2>3 DEF ChildInterrupted
    <3>3. cpc[n] \in Early \/ (cpc[n] = "play" /\ start)
      BY <2>1 DEF RunInv, StartOK, LivePlaces, EarlyPlaces
    <3> HIDE DEF Early
    <3> QED
      BY <1>5, <1>6, <2>1, <3>1, <3>2, <3>3
  <2> QED
    BY <2>2, <2>3
<1>12. CASE ChildExit(n) \/ OrphanDies(n) \/ ChildSigint(n)
  BY <1>4, <1>12 DEF ChildExit, OrphanDies, ChildSigint, Alive, LivePlaces
<1> QED
  BY <1>7, <1>8, <1>9, <1>10, <1>11, <1>12 DEF Child

\* The steps of main: it spawns and starts the threads, or fails to.
LEMMA PromiseMain ==
  ASSUME ThreadMode = "fork", StopInv, RunInv, MainStep
  PROVE  Promise!Next \/ UNCHANGED Promise!vars
<1> USE DEF At
<1>1. TypeOK /\ cpc \in [Threads -> Places] /\ pc[cur] \in MainLabels /\ cur = "main" /\ mon = "running"
  BY WhoRuns DEF StopInv, TypeOK, MainStep, Spawn, SpawnFail, RecordPid, SetupChildSignals,
     ResetStop, SetupStopHandler, WaitReady, SetupMonitorTimer, StartThreads, ReadStartTime,
     SetTimeout, TestStop, SigSuspend
<1>2. \A c \in Ctxs : pc[c] \notin StoppingLabels
  <2>1. \A c \in Ctxs : pc[c] \in MainLabels \cup {"idle"}
    BY <1>1, MainAlone DEF Ctxs
  <2> QED
    BY <2>1, LabelsApart
<1>3. ~visited /\ ~printed /\ ~Stopping
  BY <1>2 DEF RunInv, VisitOK, Stopping, StoppingLabels
<1>4. Steady
  <2>1. [Next]_vars
    BY DEF Next, MonitorStep
  <2>2. ~StopVisit /\ ~StopFinalStats
    BY <1>1 DEF StopVisit, StopFinalStats, MainLabels
  <2> QED
    BY <2>1, <2>2, StepSteady
<1>5. ~Stopping' /\ ~printed'
  BY <1>3, <1>4 DEF Steady, Stopping
<1>6. Phase = IF start THEN "running" ELSE "starting"
  BY <1>1, <1>3, PhaseFacts
<1>7. ASSUME NEW n \in Threads, Spawn(n) PROVE Promise!Next
  <2>1. UNCHANGED <<mon, start, ready>> /\ cpc' = [cpc EXCEPT ![n] = "setpid"]
        /\ pc["main"] = (IF n = 0 THEN "spawn0" ELSE "spawn1")
    BY <1>1, <1>7 DEF Spawn
  <2>2. cpc[n] = "unborn" /\ ~start
    BY <2>1 DEF RunInv, StartOK, SpawnOK, PreStart, PreInt, Threads
  <2>3. \A m \in Threads : cpc'[m] = IF m = n THEN "setpid" ELSE cpc[m]
    BY <1>1, <2>1
  <2>4. ThreadState(n) = "unborn" /\ ThreadState(n)' = "alive"
    BY <2>2, <2>3, ThreadFacts, ThreadFactsNext
  <2>5. ThreadStates' = [ThreadStates EXCEPT ![n] = "alive"] /\ ThreadStates[n] = "unborn"
    BY <2>1, <2>3, <2>4, OneThread DEF ThreadStates
  <2>6. UNCHANGED Phase
    BY <1>4, <2>1, PhaseStays
  <2>7. Promise!Spawn(n)
    BY <1>6, <2>1, <2>2, <2>5, <2>6 DEF Promise!Spawn, ThreadStates
  <2> QED
    BY <2>7 DEF Promise!Next
<1>8. ASSUME NEW n \in Threads, SpawnFail(n) PROVE Promise!Next
  <2>1. UNCHANGED <<start, ready, cpc>> /\ mon' = "failed"
    BY <1>8 DEF SpawnFail
  <2>2. Phase' = "over"
    BY <2>1 DEF Phase
  <2>3. UNCHANGED ThreadStates /\ (mon = "ok")' = (mon = "ok")
    BY <1>1, <2>1, ThreadStays DEF ThreadStates
  <2>4. Promise!Abort
    BY <1>6, <2>1, <2>2, <2>3 DEF Promise!Abort, ThreadStates
  <2> QED
    BY <2>4 DEF Promise!Next
<1>9. CASE StartThreads
  <2>1. UNCHANGED <<mon, ready, cpc>> /\ start' = TRUE /\ pc["main"] = "start"
    BY <1>1, <1>9 DEF StartThreads
  <2>2. ~start /\ \A n \in Threads : ready[n]
    BY <2>1 DEF RunInv, StartOK, PreStart
  <2>3. Phase' = "running"
    <3>1. mon' = "running" /\ ~printed' /\ ~(\E c \in Ctxs : pc'[c] \in StoppingLabels)
      BY <1>1, <1>5, <2>1 DEF Stopping
    <3> QED
      BY <2>1, <3>1 DEF Phase
  <2>4. \A n \in Threads : cpc[n] \notin {"intr", "exit"}
    BY <1>3 DEF RunInv, VisitOK
  <2>5. \A n \in Threads : ThreadState(n)' = ThreadState(n)
    BY <2>1, <2>4, ThreadFacts, ThreadFactsNext
  <2>6. UNCHANGED ThreadStates /\ (mon = "ok")' = (mon = "ok")
    BY <2>1, <2>5 DEF ThreadStates
  <2>7. Promise!Start
    BY <1>6, <2>1, <2>2, <2>3, <2>6 DEF Promise!Start, ThreadStates
  <2> QED
    BY <2>7 DEF Promise!Next
<1>10. ASSUME UNCHANGED <<mon, start, ready, cpc>> PROVE UNCHANGED Promise!vars
  BY <1>4, <1>10, ThreadStays, PromiseStutter
<1>11. ASSUME NEW n \in Threads, RecordPid(n) PROVE UNCHANGED Promise!vars
  BY <1>10, <1>11 DEF RecordPid
<1> QED
  BY <1>7, <1>8, <1>9, <1>10, <1>11 DEF MainStep, SetupChildSignals, ResetStop,
     SetupStopHandler, WaitReady, SetupMonitorTimer, ReadStartTime, SetTimeout,
     TestStop, SigSuspend

\* The steps of stop_handler: it stops once, reports once and then exits.
LEMMA PromiseStop ==
  ASSUME ~CleanupExits, StopInv, ReapInv, RunInv, StopStep
  PROVE  Promise!Next \/ UNCHANGED Promise!vars
<1> USE DEF At
<1>1. TypeOK /\ cur \in Ctxs /\ mon = "running"
  BY CurFacts DEF StopInv, StopStep, StopEnter, StopVisit, StopStopTimer, StopFlag, StopSignal,
     StopWait, StopCommCleanup, StopFinalStats, StopExit
<1>2. UNCHANGED <<start, ready, cpc>>
  BY DEF StopStep, StopEnter, StopVisit, StopStopTimer, StopFlag, StopSignal,
     StopWait, StopCommCleanup, StopFinalStats, StopExit
<1>3. \A n \in Threads : ThreadState(n)' = ThreadState(n)
  BY <1>2, ThreadStays
<1>4. UNCHANGED ThreadStates
  BY <1>3 DEF ThreadStates
<1>5. [Next]_vars
  BY DEF Next, MonitorStep
<1>6. CASE StopVisit
  <2>1. UNCHANGED <<mon, printed>> /\ pc[cur] = "sh_visit"
    BY <1>6 DEF StopVisit
  <2>2. \A c \in Ctxs : pc[c] \notin StoppingLabels
    <3> SUFFICES ASSUME NEW c \in Ctxs, pc[c] \in StoppingLabels PROVE FALSE
      OBVIOUS
    <3>1. pc[c] # "idle" /\ c # cur
      BY <2>1, LabelsApart
    <3>2. Len(stack) \in Nat /\ Len(stack) \in 1..Len(stack)
      BY CurFacts DEF StopInv
    <3>3. PICK i \in 1..Len(stack) : stack[i] = c
      BY <3>1 DEF StopInv, StackOK
    <3>4. i < Len(stack)
      BY <3>1, <3>2, <3>3 DEF cur
    <3> QED
      BY <2>1, <3>2, <3>3, <3>4 DEF StopInv, StopperOK, cur
  <2>3. ~Stopping /\ ~printed
    BY <2>2 DEF Stopping, RunInv, VisitOK, StoppingLabels
  <2>4. Phase \in {"starting", "running"}
    BY <1>1, <2>3, PhaseFacts
  <2>5. pc'[cur] = "sh_timer"
    BY <1>6, GotoPc DEF StopVisit
  <2>6. Phase' = "stopping"
    <3>1. mon' = "running" /\ ~printed' /\ \E c \in Ctxs : pc'[c] \in StoppingLabels
      BY <1>1, <2>1, <2>3, <2>5, LabelsApart
    <3> QED
      BY <3>1 DEF Phase
  <2>7. Promise!Stop
    BY <1>2, <1>4, <2>1, <2>4, <2>6 DEF Promise!Stop, ThreadStates
  <2> QED
    BY <2>7 DEF Promise!Next
<1>7. CASE StopFinalStats
  <2>1. UNCHANGED mon /\ printed' = TRUE /\ pc[cur] = "sh_final"
    BY <1>7 DEF StopFinalStats
  <2>2. pc[cur] \in StoppingLabels /\ pc[cur] \in ReportLabels
    BY <2>1 DEF StoppingLabels, ReportLabels
  <2>3. ~printed
    <3> SUFFICES ASSUME NEW c \in Ctxs, pc[c] = "sh_exit" PROVE FALSE
      BY DEF RunInv, VisitOK
    <3>1. pc[c] \in StoppingLabels
      BY DEF StoppingLabels
    <3> QED
      BY <1>1, <2>1, <2>2, <3>1, StopInvImplies DEF OneStopper
  <2>4. Phase = "stopping"
    BY <1>1, <2>2, <2>3, PhaseFacts DEF Stopping
  <2>5. Phase' = "reported"
    BY <1>1, <2>1 DEF Phase
  <2>6. \A n \in Threads : ThreadStates[n] = "dead"
    <3>1. \A n \in Threads : cpc[n] = "gone"
      BY <1>1, <2>2 DEF ReapInv
    <3> QED
      BY <3>1, ThreadFacts DEF ThreadStates
  <2>7. Promise!Report
    BY <1>2, <1>4, <2>1, <2>4, <2>5, <2>6 DEF Promise!Report, ThreadStates
  <2> QED
    BY <2>7 DEF Promise!Next
<1>8. CASE StopExit
  <2>1. mon' = "ok" /\ pc[cur] = "sh_exit"
    BY <1>8 DEF StopExit
  <2>2. printed
    BY <1>1, <2>1 DEF RunInv, VisitOK
  <2>3. Phase = "reported" /\ Phase' = "over"
    BY <1>1, <2>1, <2>2 DEF Phase
  <2>4. Promise!Finish
    BY <1>2, <1>4, <2>1, <2>3 DEF Promise!Finish, ThreadStates
  <2> QED
    BY <2>4 DEF Promise!Next
<1>9. CASE ~StopVisit /\ ~StopFinalStats /\ ~StopExit
  <2>1. Steady
    BY <1>5, <1>9, StepSteady
  <2>2. UNCHANGED mon
    <3>1. CASE StopEnter /\ visited
      <4>1. PICK c \in Ctxs : pc[c] \in StoppingLabels
        BY <3>1 DEF RunInv, VisitOK
      <4>2. pc[cur] = "sh_enter" /\ Return
        BY <3>1 DEF StopEnter
      <4>3. c # cur /\ pc[c] # "idle"
        BY <4>1, <4>2, LabelsApart
      <4>4. cur # "main"
        BY <4>3, CurFacts DEF StopInv, StackOK, cur
      <4> QED
        BY <4>2, <4>4 DEF Return
    <3>2. CASE ~(StopEnter /\ visited)
      BY <1>9, <3>2 DEF StopStep, StopEnter, StopStopTimer, StopFlag, StopSignal, StopWait,
         StopCommCleanup
    <3> QED
      BY <3>1, <3>2
  <2> QED
    BY <1>2, <1>3, <2>1, <2>2, PromiseStutter
<1> QED
  BY <1>6, <1>7, <1>8, <1>9

\* The steps of the other two handlers show nothing.
LEMMA PromiseHandler ==
  ASSUME StopInv, IntrStep \/ ChldStep
  PROVE  UNCHANGED Promise!vars
<1> USE DEF At
<1>1. TypeOK /\ cpc \in [Threads -> Places] /\ cur # "main" /\ pc[cur] \in IntrLabels \cup ChldLabels
  BY WhoRuns DEF StopInv, TypeOK
<1>2. UNCHANGED <<mon, start, ready>>
  BY <1>1 DEF IntrStep, IntrEnter, IntrReadTime, IntrWait4, IntrStore, IntrTimeout,
     ChldStep, ChldWait, ChldMark, ChldStop, ChldStopTimer, Return
<1>3. Steady
  <2>1. ~StopVisit /\ ~StopFinalStats
    BY <1>1 DEF StopVisit, StopFinalStats, IntrLabels, ChldLabels
  <2>2. [Next]_vars
    BY DEF Next, MonitorStep
  <2> QED
    BY <2>1, <2>2, StepSteady
<1>4. UNCHANGED cpc \/ \E z \in Threads : cpc[z] = "zombie" /\ Reap(z)
  BY DEF IntrStep, IntrEnter, IntrReadTime, IntrWait4, IntrStore, IntrTimeout,
     ChldStep, ChldWait, ChldMark, ChldStop, ChldStopTimer, Zombies, Waitable
<1>5. \A n \in Threads : cpc'[n] = cpc[n] \/ (cpc[n] = "zombie" /\ cpc'[n] = "gone")
  BY <1>1, <1>4 DEF Reap
<1>6. \A n \in Threads : ThreadState(n)' = ThreadState(n)
  BY <1>2, <1>5, ThreadStays, ThreadFacts, ThreadFactsNext
<1> QED
  BY <1>2, <1>3, <1>6, PromiseStutter

\* Every step of the run is a step of the promise or changes nothing of it.
LEMMA PromiseNext ==
  ASSUME ThreadMode = "fork", ~CleanupExits, StopInv, ReapInv, RunInv, [Next]_vars
  PROVE  [Promise!Next]_(Promise!vars)
<1>1. TypeOK
  BY DEF StopInv
<1>2. CASE MonitorStep
  BY <1>2, PromiseMain, PromiseStop, PromiseHandler DEF MonitorStep
<1>3. ASSUME NEW n \in Threads, Child(n) PROVE [Promise!Next]_(Promise!vars)
  BY <1>3, PromiseChild
<1>4. ASSUME NEW n \in Threads, Crash(n) PROVE [Promise!Next]_(Promise!vars)
  <2>1. cpc[n] \in LivePlaces /\ Die(n) /\ UNCHANGED <<monVars, start, ready>>
    BY <1>4, ConstantsAssumption DEF Crash, ConstantsAssumption
  <2>2. Steady
    BY <2>1 DEF Steady
  <2> QED
    BY <1>1, <2>1, <2>2, PromiseDie
<1>5. ASSUME UNCHANGED <<mon, start, ready, cpc>>, ~StopVisit, ~StopFinalStats
      PROVE  [Promise!Next]_(Promise!vars)
  <2>1. \A n \in Threads : ThreadState(n)' = ThreadState(n)
    BY <1>5, ThreadStays
  <2> QED
    BY <1>5, <2>1, StepSteady, PromiseStutter
<1>6. ASSUME NEW s \in Sigs, Deliver(s) PROVE [Promise!Next]_(Promise!vars)
  <2>1. UNCHANGED <<mon, start, ready, cpc>> /\ stack' = Append(stack, s)
    BY <1>6 DEF Deliver
  <2>2. stack' # stack
    BY <1>1, <2>1 DEF TypeOK
  <2>3. ~StopVisit /\ ~StopFinalStats
    BY <2>2 DEF StopVisit, StopFinalStats, Goto
  <2> QED
    BY <1>5, <2>1, <2>3
<1>7. CASE Tick \/ Advance
  BY <1>7, ThreadStays, PromiseStutter DEF Tick, Advance, Steady
<1>8. CASE UNCHANGED vars
  BY <1>8, ThreadStays, PromiseStutter DEF Steady
<1>9. CASE SendSigint
  <2>1. UNCHANGED <<start, ready, cpc, pc, printed, visited>> /\ mon = "running"
    BY <1>9 DEF SendSigint
  <2>2. \A n \in Threads : ThreadState(n)' = ThreadState(n)
    BY <2>1, ThreadStays
  <2>3. CASE disp["INT"] = "handler"
    <3>1. UNCHANGED mon
      BY <1>9, <2>3 DEF SendSigint
    <3> QED
      BY <2>1, <2>2, <3>1, PromiseStutter DEF Steady
  <2>4. CASE disp["INT"] # "handler"
    <3>1. mon' = "killed"
      BY <1>9, <2>4 DEF SendSigint
    <3>2. pc["main"] \in PreInt /\ pc["INT"] = "idle" /\ pc["ALRM"] = "idle"
      BY <2>4 DEF RunInv, IntOK
    <3>3. pc["CHLD"] # "sh_exit"
      BY DEF StopInv, CodeOK, ChldLabels
    <3>4. ~printed
      BY <3>2, <3>3 DEF RunInv, VisitOK, Ctxs, Sigs, PreInt
    <3>5. Phase \in {"starting", "running", "stopping"} /\ Phase' = "over"
      BY <2>1, <3>1, <3>4 DEF Phase
    <3>6. UNCHANGED ThreadStates /\ (mon = "ok")' = (mon = "ok")
      BY <2>1, <2>2, <3>1 DEF ThreadStates
    <3>7. Promise!Abort
      BY <2>1, <3>5, <3>6 DEF Promise!Abort, ThreadStates
    <3> QED
      BY <3>7 DEF Promise!Next
  <2> QED
    BY <2>3, <2>4
<1> QED
  BY <1>2, <1>3, <1>4, <1>6, <1>7, <1>8, <1>9 DEF Next, Over

\* With fork(), and a transport whose cleanup returns, the program keeps the
\* promise of the module Run for any number of SIGINTs, kills, bad CPUs and
\* failing forks: it starts once and not before both threads are ready,
\* reports once and only over dead threads, and succeeds only after that.
THEOREM KeepsPromiseHolds ==
  ASSUME ThreadMode = "fork", ~CleanupExits
  PROVE  Spec => KeepsPromise
<1>1. Init => ReapInv
  BY ReapInvInit
<1>2. StopInv /\ ReapInv /\ [Next]_vars => ReapInv'
  BY ReapInvNext
<1>3. Init => Promise!Init
  <2> SUFFICES ASSUME Init PROVE Promise!Init
    OBVIOUS
  <2>1. /\ mon = "running" /\ ~printed /\ start = FALSE /\ ready = [n \in Threads |-> FALSE]
        /\ \A c \in Ctxs : pc[c] \in {"spawn0", "idle"}
        /\ \A n \in Threads : cpc[n] = "unborn"
    BY DEF Init, Ctxs, Sigs
  <2>2. ~Stopping
    BY <2>1 DEF Stopping, StoppingLabels
  <2>3. Phase = "starting"
    BY <2>1, <2>2, PhaseFacts
  <2>4. \A n \in Threads : ThreadState(n) = "unborn"
    BY <2>1, ThreadFacts
  <2> QED
    BY <2>1, <2>3, <2>4 DEF Promise!Init
<1>4. StopInv /\ ReapInv /\ RunInv /\ [Next]_vars => [Promise!Next]_(Promise!vars)
  BY PromiseNext
<1> QED
  BY <1>1, <1>2, <1>3, <1>4, RunInvariant, PTL DEF Spec, KeepsPromise, Promise!Spec
=============================================================================
