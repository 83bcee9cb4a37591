---------------------------- MODULE ReportProofs ----------------------------
(***************************************************************************)
(* Proof that with fork() the final report is quiet: whatever signals      *)
(* arrive and whoever kills the threads, stop_handler removes the transport*)
(* and prints the totals only when both threads are dead and reaped.       *)
(***************************************************************************)
EXTENDS LifecycleProofs

USE DEF vars, runVars, monVars, sigVars, kidVars, envVars

Spawning == {"spawn0", "pid0", "spawn1", "pid1", "chld_sig"}
ReportLabels == {"sh_cleanup", "sh_final", "sh_exit"}

\* Why pid = -1 can be trusted: when the SIGCHLD handler is installed both
\* pids are recorded, so the 0 that waitpid returns matches none of them, and
\* a pid that does match belongs to a thread that has just been reaped.
ReapInv ==
    /\ \A n \in Threads : pid[n] \in {NoPid, DeadPid, Pid(n)}
    /\ \A n \in Threads : pid[n] = DeadPid => cpc[n] = "gone"
    /\ pc["CHLD"] = "ch_mark" => \A n \in Threads : wres = Pid(n) => cpc[n] = "gone"
    /\ disp["CHLD"] = "handler" => \A n \in Threads : pid[n] # NoPid
    /\ disp["CHLD"] # "handler" =>
          pc["CHLD"] = "idle" /\ \A n \in Threads : pid[n] # DeadPid
    /\ pc["main"] \in Spawning => disp["CHLD"] # "handler"
    /\ pc["main"] \in {"spawn1", "pid1", "chld_sig"} => pid[0] # NoPid
    /\ pc["main"] = "chld_sig" => pid[1] # NoPid
    /\ \A c \in Ctxs : pc[c] \in ReportLabels => \A n \in Threads : pid[n] = DeadPid

\* A step that leaves alone what ReapInv is about, or weakens its premises.
PcPlain ==
    /\ \A c \in Ctxs : \/ pc'[c] = pc[c]
                       \/ pc'[c] \notin Spawning \cup ReportLabels \cup {"ch_mark"}
                       \/ pc[c] \in ReportLabels /\ pc'[c] \in ReportLabels
    /\ pc["CHLD"] = "idle" => pc'["CHLD"] = "idle" \/ disp["CHLD"] = "handler"

GoneStays == \A n \in Threads : cpc[n] = "gone" => cpc'[n] = "gone"

\* A plain step preserves the invariant.
LEMMA PlainInv ==
  ASSUME ReapInv, PcPlain, GoneStays, UNCHANGED <<pid, wres>>,
         disp'["CHLD"] = disp["CHLD"]
  PROVE  ReapInv'
<1>1. "main" \in Ctxs /\ "CHLD" \in Ctxs
  BY DEF Ctxs, Sigs
<1>2. ~("ch_mark" \in ReportLabels) /\ \A l \in Spawning : l \notin ReportLabels
  BY DEF ReportLabels, Spawning
<1>3. pc'["CHLD"] = "ch_mark" => pc["CHLD"] = "ch_mark"
  BY <1>1, <1>2 DEF PcPlain
<1>4. \A l \in Spawning : pc'["main"] = l => pc["main"] = l
  BY <1>1, <1>2 DEF PcPlain
<1>5. \A c \in Ctxs : pc'[c] \in ReportLabels => pc[c] \in ReportLabels
  BY DEF PcPlain
<1>6. pc["CHLD"] = "idle" => pc'["CHLD"] = "idle" \/ disp["CHLD"] = "handler"
  BY DEF PcPlain
<1> QED
  BY <1>3, <1>4, <1>5, <1>6 DEF ReapInv, GoneStays, Spawning

\* A jump to a label that ReapInv does not mention is plain.
LEMMA GotoPlain ==
  ASSUME StopInv, NEW l, Goto(l),
         \/ l \notin Spawning \cup ReportLabels \cup {"ch_mark"}
         \/ pc[cur] \in ReportLabels /\ l \in ReportLabels
  PROVE  PcPlain
<1>1. cur \in Ctxs /\ pc[cur] # "idle" /\ pc \in [Ctxs -> Labels] /\ "CHLD" \in Ctxs
  BY CurFacts DEF StopInv, TypeOK, Ctxs, Sigs
<1>2. pc' = [pc EXCEPT ![cur] = l]
  BY DEF Goto
<1> QED
  BY <1>1, <1>2 DEF PcPlain

\* A return is plain.
LEMMA ReturnPlain ==
  ASSUME StopInv, Return
  PROVE  PcPlain
<1>1. cur \in Ctxs /\ pc[cur] # "idle" /\ pc \in [Ctxs -> Labels] /\ "CHLD" \in Ctxs
  BY CurFacts DEF StopInv, TypeOK, Ctxs, Sigs
<1>2. pc' = pc \/ pc' = [pc EXCEPT ![cur] = "idle"]
  BY DEF Return
<1>3. "idle" \notin Spawning \cup ReportLabels \cup {"ch_mark"}
  BY DEF Spawning, ReportLabels
<1> QED
  BY <1>1, <1>2, <1>3 DEF PcPlain

\* While main runs no handler is active.
LEMMA MainAlone ==
  ASSUME StopInv, pc[cur] \in MainLabels
  PROVE  /\ cur = "main"
         /\ \A c \in Sigs : pc[c] = "idle"
         /\ "main" \in Ctxs /\ pc \in [Ctxs -> Labels]
<1>1. cur = "main" /\ Len(stack) = 1
  BY CurFacts DEF StopInv
<1>2. \A c \in Sigs : pc[c] = "idle"
  BY <1>1 DEF StopInv, StackOK, Ctxs, Sigs
<1> QED
  BY <1>1, <1>2 DEF Ctxs, StopInv, TypeOK

\* The invariant holds after init_threads.
LEMMA ReapInvInit == Init => ReapInv
<1> SUFFICES ASSUME Init PROVE ReapInv
  OBVIOUS
<1>1. /\ pc["main"] = "spawn0" /\ pc["CHLD"] = "idle"
      /\ \A c \in Ctxs : pc[c] = "spawn0" \/ pc[c] = "idle"
  BY DEF Init, Ctxs, Sigs
<1>2. disp["CHLD"] = "dfl" /\ \A n \in Threads : pid[n] = NoPid
  BY DEF Init, Sigs
<1>3. NoPid # DeadPid
  BY DEF NoPid, DeadPid
<1> QED
  BY <1>1, <1>2, <1>3 DEF ReapInv, ReportLabels

\* The steps of the threads.  None of them revives a reaped thread.
LEMMA ReapInvChild ==
  ASSUME TypeOK, ReapInv, NEW n \in Threads, Child(n)
  PROVE  ReapInv'
<1>1. UNCHANGED <<monVars, disp>>
  BY ChildShape
<1>2. PcPlain
  BY <1>1 DEF PcPlain
<1>3. GoneStays
  BY DEF GoneStays, TypeOK, Child, Moves, Die, Alive, LivePlaces, EarlyPlaces,
     ChildSetPid, ChildOnParentDeath, ChildSetupInterruptSignal,
     ChildSetAffinity, ChildReady, ChildStart, ChildInterrupted, ChildReadSched,
     ChildExit, OrphanDies, ChildSigint
<1>4. CASE UNCHANGED pid
  BY <1>1, <1>2, <1>3, <1>4, PlainInv
<1>5. CASE ChildSetPid(n)
  <2>1. pid' = [pid EXCEPT ![n] = IF pid[n] = NoPid THEN Pid(n) ELSE pid[n]]
    BY <1>5 DEF ChildSetPid
  <2>2. \A m \in Threads : pid'[m] = pid[m] \/ (pid[m] = NoPid /\ pid'[m] = Pid(m))
    BY <2>1 DEF TypeOK
  <2>3. \A m \in Threads : Pid(m) # NoPid /\ Pid(m) # DeadPid
    BY DEF Pid, NoPid, DeadPid, Threads
  <2>4. 0 \in Threads /\ 1 \in Threads /\ NoPid # DeadPid
    BY DEF Threads, NoPid, DeadPid
  <2>5. pc' = pc /\ wres' = wres /\ disp' = disp
    BY <1>1
  <2> QED
    BY <1>3, <2>2, <2>3, <2>4, <2>5 DEF ReapInv, GoneStays
<1> QED
  BY <1>4, <1>5 DEF Child, ChildOnParentDeath, ChildSetupInterruptSignal,
     ChildSetAffinity, ChildReady, ChildStart, ChildInterrupted, ChildReadSched,
     ChildExit, OrphanDies, ChildSigint

\* The steps of main.  Only while it spawns can a thread come to life, and
\* then no SIGCHLD handler is installed.
LEMMA ReapInvMain ==
  ASSUME ThreadMode = "fork", StopInv, ReapInv, MainStep
  PROVE  ReapInv'
<1> USE DEF At
<1>1. TypeOK /\ pc \in [Ctxs -> Labels] /\ disp \in [Sigs -> {"dfl", "ign", "handler"}]
  BY DEF StopInv, TypeOK
<1>2. pc[cur] \in MainLabels
  BY DEF MainStep, Spawn, SpawnFail, RecordPid, SetupChildSignals, ResetStop,
     SetupStopHandler, WaitReady, SetupMonitorTimer, StartThreads, ReadStartTime,
     SetTimeout, TestStop, SigSuspend, MainLabels
<1>3. cur = "main" /\ (\A c \in Sigs : pc[c] = "idle") /\ "main" \in Ctxs
  BY <1>2, MainAlone
<1>4. ASSUME NEW l, Goto(l)
      PROVE  pc'["main"] = l /\ \A c \in Sigs : pc'[c] = "idle"
  BY <1>1, <1>3, <1>4 DEF Goto, Ctxs, Sigs
<1>5. ASSUME NEW n \in Threads, Spawn(n) PROVE ReapInv'
  <2>1. UNCHANGED <<pid, wres, disp>> /\ cpc' = [cpc EXCEPT ![n] = "setpid"]
        /\ Goto(IF n = 0 THEN "pid0" ELSE "pid1")
    BY <1>5 DEF Spawn
  <2>2. pc'["main"] = (IF n = 0 THEN "pid0" ELSE "pid1") /\ \A c \in Sigs : pc'[c] = "idle"
    BY <1>4, <2>1
  <2>3. pc["main"] = (IF n = 0 THEN "spawn0" ELSE "spawn1")
    BY <1>3, <1>5 DEF Spawn
  <2>4. disp["CHLD"] # "handler" /\ (\A m \in Threads : pid[m] # DeadPid)
        /\ (n # 0 => pid[0] # NoPid)
    BY <2>3 DEF ReapInv, Spawning
  <2>5. \A c \in Ctxs : pc'[c] \notin ReportLabels
    BY <2>2 DEF Ctxs, ReportLabels
  <2>6. pc'["CHLD"] = "idle"
    BY <2>2 DEF Sigs
  <2> QED
    BY <2>1, <2>2, <2>4, <2>5, <2>6 DEF ReapInv
<1>6. ASSUME NEW n \in Threads, SpawnFail(n) PROVE ReapInv'
  <2>1. UNCHANGED <<pc, pid, wres, disp, cpc>>
    BY <1>6 DEF SpawnFail
  <2> QED
    BY <2>1, PlainInv DEF PcPlain, GoneStays
<1>7. ASSUME NEW n \in Threads, RecordPid(n) PROVE ReapInv'
  <2>1. UNCHANGED <<wres, disp, cpc>> /\ pid' = [pid EXCEPT ![n] = Pid(n)]
        /\ Goto(IF n = 0 THEN "spawn1" ELSE "chld_sig")
    BY <1>7 DEF RecordPid
  <2>2. pc'["main"] = (IF n = 0 THEN "spawn1" ELSE "chld_sig") /\ \A c \in Sigs : pc'[c] = "idle"
    BY <1>4, <2>1
  <2>3. pc["main"] = (IF n = 0 THEN "pid0" ELSE "pid1")
    BY <1>3, <1>7 DEF RecordPid
  <2>4. disp["CHLD"] # "handler" /\ (\A m \in Threads : pid[m] # DeadPid)
        /\ (n # 0 => pid[0] # NoPid)
    BY <2>3 DEF ReapInv, Spawning
  <2>5. \A m \in Threads : pid'[m] = IF m = n THEN Pid(n) ELSE pid[m]
    BY <1>1, <2>1 DEF TypeOK
  <2>6. \A m \in Threads : Pid(m) # NoPid /\ Pid(m) # DeadPid
    BY DEF Pid, NoPid, DeadPid, Threads
  <2>7. \A c \in Ctxs : pc'[c] \notin ReportLabels
    BY <2>2 DEF Ctxs, ReportLabels
  <2>8. pc'["CHLD"] = "idle" /\ Threads = {0, 1}
    BY <2>2 DEF Sigs, Threads
  <2> QED
    BY <2>1, <2>2, <2>4, <2>5, <2>6, <2>7, <2>8 DEF ReapInv
<1>8. CASE SetupChildSignals
  <2>1. UNCHANGED <<pid, wres, cpc>> /\ Goto("stop_false")
    BY <1>8 DEF SetupChildSignals
  <2>2. disp'["CHLD"] = "handler"
    BY <1>1, <1>8 DEF SetupChildSignals, Sigs
  <2>3. pc'["main"] = "stop_false" /\ \A c \in Sigs : pc'[c] = "idle"
    BY <1>4, <2>1
  <2>4. pc["main"] = "chld_sig"
    BY <1>3, <1>8 DEF SetupChildSignals
  <2>5. \A m \in Threads : pid[m] # NoPid
    BY <2>4 DEF ReapInv, Threads
  <2>6. \A c \in Ctxs : pc'[c] \notin ReportLabels
    BY <2>3 DEF Ctxs, ReportLabels
  <2>7. pc'["CHLD"] = "idle" /\ pc'["main"] \notin Spawning
    BY <2>3 DEF Sigs, Spawning
  <2> QED
    BY <2>1, <2>2, <2>3, <2>5, <2>6, <2>7 DEF ReapInv
<1>9. CASE \/ ResetStop \/ SetupStopHandler \/ WaitReady \/ SetupMonitorTimer
           \/ StartThreads \/ ReadStartTime \/ SetTimeout \/ TestStop \/ SigSuspend
  <2>1. UNCHANGED <<pid, wres, cpc>>
    BY <1>9 DEF ResetStop, SetupStopHandler, WaitReady, SetupMonitorTimer,
       StartThreads, ReadStartTime, SetTimeout, TestStop, SigSuspend
  <2>2. disp'["CHLD"] = disp["CHLD"]
    BY <1>1, <1>9 DEF ResetStop, SetupStopHandler, WaitReady, SetupMonitorTimer,
       StartThreads, ReadStartTime, SetTimeout, TestStop, SigSuspend, Sigs
  <2>3. \E l : Goto(l) /\ l \notin Spawning \cup ReportLabels \cup {"ch_mark"}
    BY <1>9 DEF ResetStop, SetupStopHandler, WaitReady, SetupMonitorTimer,
       StartThreads, ReadStartTime, SetTimeout, TestStop, SigSuspend, Spawning,
       ReportLabels
  <2>4. PcPlain
    BY <2>3, GotoPlain
  <2> QED
    BY <2>1, <2>2, <2>4, PlainInv DEF GoneStays
<1> QED
  BY <1>5, <1>6, <1>7, <1>8, <1>9 DEF MainStep

\* The steps of stop_handler.  It passes its wait only when both pids are -1.
LEMMA ReapInvStop ==
  ASSUME StopInv, ReapInv, StopStep
  PROVE  ReapInv'
<1> USE DEF At
<1>1. TypeOK /\ pc \in [Ctxs -> Labels] /\ disp \in [Sigs -> {"dfl", "ign", "handler"}]
      /\ cur \in Ctxs /\ pc[cur] # "idle"
  BY CurFacts DEF StopInv, TypeOK
<1>2. UNCHANGED <<pid, wres, cpc>> /\ disp'["CHLD"] = disp["CHLD"]
  BY <1>1 DEF StopStep, StopEnter, StopVisit, StopStopTimer, StopTimer, StopFlag,
     StopSignal, StopWait, StopCommCleanup, StopFinalStats, StopExit, Sigs
<1>3. GoneStays
  BY <1>2 DEF GoneStays
<1>4. CASE StopEnter
  <2>1. Return \/ Goto("sh_visit")
    BY <1>4 DEF StopEnter
  <2>2. "sh_visit" \notin Spawning \cup ReportLabels \cup {"ch_mark"}
    BY DEF Spawning, ReportLabels
  <2> QED
    BY <1>2, <1>3, <2>1, <2>2, GotoPlain, ReturnPlain, PlainInv
<1>5. CASE StopVisit \/ StopStopTimer \/ StopFlag \/ \E n \in Threads : StopSignal(n)
  <2>1. \E l : Goto(l) /\ l \notin Spawning \cup ReportLabels \cup {"ch_mark"}
    BY <1>5 DEF StopVisit, StopStopTimer, StopFlag, StopSignal, Spawning, ReportLabels
  <2> QED
    BY <1>2, <1>3, <2>1, GotoPlain, PlainInv
<1>6. CASE StopWait
  <2>1. (\A n \in Threads : pid[n] = DeadPid) /\ pc[cur] = "sh_wait"
    BY <1>6 DEF StopWait
  <2>2. pc' = [pc EXCEPT ![cur] = "sh_cleanup"]
    BY <1>6 DEF StopWait, Goto
  <2>3. \A c \in Ctxs : pc'[c] = pc[c] \/ pc'[c] = "sh_cleanup"
    BY <1>1, <2>2
  <2>4. pc["CHLD"] \in ChldLabels \cup {"idle"} /\ "CHLD" \in Ctxs /\ "main" \in Ctxs
    BY DEF StopInv, CodeOK, Ctxs, Sigs
  <2>5. pc'["CHLD"] = pc["CHLD"]
    BY <1>1, <2>1, <2>2, <2>4 DEF ChldLabels
  <2>6. pc'["main"] = pc["main"] \/ pc'["main"] \notin Spawning
    BY <2>3, <2>4 DEF Spawning
  <2>7. \A l \in {"spawn1", "pid1", "chld_sig"} : l \in Spawning
    BY DEF Spawning
  <2> QED
    BY <1>2, <2>1, <2>5, <2>6, <2>7 DEF ReapInv
<1>7. CASE StopCommCleanup \/ StopFinalStats \/ StopExit
  <2>1. \/ UNCHANGED pc
        \/ \E l : Goto(l) /\ pc[cur] \in ReportLabels /\ l \in ReportLabels
    BY <1>7 DEF StopCommCleanup, StopFinalStats, StopExit, ReportLabels
  <2>2. PcPlain
    BY <2>1, GotoPlain DEF PcPlain
  <2> QED
    BY <1>2, <1>3, <2>2, PlainInv
<1> QED
  BY <1>4, <1>5, <1>6, <1>7 DEF StopStep

\* The steps of monitor_interrupt.  wait4 may reap, but marks nobody.
LEMMA ReapInvIntr ==
  ASSUME StopInv, ReapInv, IntrStep
  PROVE  ReapInv'
<1> USE DEF At
<1>1. TypeOK
  BY DEF StopInv
<1>2. UNCHANGED <<pid, wres, disp>>
  BY DEF IntrStep, IntrEnter, IntrReadTime, IntrWait4, IntrStore, IntrTimeout
<1>3. GoneStays
  BY <1>1 DEF IntrStep, IntrEnter, IntrReadTime, IntrWait4, IntrStore, IntrTimeout,
     Reap, GoneStays, TypeOK
<1>4. Return \/ \E l : Goto(l) /\ l \notin Spawning \cup ReportLabels \cup {"ch_mark"}
  BY DEF IntrStep, IntrEnter, IntrReadTime, IntrWait4, IntrStore, IntrTimeout,
     Spawning, ReportLabels
<1>5. PcPlain
  BY <1>4, GotoPlain, ReturnPlain
<1> QED
  BY <1>2, <1>3, <1>5, PlainInv

\* The steps of child_handler.  What it marks it has just reaped.
LEMMA ReapInvChld ==
  ASSUME StopInv, ReapInv, ChldStep
  PROVE  ReapInv'
<1> USE DEF At
<1>1. /\ TypeOK /\ pc \in [Ctxs -> Labels] /\ cur \in Ctxs /\ pc[cur] # "idle"
      /\ disp \in [Sigs -> {"dfl", "ign", "handler"}] /\ "CHLD" \in Ctxs /\ "main" \in Ctxs
  BY CurFacts DEF StopInv, TypeOK, Ctxs, Sigs
<1>2. pc[cur] \in ChldLabels
  BY DEF ChldStep, ChldWait, ChldMark, ChldStop, ChldStopTimer, ChldLabels
<1>3. cur = "CHLD"
  BY <1>1, <1>2, LabelsApart DEF StopInv, CodeOK, Ctxs, Sigs
<1>4. disp["CHLD"] = "handler" /\ disp'["CHLD"] = "handler"
  <2>1. disp["CHLD"] = "handler"
    BY <1>1, <1>3 DEF ReapInv
  <2> QED
    BY <1>1, <2>1 DEF ChldStep, ChldWait, ChldMark, ChldStop, ChldStopTimer, StopTimer, Sigs
<1>5. \A n \in Threads : Pid(n) # NoPid /\ Pid(n) # DeadPid
  BY DEF Pid, NoPid, DeadPid, Threads
<1>6. CASE ChldWait
  <2>1. UNCHANGED <<pid, disp>>
    BY <1>6 DEF ChldWait
  <2>2. GoneStays
    BY <1>1, <1>6 DEF ChldWait, Reap, GoneStays, TypeOK
  <2>3. CASE Return /\ UNCHANGED wres
    BY <2>1, <2>2, <2>3, ReturnPlain, PlainInv
  <2>4. CASE Goto("ch_mark") /\ \A n \in Threads : wres' = Pid(n) => cpc'[n] = "gone"
    <3>1. pc'["CHLD"] = "ch_mark" /\ \A c \in Ctxs : c # "CHLD" => pc'[c] = pc[c]
      BY <1>1, <1>3, <2>4 DEF Goto
    <3>2. pc'["main"] = pc["main"] /\ \A c \in Ctxs : pc'[c] \in ReportLabels => pc[c] \in ReportLabels
      BY <1>1, <3>1 DEF ReportLabels
    <3> QED
      BY <1>4, <2>1, <2>2, <2>4, <3>2 DEF ReapInv, GoneStays
  <2>5. ASSUME NEW z \in Zombies, Reap(z), wres' = Pid(z)
        PROVE  \A n \in Threads : wres' = Pid(n) => cpc'[n] = "gone"
    BY <1>1, <2>5 DEF Reap, TypeOK, Zombies, Pid, Threads
  <2>6. wres' = 0 => \A n \in Threads : wres' # Pid(n)
    BY <1>5 DEF NoPid
  <2> QED
    BY <1>6, <2>3, <2>4, <2>5, <2>6 DEF ChldWait
<1>7. CASE ChldMark
  <2>1. UNCHANGED <<wres, cpc, disp>> /\ pc["CHLD"] = "ch_mark"
    BY <1>3, <1>7 DEF ChldMark
  <2>2. GoneStays
    BY <2>1 DEF GoneStays
  <2>3. CASE Matches(wres) # {} /\ pid' = [pid EXCEPT ![Marked(wres)] = DeadPid] /\ Goto("ch_stop")
    <3> DEFINE m == Marked(wres)
    <3>1. m \in Threads /\ pid[m] = wres
      BY <2>3 DEF Matches, Marked, Threads
    <3>2. wres # NoPid /\ wres # DeadPid
      BY <1>1, <1>4, <1>5, <3>1 DEF ReapInv, TypeOK, DeadPid, Threads, Pid
    <3>3. wres = Pid(m) /\ cpc[m] = "gone"
      BY <2>1, <3>1, <3>2 DEF ReapInv
    <3>4. \A n \in Threads : pid'[n] = IF n = m THEN DeadPid ELSE pid[n]
      BY <1>1, <2>3, <3>1 DEF TypeOK
    <3>5. pc'["CHLD"] = "ch_stop" /\ \A c \in Ctxs : c # "CHLD" => pc'[c] = pc[c]
      BY <1>1, <1>3, <2>3 DEF Goto
    <3>6. pc'["main"] = pc["main"] /\ \A c \in Ctxs : pc'[c] \in ReportLabels => pc[c] \in ReportLabels
      BY <1>1, <3>5 DEF ReportLabels
    <3>7. pc["main"] \notin Spawning /\ \A l \in {"spawn1", "pid1", "chld_sig"} : l \in Spawning
      BY <1>4 DEF ReapInv, Spawning
    <3>8. NoPid # DeadPid
      BY DEF NoPid, DeadPid
    <3> HIDE DEF m
    <3> QED
      BY <1>4, <2>1, <3>3, <3>4, <3>5, <3>6, <3>7, <3>8 DEF ReapInv
  <2>4. CASE UNCHANGED pid /\ (Return \/ Goto("ch_wait"))
    <3>1. "ch_wait" \notin Spawning \cup ReportLabels \cup {"ch_mark"}
      BY DEF Spawning, ReportLabels
    <3> QED
      BY <2>1, <2>2, <2>4, <3>1, ReturnPlain, GotoPlain, PlainInv
  <2> QED
    BY <1>7, <2>3, <2>4 DEF ChldMark
<1>8. CASE ChldStop \/ ChldStopTimer
  <2>1. UNCHANGED <<pid, wres, cpc>>
    BY <1>8 DEF ChldStop, ChldStopTimer
  <2>2. \E l : Goto(l) /\ l \notin Spawning \cup ReportLabels \cup {"ch_mark"}
    BY <1>8 DEF ChldStop, ChldStopTimer, Spawning, ReportLabels
  <2> QED
    BY <1>4, <2>1, <2>2, GotoPlain, PlainInv DEF GoneStays
<1> QED
  BY <1>6, <1>7, <1>8 DEF ChldStep

\* Every step preserves the invariant.
LEMMA ReapInvNext ==
  ASSUME ThreadMode = "fork", StopInv, ReapInv, [Next]_vars
  PROVE  ReapInv'
<1>1. TypeOK /\ pc \in [Ctxs -> Labels] /\ cur \in Ctxs /\ pc[cur] # "idle"
  BY CurFacts DEF StopInv, TypeOK
<1>2. CASE MonitorStep
  BY <1>2, ReapInvMain, ReapInvStop, ReapInvIntr, ReapInvChld DEF MonitorStep
<1>3. ASSUME NEW n \in Threads, Child(n) PROVE ReapInv'
  BY <1>1, <1>3, ReapInvChild
<1>4. ASSUME NEW s \in Sigs, Deliver(s) PROVE ReapInv'
  <2>1. UNCHANGED <<pid, wres, cpc, disp>> /\ pc[s] = "idle" /\ disp[s] = "handler"
    BY <1>4 DEF Deliver, Deliverable
  <2>2. /\ \A c \in Ctxs \ {cur, s} : pc'[c] = pc[c]
        /\ pc'[s] = Entry(s)
        /\ pc'[cur] = IF pc[cur] = "suspended" THEN "loop" ELSE pc[cur]
    BY <1>1, <2>1, <1>4 DEF Deliver, Ctxs
  <2>3. Entry(s) \notin Spawning \cup ReportLabels \cup {"ch_mark"}
        /\ "loop" \notin Spawning \cup ReportLabels \cup {"ch_mark"}
    BY DEF Entry, Sigs, Spawning, ReportLabels
  <2>4. PcPlain
    BY <1>1, <2>1, <2>2, <2>3 DEF PcPlain, Ctxs, Sigs
  <2> QED
    BY <2>1, <2>4, PlainInv DEF GoneStays
<1>5. CASE Tick \/ Advance \/ SendSigint \/ UNCHANGED vars
  <2>1. UNCHANGED <<pid, wres, cpc, disp, pc>>
    BY <1>5 DEF Tick, Advance, SendSigint
  <2> QED
    BY <2>1, PlainInv DEF GoneStays, PcPlain
<1>6. ASSUME NEW n \in Threads, Crash(n) PROVE ReapInv'
  <2>1. UNCHANGED <<pid, wres, disp, pc>>
    BY <1>6 DEF Crash
  <2>2. cpc[n] \in LivePlaces /\ cpc' = [cpc EXCEPT ![n] = IF mon = "running" THEN "zombie" ELSE "gone"]
    BY <1>6, ConstantsAssumption DEF Crash, Die, ConstantsAssumption
  <2>3. GoneStays
    BY <1>1, <2>2 DEF GoneStays, TypeOK, LivePlaces, EarlyPlaces
  <2> QED
    BY <2>1, <2>3, PlainInv DEF PcPlain
<1> QED
  BY <1>2, <1>3, <1>4, <1>5, <1>6 DEF Next, Over

\* The invariant is as strong as the two properties.
LEMMA ReapInvImplies == ReapInv => QuietReport /\ DeadAreDead
  BY DEF ReapInv, QuietReport, DeadAreDead, Reporting, ReportLabels

\* With fork() the transport is removed and the totals are printed only when
\* both threads are dead and reaped, for any number of SIGINTs and kills.
THEOREM QuietReportHolds ==
  ASSUME ThreadMode = "fork"
  PROVE  Spec => []QuietReport
<1>1. Init => StopInv /\ ReapInv
  BY StopInvInit, ReapInvInit
<1>2. StopInv /\ ReapInv /\ [Next]_vars => (StopInv /\ ReapInv)'
  BY StopInvNext, ReapInvNext
<1>3. StopInv /\ ReapInv => QuietReport
  BY ReapInvImplies
<1> QED
  BY <1>1, <1>2, <1>3, PTL DEF Spec

\* With fork() a pid of -1 in run_data always means a dead, reaped thread.
THEOREM DeadAreDeadHolds ==
  ASSUME ThreadMode = "fork"
  PROVE  Spec => []DeadAreDead
<1>1. Init => StopInv /\ ReapInv
  BY StopInvInit, ReapInvInit
<1>2. StopInv /\ ReapInv /\ [Next]_vars => (StopInv /\ ReapInv)'
  BY StopInvNext, ReapInvNext
<1>3. StopInv /\ ReapInv => DeadAreDead
  BY ReapInvImplies
<1> QED
  BY <1>1, <1>2, <1>3, PTL DEF Spec
=============================================================================
