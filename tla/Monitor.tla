------------------------------- MODULE Monitor -------------------------------
(***************************************************************************)
(* The monitor process (threads_startup.c, threads_monitor.c, signals.c    *)
(* and the two wait4 calls of stats_periodic.c): it spawns the threads,    *)
(* waits until they are ready, starts them and sleeps in sigsuspend.       *)
(* Three signal handlers do the rest: stop_handler (SIGINT),               *)
(* monitor_interrupt (SIGALRM) and child_handler (SIGCHLD).  A handler     *)
(* blocks only its own signal, so each of them may interrupt the others.   *)
(***************************************************************************)
EXTENDS RunState

-----------------------------------------------------------------------------
\* start_threads: do_fork and do_clone

\* fork() or clone() of thread n.  fork returns the pid to the parent, which
\* stores it with the next statement; after clone only tid is stored, pid is
\* left to the thread.
Spawn(n) ==
    /\ At(IF n = 0 THEN "spawn0" ELSE "spawn1")
    /\ cpc' = [cpc EXCEPT ![n] = "setpid"]
    /\ Goto(IF ThreadMode = "fork" THEN (IF n = 0 THEN "pid0" ELSE "pid1")
                                   ELSE (IF n = 0 THEN "spawn1" ELSE "chld_sig"))
    /\ UNCHANGED <<runVars, mon, visited, inInterrupt, wres, now, printed,
                   sigVars, pdeath, usr, kint, envVars>>

\* fork fails: exit_fail.  clone fails: line 88 tests pid, which is not what
\* clone's result was stored in, and the monitor goes on without a thread.
SpawnFail(n) ==
    /\ SpawnFails
    /\ At(IF n = 0 THEN "spawn0" ELSE "spawn1")
    /\ IF ThreadMode = "fork"
       THEN mon' = "failed" /\ UNCHANGED <<pc, stack>>
       ELSE Goto(IF n = 0 THEN "spawn1" ELSE "chld_sig") /\ UNCHANGED mon
    /\ UNCHANGED <<runVars, visited, inInterrupt, wres, now, printed,
                   sigVars, kidVars, envVars>>

RecordPid(n) ==
    /\ At(IF n = 0 THEN "pid0" ELSE "pid1")
    /\ pid' = [pid EXCEPT ![n] = Pid(n)]
    /\ Goto(IF n = 0 THEN "spawn1" ELSE "chld_sig")
    /\ UNCHANGED <<stop, start, ready, sched, lastStats, timeoutSet, mon, visited,
                   inInterrupt, wres, now, printed, sigVars, kidVars, envVars>>

-----------------------------------------------------------------------------
\* do_monitor_work

SetupChildSignals ==
    /\ At("chld_sig")
    /\ disp' = [disp EXCEPT !["CHLD"] = "handler"]
    /\ Goto("stop_false")
    /\ UNCHANGED <<runVars, mon, visited, inInterrupt, wres, now, printed,
                   pend, armed, kidVars, envVars>>

\* setup_stop_handler: the reset of stop, then sigaction(SIGINT)
ResetStop ==
    /\ At("stop_false")
    /\ stop' = FALSE
    /\ Goto("int_sig")
    /\ UNCHANGED <<start, ready, pid, sched, lastStats, timeoutSet, mon, visited,
                   inInterrupt, wres, now, printed, sigVars, kidVars, envVars>>

SetupStopHandler ==
    /\ At("int_sig")
    /\ disp' = [disp EXCEPT !["INT"] = "handler"]
    /\ Goto("ready_wait")
    /\ UNCHANGED <<runVars, mon, visited, inInterrupt, wres, now, printed,
                   pend, armed, kidVars, envVars>>

MutantWaitReady ==
    /\ At("ready_wait")
    /\ \E n \in Threads : ready[n]
    /\ Goto("timer")
    /\ UNCHANGED <<runVars, mon, visited, inInterrupt, wres, now, printed,
                   sigVars, kidVars, envVars>>

\* Lines 206-208: the loop that waits for the threads tests nothing else.
WaitReady ==
    /\ At("ready_wait")
    /\ \A n \in Threads : ready[n]
    /\ Goto("timer")
    /\ UNCHANGED <<runVars, mon, visited, inInterrupt, wres, now, printed,
                   sigVars, kidVars, envVars>>

SetupMonitorTimer ==
    /\ At("timer")
    /\ IF StatsTimer
       THEN disp' = [disp EXCEPT !["ALRM"] = "handler"] /\ armed' = TRUE
       ELSE UNCHANGED <<disp, armed>>
    /\ Goto("start")
    /\ UNCHANGED <<runVars, mon, visited, inInterrupt, wres, now, printed,
                   pend, kidVars, envVars>>

StartThreads ==
    /\ At("start")
    /\ start' = TRUE
    /\ Goto("times")
    /\ UNCHANGED <<stop, ready, pid, sched, lastStats, timeoutSet, mon, visited,
                   inInterrupt, wres, now, printed, sigVars, kidVars, envVars>>

\* Line 216: start_time = last_stats_time = get_time()
ReadStartTime ==
    /\ At("times")
    /\ age' = 0 /\ lastStats' = 0
    /\ Goto("timeout")
    /\ UNCHANGED <<stop, start, ready, pid, sched, timeoutSet, mon, visited,
                   inInterrupt, wres, now, printed, sigVars, kidVars, sigints, crashes>>

\* Line 217: timeout_time = start_time + runtime
SetTimeout ==
    /\ At("timeout")
    /\ timeoutSet' = TRUE
    /\ Goto("loop")
    /\ UNCHANGED <<stop, start, ready, pid, sched, lastStats, mon, visited,
                   inInterrupt, wres, now, printed, sigVars, kidVars, envVars>>

\* Lines 219-222.  The test and sigsuspend are separate statements, and no
\* signal is blocked between them.
TestStop ==
    /\ At("loop")
    /\ Goto(IF stop THEN "sh_enter" ELSE "suspend")
    /\ UNCHANGED <<runVars, mon, visited, inInterrupt, wres, now, printed,
                   sigVars, kidVars, envVars>>

SigSuspend ==
    /\ At("suspend")
    /\ Goto("suspended")
    /\ UNCHANGED <<runVars, mon, visited, inInterrupt, wres, now, printed,
                   sigVars, kidVars, envVars>>

MainStep ==
    \/ \E n \in Threads : Spawn(n) \/ SpawnFail(n) \/ RecordPid(n)
    \/ SetupChildSignals \/ ResetStop \/ SetupStopHandler \/ WaitReady
    \/ SetupMonitorTimer \/ StartThreads \/ ReadStartTime \/ SetTimeout
    \/ TestStop \/ SigSuspend

-----------------------------------------------------------------------------
\* stop_handler, in whichever context it was called

MutantStopTimer ==
    /\ disp' = [disp EXCEPT !["ALRM"] = "handler"]
    /\ UNCHANGED <<pend, armed>>

\* stop_timer: SIG_IGN also discards a pending SIGALRM.
StopTimer ==
    /\ disp' = [disp EXCEPT !["ALRM"] = "ign"]
    /\ pend' = pend \ {"ALRM"}
    /\ armed' = FALSE

\* Line 85: the second caller returns (monitor_interrupt then returns too,
\* without in_interrupt--).
StopEnter ==
    /\ At("sh_enter")
    /\ IF visited THEN Return ELSE Goto("sh_visit") /\ UNCHANGED mon
    /\ UNCHANGED <<runVars, visited, inInterrupt, wres, now, printed,
                   sigVars, kidVars, envVars>>

MutantStopVisit ==
    /\ At("sh_visit")
    /\ Goto("sh_timer")
    /\ UNCHANGED <<runVars, mon, visited, inInterrupt, wres, now, printed,
                   sigVars, kidVars, envVars>>

StopVisit ==
    /\ At("sh_visit")
    /\ visited' = TRUE
    /\ Goto("sh_timer")
    /\ UNCHANGED <<runVars, mon, inInterrupt, wres, now, printed,
                   sigVars, kidVars, envVars>>

StopStopTimer ==
    /\ At("sh_timer")
    /\ StopTimer
    /\ Goto("sh_stop")
    /\ UNCHANGED <<runVars, mon, visited, inInterrupt, wres, now, printed,
                   kidVars, envVars>>

\* stop_threads: stop = true, then a signal to each thread
StopFlag ==
    /\ At("sh_stop")
    /\ stop' = TRUE
    /\ Goto("sh_kill0")
    /\ UNCHANGED <<start, ready, pid, sched, lastStats, timeoutSet, mon, visited,
                   inInterrupt, wres, now, printed, sigVars, kidVars, envVars>>

\* send_sig signals only a positive pid; kill does nothing to a process that
\* has been reaped.
StopSignal(n) ==
    /\ At(IF n = 0 THEN "sh_kill0" ELSE "sh_kill1")
    /\ usr' = [usr EXCEPT ![n] = @ \/ (pid[n] = Pid(n) /\ Alive(n))]
    /\ Goto(IF n = 0 THEN "sh_kill1" ELSE "sh_wait")
    /\ UNCHANGED <<runVars, mon, visited, inInterrupt, wres, now, printed,
                   sigVars, cpc, pdeath, kint, envVars>>

MutantStopWait ==
    /\ At("sh_wait")
    /\ \E n \in Threads : pid[n] = DeadPid
    /\ Goto("sh_cleanup")
    /\ UNCHANGED <<runVars, mon, visited, inInterrupt, wres, now, printed,
                   sigVars, kidVars, envVars>>

\* Lines 97-99: sleep until child_handler has seen both threads die.
StopWait ==
    /\ At("sh_wait")
    /\ \A n \in Threads : pid[n] = DeadPid
    /\ Goto("sh_cleanup")
    /\ UNCHANGED <<runVars, mon, visited, inInterrupt, wres, now, printed,
                   sigVars, kidVars, envVars>>

\* config.comm_cleanup(); for pipe and namedpipe this is exit(EXIT_SUCCESS).
StopCommCleanup ==
    /\ At("sh_cleanup")
    /\ IF CleanupExits THEN mon' = "ok" /\ UNCHANGED <<pc, stack>>
                       ELSE Goto("sh_final") /\ UNCHANGED mon
    /\ UNCHANGED <<runVars, visited, inInterrupt, wres, now, printed,
                   sigVars, kidVars, envVars>>

StopFinalStats ==
    /\ At("sh_final")
    /\ printed' = TRUE
    /\ Goto("sh_exit")
    /\ UNCHANGED <<runVars, mon, visited, inInterrupt, wres, now,
                   sigVars, kidVars, envVars>>

\* monitor_cleanup and exit(EXIT_SUCCESS)
StopExit ==
    /\ At("sh_exit")
    /\ mon' = "ok"
    /\ UNCHANGED <<runVars, stack, pc, visited, inInterrupt, wres, now, printed,
                   sigVars, kidVars, envVars>>

StopStep ==
    \/ StopEnter \/ StopVisit \/ StopStopTimer \/ StopFlag
    \/ \E n \in Threads : StopSignal(n)
    \/ StopWait \/ StopCommCleanup \/ StopFinalStats \/ StopExit

-----------------------------------------------------------------------------
\* monitor_interrupt, with show_periodic_stats and gather_periodic_stats

IntrEnter ==
    /\ At("mi_enter")
    /\ IF inInterrupt THEN Return /\ UNCHANGED inInterrupt
                      ELSE inInterrupt' = TRUE /\ Goto("mi_time") /\ UNCHANGED mon
    /\ UNCHANGED <<runVars, visited, wres, now, printed, sigVars, kidVars, envVars>>

IntrReadTime ==
    /\ At("mi_time")
    /\ now' = age
    /\ Goto("mi_wait0")
    /\ UNCHANGED <<runVars, mon, visited, inInterrupt, wres, printed,
                   sigVars, kidVars, envVars>>

\* wait4(thread_info[n].pid, WNOHANG) is called for the rusage, but it also
\* reaps: a status taken here never reaches child_handler.
IntrWait4(n) ==
    /\ At(IF n = 0 THEN "mi_wait0" ELSE "mi_wait1")
    /\ \/ \E z \in Waitable(pid[n]) : Reap(z)
       \/ Waitable(pid[n]) = {} /\ UNCHANGED kidVars
    /\ Goto(IF n = 0 THEN "mi_wait1" ELSE "mi_store")
    /\ UNCHANGED <<runVars, mon, visited, inInterrupt, wres, now, printed,
                   sigVars, envVars>>

MutantIntrStore ==
    /\ At("mi_store")
    /\ lastStats' = now + 1
    /\ Goto("mi_timeout")
    /\ UNCHANGED <<stop, start, ready, pid, sched, timeoutSet, mon, visited,
                   inInterrupt, wres, now, printed, sigVars, kidVars, envVars>>

\* show_periodic_stats prints and stores nothing once stop is set.
IntrStore ==
    /\ At("mi_store")
    /\ lastStats' = IF stop THEN lastStats ELSE now
    /\ Goto("mi_timeout")
    /\ UNCHANGED <<stop, start, ready, pid, sched, timeoutSet, mon, visited,
                   inInterrupt, wres, now, printed, sigVars, kidVars, envVars>>

MutantTimedOut == ~timeoutSet \/ lastStats + 1 >= Runtime

\* last_stats_time >= timeout_time.  Until line 217 has run timeout_time is
\* 0, which no clock value is below.
TimedOut == ~timeoutSet \/ lastStats >= Runtime

MutantIntrTimeout ==
    /\ At("mi_timeout")
    /\ IF TimedOut THEN Goto("sh_enter") /\ UNCHANGED mon ELSE Return
    /\ UNCHANGED <<runVars, visited, inInterrupt, wres, now, printed, sigVars,
                   kidVars, envVars>>

IntrTimeout ==
    /\ At("mi_timeout")
    /\ IF TimedOut THEN Goto("sh_enter") /\ UNCHANGED <<mon, inInterrupt>>
                   ELSE Return /\ inInterrupt' = FALSE
    /\ UNCHANGED <<runVars, visited, wres, now, printed, sigVars, kidVars, envVars>>

IntrStep ==
    \/ IntrEnter \/ IntrReadTime \/ (\E n \in Threads : IntrWait4(n))
    \/ IntrStore \/ IntrTimeout

-----------------------------------------------------------------------------
\* child_handler

\* The thread that child_handler takes the pid p for: the comparisons of
\* lines 171 and 176 come before the test for 0.
Matches(p) == {n \in Threads : pid[n] = p}
MutantMarked(p) == IF 1 \in Matches(p) THEN 0 ELSE 1
Marked(p) == IF 0 \in Matches(p) THEN 0 ELSE 1

\* waitpid(-1, WNOHANG): -1 without children, 0 without zombies, else a pid
ChldWait ==
    /\ At("ch_wait")
    /\ \/ /\ WaitTargets(-1) = {}
          /\ Return /\ UNCHANGED <<wres, kidVars>>
       \/ /\ \E z \in Zombies : Reap(z) /\ wres' = Pid(z)
          /\ Goto("ch_mark") /\ UNCHANGED mon
       \/ /\ WaitTargets(-1) # {} /\ Zombies = {}
          /\ wres' = 0 /\ UNCHANGED kidVars
          /\ Goto("ch_mark") /\ UNCHANGED mon
    /\ UNCHANGED <<runVars, visited, inInterrupt, now, printed, sigVars, envVars>>

\* The chain of comparisons: a thread's pid, 0 (break), or a stranger.
ChldMark ==
    /\ At("ch_mark")
    /\ \/ /\ Matches(wres) # {}
          /\ pid' = [pid EXCEPT ![Marked(wres)] = DeadPid]
          /\ Goto("ch_stop") /\ UNCHANGED mon
       \/ /\ Matches(wres) = {} /\ wres = 0
          /\ Return /\ UNCHANGED pid
       \/ /\ Matches(wres) = {} /\ wres # 0
          /\ Goto("ch_wait") /\ UNCHANGED <<mon, pid>>
    /\ UNCHANGED <<stop, start, ready, sched, lastStats, timeoutSet, visited,
                   inInterrupt, wres, now, printed, sigVars, kidVars, envVars>>

ChldStop ==
    /\ At("ch_stop")
    /\ stop' = TRUE
    /\ Goto("ch_timer")
    /\ UNCHANGED <<start, ready, pid, sched, lastStats, timeoutSet, mon, visited,
                   inInterrupt, wres, now, printed, sigVars, kidVars, envVars>>

ChldStopTimer ==
    /\ At("ch_timer")
    /\ StopTimer
    /\ Goto("ch_wait")
    /\ UNCHANGED <<runVars, mon, visited, inInterrupt, wres, now, printed,
                   kidVars, envVars>>

ChldStep == ChldWait \/ ChldMark \/ ChldStop \/ ChldStopTimer

\* Everything the monitor does of its own accord.
MonitorStep == MainStep \/ StopStep \/ IntrStep \/ ChldStep
=============================================================================
