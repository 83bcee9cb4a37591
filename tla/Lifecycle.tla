------------------------------ MODULE Lifecycle ------------------------------
(***************************************************************************)
(* One run of test_process_pingpong, from start_threads to the end of the  *)
(* three processes: the threads (Children), the monitor and its handlers   *)
(* (Monitor), and the environment that delivers signals, lets time pass,   *)
(* sends SIGINT and kills threads.                                         *)
(***************************************************************************)
EXTENDS Children, Monitor

\* After init_threads: run_data is zeroed, no handler is installed.
Init ==
    /\ stop = FALSE /\ start = FALSE
    /\ ready = [n \in Threads |-> FALSE]
    /\ pid = [n \in Threads |-> NoPid]
    /\ sched = [n \in Threads |-> FALSE]
    /\ lastStats = Unset /\ timeoutSet = FALSE
    /\ mon = "running"
    /\ stack = <<"main">>
    /\ pc = [c \in Ctxs |-> IF c = "main" THEN "spawn0" ELSE "idle"]
    /\ visited = FALSE /\ inInterrupt = FALSE
    /\ wres = 0 /\ now = Unset /\ printed = FALSE
    /\ pend = {} /\ disp = [s \in Sigs |-> "dfl"] /\ armed = FALSE
    /\ cpc = [n \in Threads |-> "unborn"]
    /\ pdeath = [n \in Threads |-> FALSE]
    /\ usr = [n \in Threads |-> FALSE]
    /\ kint = [n \in Threads |-> FALSE]
    /\ age = Unset /\ sigints = 0 /\ crashes = 0

-----------------------------------------------------------------------------
\* The environment

\* A signal the kernel could deliver: pending, with a handler installed that
\* is not running (a handler's own signal is blocked while it runs).
Deliverable == {s \in pend : disp[s] = "handler" /\ pc[s] = "idle"}

\* Linux takes the pending signal with the lowest number first.
SigNumber == [INT |-> 2, ALRM |-> 14, CHLD |-> 17]

\* The handler of s runs on top of whatever the monitor is doing.  A signal
\* ends sigsuspend; the loop then tests stop again.
Deliver(s) ==
    /\ mon = "running"
    /\ s \in Deliverable
    /\ \A t \in Deliverable : SigNumber[s] <= SigNumber[t]
    /\ pend' = pend \ {s}
    /\ stack' = Append(stack, s)
    /\ pc' = [pc EXCEPT ![cur] = IF @ = "suspended" THEN "loop" ELSE @,
                        ![s] = Entry(s)]
    /\ UNCHANGED <<runVars, mon, visited, inInterrupt, wres, now, printed,
                   disp, armed, kidVars, envVars>>

\* The interval timer expires.  An expiry while SIGALRM is pending is lost.
Tick ==
    /\ mon = "running" /\ armed /\ "ALRM" \notin pend
    /\ PromptStart => timeoutSet
    /\ pend' = pend \cup {"ALRM"}
    /\ UNCHANGED <<runVars, monVars, disp, armed, kidVars, envVars>>

\* One more interval of the run has passed (counted up to Runtime).
Advance ==
    /\ mon = "running" /\ age # Unset /\ age < Runtime
    /\ age' = age + 1
    /\ UNCHANGED <<runVars, monVars, sigVars, kidVars, sigints, crashes>>

\* The user interrupts the run.  Before setup_stop_handler the default action
\* ends the monitor.  ^C reaches the threads as well.
SendSigint ==
    /\ mon = "running" /\ sigints < MaxSigint
    /\ sigints' = sigints + 1
    /\ IF disp["INT"] = "handler"
       THEN pend' = pend \cup {"INT"} /\ UNCHANGED mon
       ELSE mon' = "killed" /\ UNCHANGED pend
    /\ kint' = [n \in Threads |-> kint[n] \/ (SigintScope = "group" /\ Alive(n))]
    /\ UNCHANGED <<runVars, stack, pc, visited, inInterrupt, wres, now, printed,
                   disp, armed, cpc, pdeath, usr, age, crashes>>

\* Someone kills a thread, or it crashes.
Crash(n) ==
    /\ mon = "running" /\ crashes < MaxCrash
    /\ cpc[n] \in CrashAt
    /\ crashes' = crashes + 1
    /\ Die(n)
    /\ UNCHANGED <<runVars, monVars, disp, armed, age, sigints>>

\* The monitor is gone; whatever is left of the run needs no further step.
Over == mon # "running" /\ UNCHANGED vars

Next ==
    \/ MonitorStep
    \/ \E n \in Threads : Child(n)
    \/ \E s \in Sigs : Deliver(s)
    \/ Tick \/ Advance \/ SendSigint
    \/ \E n \in Threads : Crash(n)
    \/ Over

Spec == Init /\ [][Next]_vars

\* The scheduler lets every process run, the kernel delivers every pending
\* signal and the clock goes on.  Fairness of the monitor is strong and per
\* context: the statistics interval is longer than monitor_interrupt takes,
\* so the code it interrupts gets to run between two expiries.  Nothing
\* obliges anyone to send SIGINT, to kill a thread or to make fork fail.
Fairness ==
    /\ \A c \in Ctxs : SF_vars(MonitorStep /\ cur = c)
    /\ \A n \in Threads : WF_vars(Child(n))
    /\ \A s \in Sigs : WF_vars(Deliver(s))
    /\ WF_vars(Tick) /\ WF_vars(Advance)

FairSpec == Spec /\ Fairness

-----------------------------------------------------------------------------
\* Properties

\* The values the variables take.
TypeOK ==
    /\ stop \in BOOLEAN /\ start \in BOOLEAN /\ timeoutSet \in BOOLEAN
    /\ ready \in [Threads -> BOOLEAN] /\ sched \in [Threads -> BOOLEAN]
    /\ pid \in [Threads -> {NoPid, DeadPid, Pid(0), Pid(1)}]
    /\ lastStats \in Unset..Runtime
    /\ mon \in {"running", "ok", "failed", "killed"}
    /\ stack \in Seq(Ctxs)
    /\ pc \in [Ctxs -> Labels]
    /\ visited \in BOOLEAN /\ inInterrupt \in BOOLEAN /\ printed \in BOOLEAN
    /\ wres \in {0, Pid(0), Pid(1)} /\ now \in Unset..Runtime
    /\ pend \subseteq Sigs /\ armed \in BOOLEAN
    /\ disp \in [Sigs -> {"dfl", "ign", "handler"}]
    /\ cpc \in [Threads -> Places]
    /\ pdeath \in [Threads -> BOOLEAN] /\ usr \in [Threads -> BOOLEAN]
    /\ kint \in [Threads -> BOOLEAN]
    /\ age \in Unset..Runtime
    /\ sigints \in 0..MaxSigint /\ crashes \in 0..MaxCrash

Reporting(c) == pc[c] \in {"sh_cleanup", "sh_final", "sh_exit"}

\* Lines 97-103 of threads_monitor.c: when stop_handler removes the transport
\* and prints the totals, both threads have terminated and been reaped, so
\* neither can touch the transport or the counters under its hands.
QuietReport ==
    \A c \in Ctxs : Reporting(c) => \A n \in Threads : cpc[n] = "gone"

\* The guard `visited' (line 85), a test and an increment in two statements,
\* lets only one call of stop_handler get past it: a nested call that slips
\* in between ends the process before the outer one resumes.
OneStopper ==
    \A c, d \in Ctxs :
        pc[c] \in StoppingLabels /\ pc[d] \in StoppingLabels => c = d

\* From the first stop signal (line 69) until the report no statistics run
\* above stop_handler, so gather_periodic_stats cannot take the exit status
\* that stop_handler is waiting for child_handler to see.
StatsQuiet ==
    \A c \in Ctxs :
        pc[c] \in StoppingLabels \ {"sh_timer"} => cur # "ALRM" \/ c = "ALRM"

\* output_final_stats finds the scheduling data of both threads, provided
\* they had been started and nobody else killed them.
SchedComplete ==
    \A c \in Ctxs :
        /\ Reporting(c) /\ start /\ crashes = 0
        /\ SigintScope = "monitor" \/ sigints = 0
        => \A n \in Threads : sched[n]

\* "should stop by this time" (timeout_time) and not before: the statistics
\* timer ends a run only when config.runtime has passed.
RunsFullTime ==
    pc["ALRM"] \in StopLabels => age >= Runtime

\* send_sig's comment "only send to real pids": the pid stop_threads signals
\* has not been reaped, so the kernel cannot have given it to a stranger.
NoStaleSignal ==
    \A n \in Threads :
        At(IF n = 0 THEN "sh_kill0" ELSE "sh_kill1") /\ pid[n] > 0
            => cpc[n] # "gone"

\* child_handler records as dead only threads that have died (line 181: a
\* result of 0 means "no more pids have been reported dead").
DeadAreDead ==
    \A n \in Threads : pid[n] = DeadPid => cpc[n] \in {"gone", "unborn"}

\* A clone() that fails goes unnoticed: threads_startup.c:88 tests pid, and the
\* result is in tid.  The missing thread's pid, 0, is what waitpid returns when
\* nobody has died (threads_monitor.c:170-181), yet the thread is never taken
\* for dead, and a run that lacks a thread is not started (line 206), prints
\* no totals and does not end with success.
NoThreadNoRun ==
    \A n \in Threads :
        cpc[n] = "unborn" => ~start /\ pid[n] # DeadPid /\ ~printed /\ mon # "ok"

\* "should stop by this time": the monitor ends.
MonitorTerminates == <>(mon # "running")

\* "-r # (0 to run continuously)", setup.c:57: without a limit it is never
\* the statistics timer that ends the run.
RunsContinuously == Runtime = 0 => pc["ALRM"] \notin StopLabels

\* A run that ends normally has printed "overall statistics at the end of
\* the run" (setup.c:58).
FinalStatsPrinted == mon = "ok" => printed

-----------------------------------------------------------------------------
\* The run as its user sees it

Phase ==
    CASE mon # "running" -> "over"
      [] mon = "running" /\ printed -> "reported"
      [] mon = "running" /\ ~printed /\ (\E c \in Ctxs : pc[c] \in StoppingLabels) -> "stopping"
      [] OTHER -> IF start THEN "running" ELSE "starting"

ThreadState(n) ==
    CASE cpc[n] = "unborn" -> "unborn"
      [] cpc[n] \in {"zombie", "gone"} -> "dead"
      [] cpc[n] = "play" -> "playing"
      [] cpc[n] \in {"intr", "exit"} -> IF start THEN "playing" ELSE "alive"
      [] OTHER -> "alive"

Promise == INSTANCE Run WITH
    phase <- Phase, ok <- (mon = "ok"), started <- start, isReady <- ready,
    thread <- [n \in Threads |-> ThreadState(n)]

\* The run implements its abstract specification: no interleaving of the
\* handlers, the threads' deaths and failing system calls lets it start twice
\* or too early, report over a living thread, report twice, or exit with
\* success unreported.
KeepsPromise == Promise!Spec
=============================================================================
