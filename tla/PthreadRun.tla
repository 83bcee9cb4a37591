------------------------------ MODULE PthreadRun ------------------------------
(***************************************************************************)
(* A run with -t pthread.  do_pthread starts ping and pong as detached     *)
(* threads of the monitor's own process, so everything that Lifecycle has  *)
(* three times exists once: one pid, one table of signal dispositions, one *)
(* set of pending signals, one exit().  A signal sent to the process runs  *)
(* its handler in ANY of the three threads that does not block it, on top  *)
(* of whatever that thread is doing, and the statics of the handlers are   *)
(* shared by all of them.                                                  *)
(***************************************************************************)
EXTENDS Integers, Sequences, SequencesExt

CONSTANTS
    Runtime,        \* config.runtime, in statistics intervals (-r)
    CreateFails,    \* pthread_create may fail
    BadCpu,         \* threads whose set_affinity() may fail
    MainFirst,      \* a signal goes to another thread only if main blocks it
    CleanupUnmaps,  \* comm_cleanup unmaps what the players use (spin)
    MaxSigint,      \* bound: how many SIGINTs the environment sends
    SigintTimer     \* bound: the values of statsTimer in runs it sends them to

Threads == {0, 1}
Lwp(n) == IF n = 0 THEN "ping" ELSE "pong"
Lwps == {"main", "ping", "pong"}
Usr(n) == IF n = 0 THEN "USR0" ELSE "USR1"    \* CHILD_INTERRUPT_SIGNALn
Sigs == {"INT", "ALRM", "USR0", "USR1"}
NoPid == 0
OwnPid == 1
DeadPid == -1
Unset == -1

ASSUME PthreadAssumption ==
    /\ Runtime \in Nat \ {0} /\ MaxSigint \in Nat
    /\ {CreateFails, MainFirst, CleanupUnmaps} \subseteq BOOLEAN
    /\ BadCpu \subseteq Threads /\ SigintTimer \subseteq BOOLEAN

VARIABLES
    statsTimer,  \* FALSE: config.stats_interval is 0, no timer is armed
    \* run_data
    stop, start, ready,
    pid,         \* thread_info[n].pid: NoPid, OwnPid (the process's) or DeadPid
    sched,       \* sched[n]: thread n's scheduling data has been stored
    lastStats,   \* last_stats_time, in intervals since start_time
    timeoutSet,  \* timeout_time has been computed
    \* the process
    proc,        \* "running", "ok", "failed", "killed" or "faulted"
    frames,      \* frames[l]: thread l's interrupted contexts, the running
                 \* one last: [ctx |-> "base" or a signal, at |-> a label]
    visited, inInterrupt, now, printed, torn,
    pend, disp, armed,
    \* the environment
    age, sigints

runVars == <<stop, start, ready, pid, sched, lastStats, timeoutSet>>
staticVars == <<visited, inInterrupt, now, printed, torn>>
sigVars == <<statsTimer, pend, disp, armed>>
vars == <<runVars, proc, frames, staticVars, sigVars, age, sigints>>

\* After init_threads.
Init ==
    /\ statsTimer \in BOOLEAN
    /\ stop = FALSE /\ start = FALSE
    /\ ready = [n \in Threads |-> FALSE]
    /\ pid = [n \in Threads |-> NoPid]
    /\ sched = [n \in Threads |-> FALSE]
    /\ lastStats = Unset /\ timeoutSet = FALSE
    /\ proc = "running"
    /\ frames = [l \in Lwps |-> IF l = "main" THEN <<[ctx |-> "base", at |-> "create0"]>>
                                ELSE <<>>]
    /\ visited = FALSE /\ inInterrupt = FALSE /\ now = Unset
    /\ printed = FALSE /\ torn = FALSE
    /\ pend = {} /\ disp = [s \in Sigs |-> "dfl"] /\ armed = FALSE
    /\ age = Unset /\ sigints = 0

-----------------------------------------------------------------------------
\* Threads, their stacks and their signal masks

Born(l) == frames[l] # <<>>
At(l, label) == proc = "running" /\ Born(l) /\ Last(frames[l]).at = label

\* Thread l's stack with its running context moved to a label, and with that
\* context gone; sigsuspend returns when the handler above it has.
Moved(l, label) == [frames EXCEPT ![l][Len(frames[l])].at = label]
Popped(l) ==
    LET rest == Front(frames[l])
    IN  [frames EXCEPT ![l] =
            IF Last(rest).at = "suspended" THEN [rest EXCEPT ![Len(rest)].at = "loop"]
                                           ELSE rest]

Goto(l, label) == frames' = Moved(l, label) /\ UNCHANGED proc
Return(l) == frames' = Popped(l) /\ UNCHANGED proc
Ends(how) == proc' = how /\ UNCHANGED frames

\* A handler blocks its own signal; sigsuspend blocks all but SIGCHLD,
\* SIGALRM and SIGINT until it returns, in the handlers above it too.
Blocked(l) ==
    {frames[l][i].ctx : i \in DOMAIN frames[l]} \cup
        (IF frames[l][1].at = "suspended" THEN {"USR0", "USR1"} ELSE {})

Entry(s) == CASE s = "INT"  -> "sh_enter"
              [] s = "ALRM" -> "mi_enter"
              [] OTHER      -> "it_enter"

\* The kernel runs the handler of s in thread l.  POSIX lets it choose any
\* thread that does not block s; Linux tries the main thread first.
Deliver(s, l) ==
    /\ proc = "running" /\ Born(l)
    /\ s \in pend /\ disp[s] = "handler" /\ s \notin Blocked(l)
    /\ MainFirst /\ l # "main" => s \in Blocked("main")
    /\ pend' = pend \ {s}
    /\ frames' = [frames EXCEPT ![l] = Append(@, [ctx |-> s, at |-> Entry(s)])]
    /\ UNCHANGED <<runVars, proc, staticVars, statsTimer, disp, armed, age, sigints>>

-----------------------------------------------------------------------------
\* do_pthread and do_monitor_work, in the thread "main"

\* pthread_create.  Only the result for ping is tested.
Create(n) ==
    /\ At("main", IF n = 0 THEN "create0" ELSE "create1")
    /\ LET next == IF n = 0 THEN "create1" ELSE "stop_false"
       IN  \/ /\ frames' = [Moved("main", next) EXCEPT
                                ![Lwp(n)] = <<[ctx |-> "base", at |-> "setpid"]>>]
              /\ UNCHANGED proc
           \/ CreateFails /\ n = 0 /\ Ends("failed")
           \/ CreateFails /\ n = 1 /\ Goto("main", next)
    /\ UNCHANGED <<runVars, staticVars, sigVars, age, sigints>>

\* setup_stop_handler
ResetStop ==
    /\ At("main", "stop_false")
    /\ stop' = FALSE
    /\ Goto("main", "int_sig")
    /\ UNCHANGED <<start, ready, pid, sched, lastStats, timeoutSet, staticVars,
                   sigVars, age, sigints>>

SetupStopHandler ==
    /\ At("main", "int_sig")
    /\ disp' = [disp EXCEPT !["INT"] = "handler"]
    /\ Goto("main", "ready_wait")
    /\ UNCHANGED <<runVars, staticVars, statsTimer, pend, armed, age, sigints>>

\* Lines 206-208: sleep and look again until both are ready.
WaitReady ==
    /\ At("main", "ready_wait")
    /\ IF ready[0] /\ ready[1]
       THEN Goto("main", "timer") ELSE UNCHANGED <<frames, proc>>
    /\ UNCHANGED <<runVars, staticVars, sigVars, age, sigints>>

SetupMonitorTimer ==
    /\ At("main", "timer")
    /\ IF statsTimer
       THEN disp' = [disp EXCEPT !["ALRM"] = "handler"] /\ armed' = TRUE
       ELSE UNCHANGED <<disp, armed>>
    /\ Goto("main", "start")
    /\ UNCHANGED <<runVars, staticVars, statsTimer, pend, age, sigints>>

StartThreads ==
    /\ At("main", "start")
    /\ start' = TRUE
    /\ Goto("main", "times")
    /\ UNCHANGED <<stop, ready, pid, sched, lastStats, timeoutSet, staticVars,
                   sigVars, age, sigints>>

\* Lines 216-217; Lifecycle looks at what a tick between them would do.
ReadTimes ==
    /\ At("main", "times")
    /\ age' = 0 /\ lastStats' = 0 /\ timeoutSet' = TRUE
    /\ Goto("main", "loop")
    /\ UNCHANGED <<stop, start, ready, pid, sched, staticVars, sigVars, sigints>>

\* Lines 219-222: the test, then sigsuspend.
TestStop ==
    /\ At("main", "loop")
    /\ Goto("main", IF stop THEN "sh_enter" ELSE "suspend")
    /\ UNCHANGED <<runVars, staticVars, sigVars, age, sigints>>

SigSuspend ==
    /\ At("main", "suspend")
    /\ Goto("main", "suspended")
    /\ UNCHANGED <<runVars, staticVars, sigVars, age, sigints>>

MainStep ==
    \/ \E n \in Threads : Create(n)
    \/ ResetStop \/ SetupStopHandler \/ WaitReady \/ SetupMonitorTimer
    \/ StartThreads \/ ReadTimes \/ TestStop \/ SigSuspend

-----------------------------------------------------------------------------
\* do_thread_work, in the threads "ping" and "pong"

\* Lines 151-154: getpid() is the monitor's own pid.
ThreadSetPid(n) ==
    /\ At(Lwp(n), "setpid")
    /\ pid' = [pid EXCEPT ![n] = OwnPid]
    /\ Goto(Lwp(n), "sigs")
    /\ UNCHANGED <<stop, start, ready, sched, lastStats, timeoutSet, staticVars,
                   sigVars, age, sigints>>

MutantThreadSignals(n) ==
    /\ At(Lwp(n), "sigs")
    /\ Goto(Lwp(n), "ready")
    /\ UNCHANGED <<runVars, staticVars, sigVars, age, sigints>>

\* setup_interrupt_signal
ThreadSignals(n) ==
    /\ At(Lwp(n), "sigs")
    /\ disp' = [disp EXCEPT ![Usr(n)] = "handler"]
    /\ Goto(Lwp(n), "ready")
    /\ UNCHANGED <<runVars, staticVars, statsTimer, pend, armed, age, sigints>>

\* set_affinity, whose exit_fail ends the whole process, and ready
ThreadReady(n) ==
    /\ At(Lwp(n), "ready")
    /\ \/ /\ n \in BadCpu
          /\ Ends("failed") /\ UNCHANGED ready
       \/ /\ ready' = [ready EXCEPT ![n] = TRUE]
          /\ Goto(Lwp(n), "wait_start")
    /\ UNCHANGED <<stop, start, pid, sched, lastStats, timeoutSet, staticVars,
                   sigVars, age, sigints>>

ThreadStart(n) ==
    /\ At(Lwp(n), "wait_start") /\ start
    /\ Goto(Lwp(n), "play")
    /\ UNCHANGED <<runVars, staticVars, sigVars, age, sigints>>

\* A volley touches memory that another thread's comm_cleanup has unmapped.
ThreadFaults(n) ==
    /\ At(Lwp(n), "play") /\ torn /\ CleanupUnmaps
    /\ Ends("faulted")
    /\ UNCHANGED <<runVars, staticVars, sigVars, age, sigints>>

ThreadStep(n) ==
    \/ ThreadSetPid(n) \/ ThreadSignals(n) \/ ThreadReady(n) \/ ThreadStart(n)
    \/ ThreadFaults(n)

-----------------------------------------------------------------------------
\* stop_handler, in the thread that took SIGINT or SIGALRM, or in main

StopEnter(l) ==
    /\ At(l, "sh_enter")
    /\ \/ visited /\ Len(frames[l]) > 1 /\ Return(l)
       \/ visited /\ Len(frames[l]) = 1 /\ Ends("ok")
       \/ ~visited /\ Goto(l, "sh_visit")
    /\ UNCHANGED <<runVars, staticVars, sigVars, age, sigints>>

StopVisit(l) ==
    /\ At(l, "sh_visit")
    /\ visited' = TRUE
    /\ Goto(l, "sh_timer")
    /\ UNCHANGED <<runVars, inInterrupt, now, printed, torn, sigVars, age, sigints>>

StopStopTimer(l) ==
    /\ At(l, "sh_timer")
    /\ disp' = [disp EXCEPT !["ALRM"] = "ign"]
    /\ pend' = pend \ {"ALRM"} /\ armed' = FALSE
    /\ Goto(l, "sh_stop")
    /\ UNCHANGED <<runVars, staticVars, statsTimer, age, sigints>>

MutantStopFlag(l) ==
    /\ At(l, "sh_stop")
    /\ Goto(l, "sh_kill0")
    /\ UNCHANGED <<runVars, staticVars, sigVars, age, sigints>>

StopFlag(l) ==
    /\ At(l, "sh_stop")
    /\ stop' = TRUE
    /\ Goto(l, "sh_kill0")
    /\ UNCHANGED <<start, ready, pid, sched, lastStats, timeoutSet, staticVars,
                   sigVars, age, sigints>>

\* send_sig(thread_info[n].pid, ...): nothing while the pid is 0, else a
\* signal to the process itself, fatal unless thread n has its handler.
StopSignal(l, n) ==
    /\ At(l, IF n = 0 THEN "sh_kill0" ELSE "sh_kill1")
    /\ LET next == IF n = 0 THEN "sh_kill1" ELSE "sh_wait"
       IN  \/ pid[n] <= 0 /\ Goto(l, next) /\ UNCHANGED pend
           \/ /\ pid[n] > 0 /\ disp[Usr(n)] = "handler"
              /\ pend' = pend \cup {Usr(n)} /\ Goto(l, next)
           \/ pid[n] > 0 /\ disp[Usr(n)] = "dfl" /\ Ends("killed") /\ UNCHANGED pend
    /\ UNCHANGED <<runVars, staticVars, statsTimer, disp, armed, age, sigints>>

\* Lines 97-107: the report waits until both pids are -1.  child_handler is
\* what stores that, and the end of a thread raises no SIGCHLD.
StopWait(l) ==
    /\ At(l, "sh_wait")
    /\ IF \A n \in Threads : pid[n] = DeadPid
       THEN printed' = TRUE /\ Ends("ok")
       ELSE UNCHANGED <<printed, proc, frames>>
    /\ UNCHANGED <<runVars, visited, inInterrupt, now, torn, sigVars, age, sigints>>

StopStep(l) ==
    \/ StopEnter(l) \/ StopVisit(l) \/ StopStopTimer(l) \/ StopFlag(l)
    \/ \E n \in Threads : StopSignal(l, n)
    \/ StopWait(l)

-----------------------------------------------------------------------------
\* monitor_interrupt.  in_interrupt keeps a tick that another thread takes
\* meanwhile out; wait4 finds no children.

IntrEnter(l) ==
    /\ At(l, "mi_enter")
    /\ \/ inInterrupt /\ Return(l) /\ UNCHANGED inInterrupt
       \/ ~inInterrupt /\ inInterrupt' = TRUE /\ Goto(l, "mi_gather")
    /\ UNCHANGED <<runVars, visited, now, printed, torn, sigVars, age, sigints>>

IntrGather(l) ==
    /\ At(l, "mi_gather")
    /\ now' = age
    /\ Goto(l, "mi_store")
    /\ UNCHANGED <<runVars, visited, inInterrupt, printed, torn, sigVars, age, sigints>>

MutantIntrStore(l) ==
    /\ At(l, "mi_store")
    /\ lastStats' = now + 1
    /\ Goto(l, "mi_timeout")
    /\ UNCHANGED <<stop, start, ready, pid, sched, timeoutSet, staticVars,
                   sigVars, age, sigints>>

\* show_periodic_stats stores nothing once stop is set.
IntrStore(l) ==
    /\ At(l, "mi_store")
    /\ lastStats' = IF stop THEN lastStats ELSE now
    /\ Goto(l, "mi_timeout")
    /\ UNCHANGED <<stop, start, ready, pid, sched, timeoutSet, staticVars,
                   sigVars, age, sigints>>

MutantTimedOut == lastStats + 1 >= Runtime
TimedOut == lastStats >= Runtime

IntrTimeout(l) ==
    /\ At(l, "mi_timeout")
    /\ \/ TimedOut /\ Goto(l, "sh_enter") /\ UNCHANGED inInterrupt
       \/ ~TimedOut /\ inInterrupt' = FALSE /\ Return(l)
    /\ UNCHANGED <<runVars, visited, now, printed, torn, sigVars, age, sigints>>

IntrStep(l) == IntrEnter(l) \/ IntrGather(l) \/ IntrStore(l) \/ IntrTimeout(l)

-----------------------------------------------------------------------------
\* interrupt_thread, in whichever thread the signal reached

\* The thread number comes from the signal, not from the thread.
Signalled(l) == IF Last(frames[l]).ctx = "USR0" THEN 0 ELSE 1

ThreadInterrupted(l) ==
    /\ At(l, "it_enter")
    /\ IF stop THEN Goto(l, "it_sched") ELSE Return(l)
    /\ UNCHANGED <<runVars, staticVars, sigVars, age, sigints>>

ReadSched(l) ==
    /\ At(l, "it_sched")
    /\ sched' = [sched EXCEPT ![Signalled(l)] = TRUE]
    /\ Goto(l, "it_cleanup")
    /\ UNCHANGED <<stop, start, ready, pid, lastStats, timeoutSet, staticVars,
                   sigVars, age, sigints>>

CommCleanup(l) ==
    /\ At(l, "it_cleanup")
    /\ torn' = TRUE
    /\ Goto(l, "it_exit")
    /\ UNCHANGED <<runVars, visited, inInterrupt, now, printed, sigVars, age, sigints>>

\* exit(EXIT_SUCCESS) ends the process, the monitor included.
ThreadExit(l) ==
    /\ At(l, "it_exit")
    /\ Ends("ok")
    /\ UNCHANGED <<runVars, staticVars, sigVars, age, sigints>>

HandlerStep(l) == ThreadInterrupted(l) \/ ReadSched(l) \/ CommCleanup(l) \/ ThreadExit(l)

-----------------------------------------------------------------------------
\* The environment

\* An interval is longer than monitor_interrupt needs to get past its entry,
\* and the first one than lines 210-217 take.
Tick ==
    /\ proc = "running" /\ armed /\ "ALRM" \notin pend /\ timeoutSet
    /\ \A l \in Lwps : ~At(l, "mi_enter")
    /\ pend' = pend \cup {"ALRM"}
    /\ UNCHANGED <<runVars, proc, frames, staticVars, statsTimer, disp, armed, age, sigints>>

Advance ==
    /\ proc = "running" /\ age # Unset /\ age < Runtime
    /\ age' = age + 1
    /\ UNCHANGED <<runVars, proc, frames, staticVars, sigVars, sigints>>

SendSigint ==
    /\ proc = "running" /\ sigints < MaxSigint /\ statsTimer \in SigintTimer
    /\ sigints' = sigints + 1
    /\ \/ disp["INT"] = "handler" /\ pend' = pend \cup {"INT"} /\ UNCHANGED proc
       \/ disp["INT"] = "dfl" /\ proc' = "killed" /\ UNCHANGED pend
    /\ UNCHANGED <<runVars, frames, staticVars, statsTimer, disp, armed, age>>

Over == proc # "running" /\ UNCHANGED vars

Step(l) ==
    \/ l = "main" /\ MainStep
    \/ \E n \in Threads : l = Lwp(n) /\ ThreadStep(n)
    \/ StopStep(l) \/ IntrStep(l) \/ HandlerStep(l)

Next ==
    \/ \E l \in Lwps : Step(l)
    \/ \E s \in Sigs, l \in Lwps : Deliver(s, l)
    \/ Tick \/ Advance \/ SendSigint \/ Over

\* What thread l does outside monitor_interrupt.
BelowTick(l) == Born(l) /\ Last(frames[l]).ctx # "ALRM" /\ Step(l)

\* Every thread gets to run, the code a tick interrupts as well (an interval
\* is longer than monitor_interrupt takes), pending signals are delivered and
\* time goes on.
Fairness ==
    /\ \A l \in Lwps : WF_vars(Step(l)) /\ SF_vars(BelowTick(l))
    /\ \A s \in Sigs : WF_vars(\E l \in Lwps : Deliver(s, l))
    /\ WF_vars(Tick) /\ WF_vars(Advance)

Spec == Init /\ [][Next]_vars
FairSpec == Spec /\ Fairness

-----------------------------------------------------------------------------
\* Properties

Labels == {"create0", "create1", "stop_false", "int_sig", "ready_wait", "timer", "start",
    "times", "loop", "suspend", "suspended", "setpid", "sigs", "ready", "wait_start",
    "play", "sh_enter", "sh_visit", "sh_timer", "sh_stop", "sh_kill0", "sh_kill1",
    "sh_wait", "mi_enter", "mi_gather", "mi_store", "mi_timeout", "it_enter",
    "it_sched", "it_cleanup", "it_exit"}

\* The values the variables take.
TypeOK ==
    /\ {statsTimer, stop, start, timeoutSet, visited, inInterrupt, printed, torn, armed} \subseteq BOOLEAN
    /\ {ready, sched} \subseteq [Threads -> BOOLEAN]
    /\ pid \in [Threads -> {NoPid, OwnPid, DeadPid}]
    /\ lastStats \in Unset..Runtime /\ now \in Unset..Runtime /\ age \in Unset..Runtime
    /\ proc \in {"running", "ok", "failed", "killed", "faulted"}
    /\ frames \in [Lwps -> Seq([ctx : Sigs \cup {"base"}, at : Labels])]
    /\ pend \subseteq Sigs /\ disp \in [Sigs -> {"dfl", "ign", "handler"}]
    /\ sigints \in 0..MaxSigint

\* "should stop by this time" (timeout_time) and not before: whichever thread
\* the timer's signal reaches and whichever thread ends the process, a run
\* nobody interrupted that got as far as playing lasts config.runtime.
RunsFullTime ==
    proc # "running" /\ proc # "failed" /\ sigints = 0 => age >= Runtime

\* stop_threads signals the process itself.  ready (line 196) is set after
\* setup_interrupt_signal, so once the monitor has passed its wait for both
\* the signal never meets its default action, which would kill the monitor
\* along with the threads.
StopNotFatal ==
    start => proc # "killed"

\* "should stop by this time": a run whose threads are both ready ends, by its
\* timer or, without one, by a SIGINT, in whichever thread the signals are
\* handled: one of the two stop signals always reaches a thread that does not
\* block it.
ReadyRunEnds ==
    ((statsTimer \/ sigints > 0) /\ ready[0] /\ ready[1] /\ ~visited)
        ~> (proc # "running")

\* A run that ends normally has printed "overall statistics at the end of
\* the run" (setup.c:58).
FinalStatsPrinted == proc = "ok" => printed
=============================================================================
