------------------------------ MODULE RunState ------------------------------
(***************************************************************************)
(* The state shared by the monitor process and the ping and pong threads   *)
(* (struct run_data_struct, test_process_pingpong.h), the part of the      *)
(* kernel they talk through (signals, the interval timer, process table),  *)
(* and the call stack of the monitor, whose main program is interrupted by *)
(* three signal handlers.  The modules Children and Monitor add the        *)
(* operations, Lifecycle puts them together.                               *)
(*                                                                         *)
(* All labels of pc stand for a place in the C code BETWEEN two statements *)
(* at which a signal may arrive and another process may run.               *)
(***************************************************************************)
EXTENDS Integers, Sequences, FiniteSets

CONSTANTS
    ThreadMode,     \* config.thread_mode: "fork" or "clone" (-t thread)
    Runtime,        \* config.runtime, in statistics intervals (-r)
    StatsTimer,     \* FALSE: config.stats_interval is 0, no timer is armed
    PromptStart,    \* the first interval is longer than lines 210-217 take
    CleanupExits,   \* config.comm_cleanup calls exit() (pipe, namedpipe)
    BadCpu,         \* threads whose set_affinity() fails
    SpawnFails,     \* fork() or clone() may fail
    SigintScope,    \* "monitor" (kill -INT) or "group" (^C at the terminal)
    MaxSigint,      \* bound: how many SIGINTs the environment sends
    CrashAt,        \* places at which a thread may be killed from outside
    MaxCrash        \* bound: how many threads are killed from outside

Threads == {0, 1}              \* ping is 0, pong is 1
Sigs == {"INT", "ALRM", "CHLD"}
Ctxs == Sigs \cup {"main"}     \* what the monitor can be executing

Pid(n) == n + 1                \* the process id the kernel gives thread n
NoPid == 0                     \* thread_info[n].pid after init_threads
DeadPid == -1                  \* what child_handler stores for a dead thread
Unset == -1                    \* a time that has not been read yet

\* Where a thread is.  The first three places come before it has installed
\* the handler for the monitor's stop signal.
EarlyPlaces == {"setpid", "pdeath", "sigs"}
LivePlaces == EarlyPlaces \cup
    {"affinity", "ready", "wait_start", "play", "intr", "exit"}
Places == LivePlaces \cup {"unborn", "zombie", "gone"}

MainLabels == {"spawn0", "pid0", "spawn1", "pid1", "chld_sig", "stop_false",
    "int_sig", "ready_wait", "timer", "start", "times", "timeout",
    "loop", "suspend", "suspended"}
\* stop_handler runs in main and, as a handler, in INT and ALRM.  The labels
\* after sh_visit belong to the call that has executed visited++.
StoppingLabels == {"sh_timer", "sh_stop", "sh_kill0", "sh_kill1", "sh_wait",
    "sh_cleanup", "sh_final", "sh_exit"}
StopLabels == {"sh_enter", "sh_visit"} \cup StoppingLabels
IntrLabels == {"mi_enter", "mi_time", "mi_wait0", "mi_wait1", "mi_store",
    "mi_timeout"}
ChldLabels == {"ch_wait", "ch_mark", "ch_stop", "ch_timer"}
Labels == MainLabels \cup StopLabels \cup IntrLabels \cup ChldLabels \cup {"idle"}

ASSUME ConstantsAssumption ==
    /\ ThreadMode \in {"fork", "clone"}
    /\ Runtime \in Nat
    /\ {StatsTimer, PromptStart, CleanupExits, SpawnFails} \subseteq BOOLEAN
    /\ BadCpu \subseteq Threads
    /\ SigintScope \in {"monitor", "group"}
    /\ MaxSigint \in Nat
    /\ CrashAt \subseteq LivePlaces
    /\ MaxCrash \in Nat

VARIABLES
    \* run_data, shared by the three processes
    stop,        \* "stop request to the threads"
    start,       \* the threads may begin
    ready,       \* ready[n]: thread n is set up
    pid,         \* thread_info[n].pid
    sched,       \* sched[n]: thread n has left its /proc/sched data
    lastStats,   \* last_stats_time, in intervals since start_time
    timeoutSet,  \* timeout_time has been computed
    \* the monitor process
    mon,         \* "running", "ok", "failed" (exit_fail), "killed"
    stack,       \* the interrupted contexts, the running one last
    pc,          \* pc[c]: the next statement of context c
    visited,     \* stop_handler's static
    inInterrupt, \* monitor_interrupt's static
    wres,        \* child_handler's local: what waitpid returned
    now,         \* i_stats.current_time
    printed,     \* output_final_stats has run
    \* the kernel
    pend,        \* signals pending for the monitor (none of them queues)
    disp,        \* disp[s]: "dfl", "ign" or "handler"
    armed,       \* ITIMER_REAL is running
    cpc,         \* cpc[n]: where thread n is
    pdeath,      \* pdeath[n]: PR_SET_PDEATHSIG took effect
    usr,         \* usr[n]: the stop signal is pending for thread n
    kint,        \* kint[n]: a SIGINT is pending for thread n
    \* the environment
    age,         \* intervals since start_time, up to Runtime
    sigints,     \* SIGINTs sent so far
    crashes      \* threads killed from outside so far

runVars == <<stop, start, ready, pid, sched, lastStats, timeoutSet>>
monVars == <<mon, stack, pc, visited, inInterrupt, wres, now, printed>>
sigVars == <<pend, disp, armed>>
kidVars == <<cpc, pdeath, usr, kint>>
envVars == <<age, sigints, crashes>>
vars == <<runVars, monVars, sigVars, kidVars, envVars>>

-----------------------------------------------------------------------------
\* The monitor's call stack.

cur == stack[Len(stack)]
Alive(n) == cpc[n] \in LivePlaces

\* The running context is about to execute the statement at label l.
At(l) == mon = "running" /\ pc[cur] = l
Goto(l) == pc' = [pc EXCEPT ![cur] = l] /\ UNCHANGED stack

\* A handler returns to the context it interrupted; main returns to exit().
Return ==
    IF cur = "main"
    THEN mon' = "ok" /\ UNCHANGED <<stack, pc>>
    ELSE /\ stack' = SubSeq(stack, 1, Len(stack) - 1)
         /\ pc' = [pc EXCEPT ![cur] = "idle"]
         /\ UNCHANGED mon

\* The first statement of the handler of signal s.
Entry(s) == CASE s = "INT"  -> "sh_enter"
              [] s = "ALRM" -> "mi_enter"
              [] s = "CHLD" -> "ch_wait"

-----------------------------------------------------------------------------
\* The process table.

\* Thread n stops running.  While the monitor runs it leaves a zombie and
\* raises SIGCHLD, which the kernel discards unless a handler is installed.
Die(n) ==
    /\ cpc' = [cpc EXCEPT ![n] = IF mon = "running" THEN "zombie" ELSE "gone"]
    /\ usr' = [usr EXCEPT ![n] = FALSE]
    /\ kint' = [kint EXCEPT ![n] = FALSE]
    /\ pend' = IF mon = "running" /\ disp["CHLD"] = "handler"
               THEN pend \cup {"CHLD"} ELSE pend
    /\ UNCHANGED pdeath

Zombies == {n \in Threads : cpc[n] = "zombie"}

\* The zombies that waitpid(p) may reap: p > 0 names one process, 0 (the
\* process group) and -1 name any child.
Waitable(p) == {n \in Zombies : p > 0 => p = Pid(n)}

\* What waitpid(p) waits for; with nothing left it fails with -1.
WaitTargets(p) == {n \in Threads : /\ cpc[n] \notin {"unborn", "gone"}
                                   /\ p > 0 => p = Pid(n)}

Reap(n) == cpc' = [cpc EXCEPT ![n] = "gone"] /\ UNCHANGED <<pdeath, usr, kint>>
=============================================================================
