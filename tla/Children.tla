------------------------------ MODULE Children ------------------------------
(***************************************************************************)
(* What the ping and pong threads do (threads_children.c): do_thread_work  *)
(* from its first shared statement to the endless comm_ping/comm_pong      *)
(* loop, and interrupt_thread, the handler of the monitor's stop signal.   *)
(* The volleys themselves are the subject of PingPong and the modules      *)
(* below it: here a playing thread only waits for its signal, since none   *)
(* of the comm_ping/comm_pong loops ever returns.                          *)
(***************************************************************************)
EXTENDS RunState

\* Thread n moves on without touching the monitor's state.
Moves(n, from, to) == cpc[n] = from /\ cpc' = [cpc EXCEPT ![n] = to]

\* Lines 151-154: the thread stores its pid if it still finds none there.
ChildSetPid(n) ==
    /\ Moves(n, "setpid", "pdeath")
    /\ pid' = [pid EXCEPT ![n] = IF @ = NoPid THEN Pid(n) ELSE @]
    /\ UNCHANGED <<stop, start, ready, sched, lastStats, timeoutSet, monVars,
                   sigVars, pdeath, usr, kint, envVars>>

\* on_parent_death(SIGINT): no signal comes if the parent is already dead.
ChildOnParentDeath(n) ==
    /\ Moves(n, "pdeath", "sigs")
    /\ pdeath' = [pdeath EXCEPT ![n] = mon = "running"]
    /\ UNCHANGED <<runVars, monVars, sigVars, usr, kint, envVars>>

\* setup_interrupt_signal and comm_pre
ChildSetupInterruptSignal(n) ==
    /\ Moves(n, "sigs", "affinity")
    /\ UNCHANGED <<runVars, monVars, sigVars, pdeath, usr, kint, envVars>>

\* set_affinity ends the thread with exit_fail when the CPU does not exist.
ChildSetAffinity(n) ==
    /\ cpc[n] = "affinity"
    /\ IF n \in BadCpu
       THEN Die(n)
       ELSE Moves(n, "affinity", "ready") /\ UNCHANGED <<pdeath, usr, kint, pend>>
    /\ UNCHANGED <<runVars, monVars, disp, armed, envVars>>

\* Line 196
ChildReady(n) ==
    /\ Moves(n, "ready", "wait_start")
    /\ ready' = [ready EXCEPT ![n] = TRUE]
    /\ UNCHANGED <<stop, start, pid, sched, lastStats, timeoutSet, monVars,
                   sigVars, pdeath, usr, kint, envVars>>

\* Lines 198-206: the thread sleeps until start, whatever stop says.
ChildStart(n) ==
    /\ start
    /\ Moves(n, "wait_start", "play")
    /\ UNCHANGED <<runVars, monVars, sigVars, pdeath, usr, kint, envVars>>

MutantInterruptEarlyExit(n) ==
    /\ usr[n] /\ Alive(n) /\ cpc[n] \notin {"intr", "exit"}
    /\ IF cpc[n] \in EarlyPlaces \/ ~start
       THEN Die(n)
       ELSE /\ usr' = [usr EXCEPT ![n] = FALSE]
            /\ cpc' = [cpc EXCEPT ![n] = IF stop THEN "exit" ELSE @]
            /\ UNCHANGED <<pdeath, kint, pend>>
    /\ UNCHANGED <<runVars, monVars, disp, armed, envVars>>

\* The stop signal arrives.  Before setup_interrupt_signal its default action
\* ends the thread; after it interrupt_thread runs, which returns to the
\* interrupted place unless stop is set (rusage_req is never set).
ChildInterrupted(n) ==
    /\ usr[n] /\ Alive(n) /\ cpc[n] \notin {"intr", "exit"}
    /\ IF cpc[n] \in EarlyPlaces
       THEN Die(n)
       ELSE /\ usr' = [usr EXCEPT ![n] = FALSE]
            /\ cpc' = [cpc EXCEPT ![n] = IF stop THEN "intr" ELSE @]
            /\ UNCHANGED <<pdeath, kint, pend>>
    /\ UNCHANGED <<runVars, monVars, disp, armed, envVars>>

\* read_sched_proc leaves the thread's scheduling data in shared memory ...
ChildReadSched(n) ==
    /\ Moves(n, "intr", "exit")
    /\ sched' = [sched EXCEPT ![n] = TRUE]
    /\ UNCHANGED <<stop, start, ready, pid, lastStats, timeoutSet, monVars,
                   sigVars, pdeath, usr, kint, envVars>>

\* ... and comm_cleanup and exit end it.
ChildExit(n) ==
    /\ cpc[n] = "exit"
    /\ Die(n)
    /\ UNCHANGED <<runVars, monVars, disp, armed, envVars>>

\* The kernel delivers the SIGINT asked for by on_parent_death.
OrphanDies(n) ==
    /\ mon # "running" /\ pdeath[n] /\ Alive(n)
    /\ Die(n)
    /\ UNCHANGED <<runVars, monVars, disp, armed, envVars>>

\* ^C: the threads keep the default action of SIGINT.
ChildSigint(n) ==
    /\ kint[n] /\ Alive(n)
    /\ Die(n)
    /\ UNCHANGED <<runVars, monVars, disp, armed, envVars>>

\* Everything thread n does of its own accord.
Child(n) ==
    \/ ChildSetPid(n) \/ ChildOnParentDeath(n) \/ ChildSetupInterruptSignal(n)
    \/ ChildSetAffinity(n) \/ ChildReady(n) \/ ChildStart(n)
    \/ ChildInterrupted(n) \/ ChildReadSched(n) \/ ChildExit(n)
    \/ OrphanDies(n) \/ ChildSigint(n)
=============================================================================
