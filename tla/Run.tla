---------------------------------- MODULE Run ----------------------------------
(***************************************************************************)
(* What a run of test_process_pingpong promises, whatever signals, crashes *)
(* and failed system calls meet it on the way: nobody plays before both    *)
(* threads were ready and the run was started; once stopping it never      *)
(* starts again; the final statistics come once, and only over threads     *)
(* that are dead; and the program reports success only after them.         *)
(* Lifecycle implements it.                                                *)
(***************************************************************************)
CONSTANT Threads

VARIABLES
    phase,    \* "starting", "running", "stopping", "reported" or "over"
    ok,       \* the program has exited with EXIT_SUCCESS
    started,  \* run_data->start
    isReady,  \* run_data->ready
    thread    \* thread[n]: "unborn", "alive", "playing" or "dead"

vars == <<phase, ok, started, isReady, thread>>

Init ==
    /\ phase = "starting" /\ ok = FALSE /\ started = FALSE
    /\ isReady = [n \in Threads |-> FALSE]
    /\ thread = [n \in Threads |-> "unborn"]

Spawn(n) ==
    /\ phase = "starting" /\ thread[n] = "unborn"
    /\ thread' = [thread EXCEPT ![n] = "alive"]
    /\ UNCHANGED <<phase, ok, started, isReady>>

GetReady(n) ==
    /\ thread[n] = "alive"
    /\ isReady' = [isReady EXCEPT ![n] = TRUE]
    /\ UNCHANGED <<phase, ok, started, thread>>

Start ==
    /\ phase = "starting" /\ \A n \in Threads : isReady[n]
    /\ phase' = "running" /\ started' = TRUE
    /\ UNCHANGED <<ok, isReady, thread>>

Play(n) ==
    /\ started /\ thread[n] = "alive"
    /\ thread' = [thread EXCEPT ![n] = "playing"]
    /\ UNCHANGED <<phase, ok, started, isReady>>

Die(n) ==
    /\ thread[n] \in {"alive", "playing"}
    /\ thread' = [thread EXCEPT ![n] = "dead"]
    /\ UNCHANGED <<phase, ok, started, isReady>>

Stop ==
    /\ phase \in {"starting", "running"}
    /\ phase' = "stopping"
    /\ UNCHANGED <<ok, started, isReady, thread>>

Report ==
    /\ phase = "stopping" /\ \A n \in Threads : thread[n] = "dead"
    /\ phase' = "reported"
    /\ UNCHANGED <<ok, started, isReady, thread>>

Finish ==
    /\ phase = "reported"
    /\ phase' = "over" /\ ok' = TRUE
    /\ UNCHANGED <<started, isReady, thread>>

\* A failure or a signal ends the program before it got to its report.
Abort ==
    /\ phase \in {"starting", "running", "stopping"}
    /\ phase' = "over"
    /\ UNCHANGED <<ok, started, isReady, thread>>

Next ==
    \/ \E n \in Threads : Spawn(n) \/ GetReady(n) \/ Play(n) \/ Die(n)
    \/ Start \/ Stop \/ Report \/ Finish \/ Abort

Spec == Init /\ [][Next]_vars
================================================================================
