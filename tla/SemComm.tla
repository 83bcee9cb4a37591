------------------------------- MODULE SemComm -------------------------------
(***************************************************************************)
(* The modes sem and busysem (comms/sem.c): two named POSIX semaphores,    *)
(* and a first post by the monitor (comm_begin) that throws the ball in.   *)
(* ping counts a serve before it waits for the ball, so ping_count is one  *)
(* ahead of the serves while it waits.  The two modes differ only in       *)
(* whether a wait sleeps or polls.                                         *)
(***************************************************************************)
EXTENDS CommState

VARIABLES
    sems,    \* sems[0] and sems[1], the values of the semaphores
    begun    \* the monitor has called comm_begin

vars == <<sems, begun, tpc, count, harm>>

\* make_sem_pair: sem_open without O_EXCL keeps the value of a semaphore that
\* exists already.
Init ==
    /\ sems \in [Threads -> 0..MaxStale]
    /\ begun = FALSE
    /\ tpc = [t \in Threads |-> IF t = 0 THEN "count" ELSE "wait"]
    /\ count = 0
    /\ harm = IF \E t \in Threads : sems[t] > 0 THEN "disturbed" ELSE "none"

\* do_begin_sem, after the threads have been told to start
Begin ==
    /\ ~begun /\ begun' = TRUE
    /\ sems' = [sems EXCEPT ![0] = @ + 1]
    /\ UNCHANGED <<tpc, count, harm>>

PingCount == Counts("wait") /\ UNCHANGED <<sems, begun>>

MutantTryWait(t) ==
    /\ tpc[t] = "wait"
    /\ sems' = [sems EXCEPT ![t] = IF @ > 0 THEN @ - 1 ELSE @]
    /\ Goto(t, "post")
    /\ UNCHANGED <<begun, count, harm>>

\* sem_wait or sem_trywait
Wait(t) ==
    /\ tpc[t] = "wait" /\ sems[t] > 0
    /\ sems' = [sems EXCEPT ![t] = @ - 1]
    /\ Goto(t, "post")
    /\ UNCHANGED <<begun, count, harm>>

MutantPost(t) ==
    /\ tpc[t] = "post"
    /\ sems' = [sems EXCEPT ![1] = @ + 1]
    /\ Goto(t, IF t = 0 THEN "count" ELSE "wait")
    /\ UNCHANGED <<begun, count, harm>>

Post(t) ==
    /\ tpc[t] = "post"
    /\ sems' = [sems EXCEPT ![1 - t] = @ + 1]
    /\ Goto(t, IF t = 0 THEN "count" ELSE "wait")
    /\ UNCHANGED <<begun, count, harm>>

Thread(t) == Wait(t) \/ Post(t) \/ (t = 0 /\ PingCount)

Next == Begin \/ \E t \in Threads : Thread(t)

Spec == Init /\ [][Next]_vars /\ WF_vars(Begin) /\ \A t \in Threads : WF_vars(Thread(t))

-----------------------------------------------------------------------------
\* Properties

Held(t) == IF tpc[t] = "post" THEN 1 ELSE 0
Balls == sems[0] + sems[1] + Held(0) + Held(1) + (IF begun THEN 0 ELSE 1)

\* The values the variables take.
TypeOK ==
    /\ sems \in [Threads -> Nat] /\ begun \in BOOLEAN
    /\ tpc \in [Threads -> {"count", "wait", "post"}] /\ tpc[1] # "count"
    /\ count \in 0..(Wrap - 1)

\* No ball is lost or added: there is the one of comm_begin and what earlier
\* runs left, so the semaphores never grow.
BallsKept == Balls \in 1..(1 + 2 * MaxStale)

Ball ==
    IF tpc[0] = "post" THEN "ping"
    ELSE IF tpc[1] = "post" THEN "pong"
    ELSE IF sems[1] > 0 THEN "to_pong"
    ELSE "to_ping"

\* The serves played: ping_count without the one that waits for the ball.
Served == IF tpc[0] = "count" THEN count ELSE (count + Wrap - 1) % Wrap

PP == INSTANCE PingPong WITH ball <- Game(Ball), count <- Score(Served)
=============================================================================
