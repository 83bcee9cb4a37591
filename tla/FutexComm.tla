------------------------------ MODULE FutexComm ------------------------------
(***************************************************************************)
(* The mode futex (comms/futex.c) under the generic loops of comms.c.  The *)
(* two futex pointers attach the same shared word.  make_pairs hands ping  *)
(* the index 1 and pong the index 0 for sending and for receiving alike:   *)
(* a thread sends by writing futex_vals of its index and waking a sleeper  *)
(* until there was one, and receives by sleeping while the word holds the  *)
(* value of the other index.  Each loop also ends when run_data->stop is   *)
(* set.                                                                    *)
(***************************************************************************)
EXTENDS CommState

VARIABLES
    word,    \* *futex_id[0] and *futex_id[1]: the index whose value it holds
    stop     \* run_data->stop

vars == <<word, stop, tpc, count, harm>>

\* make_pairs on what make_futex_pair returned: mouth[t] = ear[t]
Index(t) == 1 - t

Init ==
    /\ word = 0
    /\ tpc = [t \in Threads |-> IF t = 0 THEN "count" ELSE "wait"]
    /\ stop = FALSE
    /\ count = 0 /\ harm = "none"

\* What follows a completed send and a completed receive.
AfterSend == "wait"
AfterRecv(t) == IF t = 0 THEN "count" ELSE "store"

PingCount == Counts("store") /\ UNCHANGED <<word, stop>>

SendStore(t) ==
    /\ tpc[t] = "store"
    /\ word' = Index(t)
    /\ Goto(t, "wake")
    /\ UNCHANGED <<stop, count, harm>>

\* FUTEX_WAKE wakes one sleeper.  Without one the loop goes on, unless stop.
SendWake(t) ==
    /\ tpc[t] = "wake"
    /\ \/ \E u \in Threads :
             /\ tpc[u] = "asleep"
             /\ tpc' = [tpc EXCEPT ![u] = "woken", ![t] = AfterSend]
       \/ /\ \A u \in Threads : tpc[u] # "asleep"
          /\ stop /\ Goto(t, AfterSend)
    /\ UNCHANGED <<word, stop, count, harm>>

MutantRecvWait(t) ==
    /\ tpc[t] = "wait"
    /\ Goto(t, "asleep")
    /\ UNCHANGED <<word, stop, count, harm>>

\* FUTEX_WAIT sleeps if the word still holds the other index's value, which
\* the kernel tests atomically; otherwise it fails and the loop goes on,
\* unless stop.
RecvWait(t) ==
    /\ tpc[t] = "wait"
    /\ \/ word = 1 - Index(t) /\ Goto(t, "asleep")
       \/ word = Index(t) /\ stop /\ Goto(t, AfterRecv(t))
    /\ UNCHANGED <<word, stop, count, harm>>

RecvWoken(t) ==
    /\ tpc[t] = "woken"
    /\ Goto(t, AfterRecv(t))
    /\ UNCHANGED <<word, stop, count, harm>>

\* stop_threads, in the monitor
Stop ==
    /\ MayStop /\ ~stop
    /\ stop' = TRUE /\ harm' = "disturbed"
    /\ UNCHANGED <<word, tpc, count>>

Thread(t) ==
    SendStore(t) \/ SendWake(t) \/ RecvWait(t) \/ RecvWoken(t) \/ (t = 0 /\ PingCount)

Next == Stop \/ \E t \in Threads : Thread(t)

Spec == Init /\ [][Next]_vars /\ \A t \in Threads : WF_vars(Thread(t))

-----------------------------------------------------------------------------
\* Properties

\* The values the variables take.
TypeOK ==
    /\ word \in {0, 1} /\ stop \in BOOLEAN /\ count \in 0..(Wrap - 1)
    /\ tpc \in [Threads -> {"count", "store", "wake", "wait", "asleep", "woken"}]
    /\ tpc[1] # "count"

\* Also while the run is being stopped, a thread sleeps only on the value its
\* partner has stored and before it has stored its own, so that it is the
\* partner who still owes it a wake; the two never sleep at once.
NoLostWakeup == \A t \in Threads : tpc[t] = "asleep" => word = 1 - Index(t)

\* A wake reaches the other thread: nobody is woken while that thread, too,
\* has the ball.
WokenAlone == ~stop => \A t \in Threads :
    tpc[t] = "woken" => tpc[1 - t] \notin {"count", "store", "woken", "asleep"}

Ball ==
    IF tpc[0] \in {"count", "woken"} THEN "ping"
    ELSE IF tpc[1] \in {"store", "woken"} THEN "pong"
    ELSE IF tpc[0] \in {"store", "wake"} THEN "to_pong"
    ELSE "to_ping"

PP == INSTANCE PingPong WITH ball <- Game(Ball), count <- Score(count)
=============================================================================
