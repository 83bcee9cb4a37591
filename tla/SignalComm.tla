----------------------------- MODULE SignalComm -----------------------------
(***************************************************************************)
(* The mode signal (comms/signal.c): each thread sends the other one a     *)
(* real-time signal whose handler, signal_catcher, sets a flag, and waits  *)
(* for its own flag in an empty loop.  The flag is not volatile, so the    *)
(* compiler may read it once before the loop (Hoisted); at the -Ofast and  *)
(* -O3 the Makefile and __PINGPONG_FN ask for, gcc does.                   *)
(* The steps of do_thread_work that the first signal must not overtake     *)
(* (comm_pre, ready, start) are part of the model.                         *)
(***************************************************************************)
EXTENDS CommState

VARIABLES
    handler,    \* handler[t]: signal_catcher is installed in thread t
    pending,    \* pending[t]: signals sent to t and not delivered
    received,   \* signal_received[t]
    ready       \* run_data->ready[t]

vars == <<handler, pending, received, ready, tpc, count, harm>>

\* make_signal_pair clears the flags before the threads are spawned.
Init ==
    /\ handler = [t \in Threads |-> FALSE]
    /\ pending = [t \in Threads |-> 0]
    /\ received = [t \in Threads |-> FALSE]
    /\ ready = [t \in Threads |-> FALSE]
    /\ tpc = [t \in Threads |-> "pre"]
    /\ count = 0 /\ harm = "none"

Moves(t, from, to) == tpc[t] = from /\ tpc' = [tpc EXCEPT ![t] = to]

\* do_pre_signal
Pre(t) ==
    /\ Moves(t, "pre", "ready")
    /\ handler' = [handler EXCEPT ![t] = TRUE]
    /\ UNCHANGED <<pending, received, ready, count, harm>>

Ready(t) ==
    /\ Moves(t, "ready", "start")
    /\ ready' = [ready EXCEPT ![t] = TRUE]
    /\ UNCHANGED <<handler, pending, received, count, harm>>

MutantStart(t) ==
    /\ Moves(t, "start", IF t = 0 THEN "count" ELSE "look")
    /\ UNCHANGED <<handler, pending, received, ready, count, harm>>

\* The monitor has seen both ready flags and set run_data->start.
Start(t) ==
    /\ \A u \in Threads : ready[u]
    /\ Moves(t, "start", IF t = 0 THEN "count" ELSE "look")
    /\ UNCHANGED <<handler, pending, received, ready, count, harm>>

PingCount == Counts("send") /\ UNCHANGED <<handler, pending, received, ready>>

\* send_sig to the other thread, whose pid is known since it was ready
Send(t) ==
    /\ Moves(t, "send", "look")
    /\ pending' = [pending EXCEPT ![1 - t] = @ + 1]
    /\ UNCHANGED <<handler, received, ready, count, harm>>

\* The loop looks at the flag.  A hoisted read that found it clear is never
\* repeated.
Look(t) ==
    /\ received[t] \/ Hoisted
    /\ Moves(t, "look", IF received[t] THEN "clear" ELSE "forever")
    /\ UNCHANGED <<handler, pending, received, ready, count, harm>>

MutantClear(t) ==
    /\ Moves(t, "clear", IF t = 0 THEN "count" ELSE "send")
    /\ UNCHANGED <<handler, pending, received, ready, count, harm>>

Clear(t) ==
    /\ Moves(t, "clear", IF t = 0 THEN "count" ELSE "send")
    /\ received' = [received EXCEPT ![t] = FALSE]
    /\ UNCHANGED <<handler, pending, ready, count, harm>>

\* The signal arrives: signal_catcher, or the default action.
Catch(t) ==
    /\ pending[t] > 0 /\ tpc[t] # "dead"
    /\ pending' = [pending EXCEPT ![t] = @ - 1]
    /\ IF handler[t]
       THEN received' = [received EXCEPT ![t] = TRUE] /\ UNCHANGED tpc
       ELSE tpc' = [tpc EXCEPT ![t] = "dead"] /\ UNCHANGED received
    /\ UNCHANGED <<handler, ready, count, harm>>

Thread(t) ==
    Pre(t) \/ Ready(t) \/ Start(t) \/ Send(t) \/ Look(t) \/ Clear(t) \/ (t = 0 /\ PingCount)

Next == \E t \in Threads : Thread(t) \/ Catch(t)

Spec ==
    /\ Init /\ [][Next]_vars
    /\ \A t \in Threads : WF_vars(Thread(t)) /\ WF_vars(Catch(t))

-----------------------------------------------------------------------------
\* Properties

\* The values the variables take; no thread dies of the other one's signal.
TypeOK ==
    /\ handler \in [Threads -> BOOLEAN] /\ received \in [Threads -> BOOLEAN]
    /\ ready \in [Threads -> BOOLEAN]
    /\ pending \in [Threads -> 0..1]
    /\ tpc \in [Threads -> {"pre", "ready", "start", "count", "send", "look",
                            "clear", "forever"}]
    /\ tpc[1] # "count" /\ count \in 0..(Wrap - 1)

\* The flag cannot swallow a signal: when one is under way to a thread or
\* waiting in its flag, there is no second one, and the thread that clears
\* its flag clears the signal it has just seen.
NoSignalLost ==
    \A t \in Threads :
        /\ pending[t] > 0 => ~received[t] /\ tpc[t] # "clear"
        /\ (pending[t] > 0 \/ received[t]) => pending[1 - t] = 0 /\ ~received[1 - t]

Ball ==
    IF tpc[0] \in {"pre", "ready", "start", "count"} THEN "ping"
    ELSE IF tpc[1] \in {"send", "clear"} THEN "pong"
    ELSE IF tpc[0] = "send" \/ pending[1] > 0 \/ received[1] THEN "to_pong"
    ELSE "to_ping"

PP == INSTANCE PingPong WITH ball <- Game(Ball), count <- Score(count)
=============================================================================
