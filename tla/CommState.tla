------------------------------ MODULE CommState ------------------------------
(***************************************************************************)
(* What the communication modes share: two threads, each in its endless    *)
(* loop, the counter run_data->ping_count, and a note of what the outside  *)
(* world has done to the game.  FdComm, SemComm, FutexComm, FlagComm and   *)
(* SignalComm add one transport each, CommModes chooses among them.        *)
(***************************************************************************)
EXTENDS Integers, Sequences

CONSTANTS
    Kinds,       \* the descriptor transports to look at
    Capacity,    \* bound: what a pipe or socket buffer holds (mq holds 1)
    Wrap,        \* bound: ping_count wraps at Wrap
    MaxStale,    \* messages or posts an earlier, killed run may have left
    Loses,       \* the network may drop a UDP datagram
    JobControl,  \* the ping process may be stopped and continued
    MayStop,     \* stop_threads may set run_data->stop
    Hoisted      \* the compiler reads the flag of signal.c once, before the loop

AllKinds == {"pipe", "namedpipe", "socketpair", "udp", "tcp", "mq", "eventfd", "inotify"}

ASSUME CommAssumption ==
    /\ Kinds \subseteq AllKinds
    /\ Capacity \in Nat \ {0} /\ Wrap \in Nat \ {0} /\ MaxStale \in Nat
    /\ {Loses, JobControl, MayStop, Hoisted} \subseteq BOOLEAN

Threads == {0, 1}     \* ping is 0, pong is 1

VARIABLES
    tpc,     \* tpc[t]: the next statement of thread t
    count,   \* run_data->ping_count
    harm     \* "none", "disturbed" (leftovers, EINTR, stop) or "lost" (a datagram)

Goto(t, l) == tpc' = [tpc EXCEPT ![t] = l]

\* run_data->ping_count ++, which only ping does
Counts(next) ==
    /\ tpc[0] = "count"
    /\ count' = (count + 1) % Wrap
    /\ Goto(0, next)
    /\ UNCHANGED harm

\* The game of PingPong that is played while nothing has disturbed it.
Game(ball) == IF harm = "none" THEN ball ELSE "off"
Score(n) == IF harm = "none" THEN n ELSE 0
=============================================================================
