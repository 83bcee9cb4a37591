------------------------------ MODULE CommModes ------------------------------
(***************************************************************************)
(* A run uses one communication mode, which config.comm_mode_index names   *)
(* (do_comm_setup).  This module lets it be any of them and states what    *)
(* all of them owe the program: each implements PingPong.                  *)
(***************************************************************************)
EXTENDS CommState

VARIABLES
    mode,                                \* the family of config.comm_mode_index
    kind, buf,                           \* FdComm
    sems, begun,                         \* SemComm
    word, stop,                          \* FutexComm
    fence, mem, sb,                      \* FlagComm
    handler, pending, received, ready    \* SignalComm

fdVars == <<kind, buf>>
semVars == <<sems, begun>>
futexVars == <<word, stop>>
flagVars == <<fence, mem, sb>>
signalVars == <<handler, pending, received, ready>>
vars == <<tpc, count, harm, mode, fdVars, semVars, futexVars, flagVars, signalVars>>

Fd == INSTANCE FdComm
Sem == INSTANCE SemComm
Futex == INSTANCE FutexComm
Flag == INSTANCE FlagComm
Signal == INSTANCE SignalComm

\* make_pairs sets up the mode chosen; the state of the others does not exist.
Absent == "absent"

Init ==
    \/ /\ mode = "fd" /\ Fd!Init
       /\ sems = Absent /\ begun = Absent /\ word = Absent /\ stop = Absent
       /\ fence = Absent /\ mem = Absent /\ sb = Absent
       /\ handler = Absent /\ pending = Absent /\ received = Absent /\ ready = Absent
    \/ /\ mode = "sem" /\ Sem!Init
       /\ kind = Absent /\ buf = Absent /\ word = Absent /\ stop = Absent
       /\ fence = Absent /\ mem = Absent /\ sb = Absent
       /\ handler = Absent /\ pending = Absent /\ received = Absent /\ ready = Absent
    \/ /\ mode = "futex" /\ Futex!Init
       /\ kind = Absent /\ buf = Absent /\ sems = Absent /\ begun = Absent
       /\ fence = Absent /\ mem = Absent /\ sb = Absent
       /\ handler = Absent /\ pending = Absent /\ received = Absent /\ ready = Absent
    \/ /\ mode = "flag" /\ Flag!Init
       /\ kind = Absent /\ buf = Absent /\ sems = Absent /\ begun = Absent
       /\ word = Absent /\ stop = Absent
       /\ handler = Absent /\ pending = Absent /\ received = Absent /\ ready = Absent
    \/ /\ mode = "signal" /\ Signal!Init
       /\ kind = Absent /\ buf = Absent /\ sems = Absent /\ begun = Absent
       /\ word = Absent /\ stop = Absent
       /\ fence = Absent /\ mem = Absent /\ sb = Absent

\* What is left alone while one mode plays.
InFd == mode = "fd" /\ UNCHANGED <<mode, semVars, futexVars, flagVars, signalVars>>
InSem == mode = "sem" /\ UNCHANGED <<mode, fdVars, futexVars, flagVars, signalVars>>
InFutex == mode = "futex" /\ UNCHANGED <<mode, fdVars, semVars, flagVars, signalVars>>
InFlag == mode = "flag" /\ UNCHANGED <<mode, fdVars, semVars, futexVars, signalVars>>
InSignal == mode = "signal" /\ UNCHANGED <<mode, fdVars, semVars, futexVars, flagVars>>

\* comm_ping and comm_pong of the mode chosen
Thread(t) ==
    \/ InFd /\ Fd!Thread(t)
    \/ InSem /\ Sem!Thread(t)
    \/ InFutex /\ Futex!Thread(t)
    \/ InFlag /\ Flag!Thread(t)
    \/ InSignal /\ Signal!Thread(t)

\* What the hardware and the kernel do for thread t in their own time.
Carry(t) ==
    \/ InFlag /\ Flag!Flush(t)
    \/ InSignal /\ Signal!Catch(t)

\* comm_begin of the mode chosen: only the semaphores have one.
Begin == InSem /\ Sem!Begin

\* What may happen to a game from outside.
Disturb ==
    \/ \E t \in Threads : InFd /\ Fd!Drop(t)
    \/ InFd /\ Fd!PingInterrupted
    \/ InFutex /\ Futex!Stop

\* Nobody sends a lost datagram again.
Lost == harm = "lost" /\ UNCHANGED vars

Next == Begin \/ Disturb \/ Lost \/ \E t \in Threads : Thread(t) \/ Carry(t)

\* The scheduler lets both threads run, stores and signals arrive, and the
\* monitor calls comm_begin.  Nothing has to disturb the game.
Spec ==
    /\ Init /\ [][Next]_vars
    /\ WF_vars(Begin)
    /\ \A t \in Threads : WF_vars(Thread(t)) /\ WF_vars(Carry(t))

-----------------------------------------------------------------------------
\* Properties

\* The values the variables take in the mode that is run.
TypeOK ==
    CASE mode = "fd"     -> Fd!TypeOK
      [] mode = "sem"    -> Sem!TypeOK
      [] mode = "futex"  -> Futex!TypeOK
      [] mode = "flag"   -> Flag!TypeOK
      [] mode = "signal" -> Signal!TypeOK

\* One byte, message or event at a time in the descriptor transports: no
\* sender ever finds the buffer full.
OneBall == mode = "fd" => Fd!OneBall

\* No post of sem.c is lost or added, whatever earlier runs left.
BallsKept == mode = "sem" => Sem!BallsKept

\* No thread sleeps in do_recv_futex with nobody left to wake it.
NoLostWakeup == mode = "futex" => Futex!NoLostWakeup

\* Until stop, a thread woken by do_send_futex is the only one with the ball.
WokenAlone == mode = "futex" => Futex!WokenAlone

\* ping_count is in memory before pong can see the serve of spin or yield.
CountVisible == mode = "flag" => Flag!CountVisible

\* The flag of signal.c swallows no signal.
NoSignalLost == mode = "signal" => Signal!NoSignalLost

Ball == CASE mode = "fd"     -> Fd!Ball
          [] mode = "sem"    -> Sem!Ball
          [] mode = "futex"  -> Futex!Ball
          [] mode = "flag"   -> Flag!Ball
          [] mode = "signal" -> Signal!Ball

\* The serves counted so far, as the mode that is run counts them.
Serves == CASE mode = "sem"  -> Sem!Served
            [] mode = "flag" -> Flag!View(0, "count")
            [] OTHER         -> count

PP == INSTANCE PingPong WITH ball <- Game(Ball), count <- Score(Serves)

\* Every mode plays ping-pong: each serve counted is taken and returned by the
\* other thread before the next one is counted, and undisturbed the game never
\* stops ("each thread sleeps until receiving a wakeup signal from the other",
\* signal.c:126, and so for each mode).
KeepsPlaying == PP!LiveSpec

\* Leftovers of earlier runs, a ping that is stopped and continued, a stop
\* request at any moment: ping comes round again and again, so that the stop
\* signal finds it in its loop.  Only a lost datagram ends that.
NeverStuck == []<>(tpc[0] = "count" \/ harm = "lost")
=============================================================================
