------------------------------- MODULE FdComm -------------------------------
(***************************************************************************)
(* The communication modes in which the ball is something queued in the    *)
(* kernel: bytes in pipes, named pipes and sockets, a message in a POSIX   *)
(* message queue, the counter of an eventfd, an inotify event.  They share *)
(* the loops of comm_ping_generic and comm_pong_generic (several have      *)
(* copies of their own) and differ in how make_pair connects the ends.     *)
(***************************************************************************)
EXTENDS CommState

Queues == 0..3

VARIABLES
    kind,    \* config.comm_mode_index, fixed for a run
    buf      \* buf[q]: how much is queued in q

vars == <<kind, buf, tpc, count, harm>>

-----------------------------------------------------------------------------
\* Wiring.  An end is <<k, e>>: fd[e] of the k-th call of comm_make_pair.

MutantMouthEnd(t) == <<0, 1>>

\* make_pairs
MouthEnd(t) == IF t = 0 THEN <<0, 1>> ELSE <<1, 1>>
EarEnd(t) == IF t = 0 THEN <<1, 0>> ELSE <<0, 0>>

\* The queue that writing to an end fills and reading from it empties.  Both
\* ends of a pipe, an mq, an eventfd share one queue; each socket of a pair
\* reads what the other writes.
OutQueue(end) == IF kind \in {"socketpair", "udp"} THEN 2 * end[1] + (1 - end[2]) ELSE end[1]
InQueue(end) == IF kind \in {"socketpair", "udp"} THEN 2 * end[1] + end[2] ELSE end[1]

\* The queue thread t writes to and the one it reads from.  namedpipe and tcp
\* use their descriptors directly, inotify the files and watches.
MouthQueue(t) == IF kind \in {"namedpipe", "tcp", "inotify"} THEN t ELSE OutQueue(MouthEnd(t))
EarQueue(t) == IF kind \in {"namedpipe", "tcp", "inotify"} THEN 1 - t ELSE InQueue(EarEnd(t))

\* mq_maxmsg is 1.  Further inotify events of one kind merge.
Room(q) == kind = "inotify" \/ buf[q] < (IF kind = "mq" THEN 1 ELSE Capacity)

-----------------------------------------------------------------------------

\* mq_open without O_EXCL finds what an earlier run left; the other modes
\* start from fresh descriptors.
Init ==
    /\ kind \in Kinds
    /\ buf \in {b \in [Queues -> 0..1] :
                   \A q \in Queues : kind # "mq" \/ q > 1 \/ MaxStale = 0 => b[q] = 0}
    /\ tpc = [t \in Threads |-> IF t = 0 THEN "count" ELSE "recv"]
    /\ count = 0
    /\ harm = IF \E q \in Queues : buf[q] > 0 THEN "disturbed" ELSE "none"

PingCount == Counts("send") /\ UNCHANGED <<kind, buf>>

\* while (do_send(mouth) != 1) ;   blocks or polls until there is room
Send(t) ==
    /\ tpc[t] = "send" /\ Room(MouthQueue(t))
    /\ buf' = [buf EXCEPT ![MouthQueue(t)] = IF kind = "inotify" THEN 1 ELSE @ + 1]
    /\ Goto(t, "recv")
    /\ UNCHANGED <<kind, count, harm>>

MutantRecv(t) ==
    /\ tpc[t] = "recv" /\ buf[EarQueue(t)] > 0
    /\ Goto(t, IF t = 0 THEN "count" ELSE "send")
    /\ UNCHANGED <<kind, buf, count, harm>>

\* while (do_recv(ear) != 1) ;   an eventfd read takes the whole counter, an
\* inotify read all events
Recv(t) ==
    /\ tpc[t] = "recv" /\ buf[EarQueue(t)] > 0
    /\ buf' = [buf EXCEPT ![EarQueue(t)] = IF kind \in {"eventfd", "inotify"} THEN 0 ELSE @ - 1]
    /\ Goto(t, IF t = 0 THEN "count" ELSE "send")
    /\ UNCHANGED <<kind, count, harm>>

\* UDP: write() succeeds, the datagram does not arrive.
Drop(t) ==
    /\ Loses /\ kind = "udp" /\ tpc[t] = "send"
    /\ Goto(t, "recv")
    /\ harm' = "lost"
    /\ UNCHANGED <<kind, buf, count>>

\* A blocked read of an inotify descriptor that is stopped and continued
\* fails with EINTR, and comm_ping_inotify starts again from the top (in pong
\* that is the read itself).
PingInterrupted ==
    /\ JobControl /\ kind = "inotify" /\ tpc[0] = "recv" /\ buf[EarQueue(0)] = 0
    /\ Goto(0, "count")
    /\ harm' = "disturbed"
    /\ UNCHANGED <<kind, buf, count>>

Thread(t) == Send(t) \/ Recv(t) \/ (t = 0 /\ PingCount)

Next ==
    \/ \E t \in Threads : Thread(t)
    \/ \E t \in Threads : Drop(t)
    \/ PingInterrupted

\* The scheduler lets both threads run.
Spec == Init /\ [][Next]_vars /\ \A t \in Threads : WF_vars(Thread(t))

-----------------------------------------------------------------------------
\* Properties

\* The values the variables take; no buffer ever overflows.
TypeOK ==
    /\ kind \in Kinds
    /\ buf \in [Queues -> 0..Capacity]
    /\ tpc \in [Threads -> {"count", "send", "recv"}] /\ tpc[1] # "count"
    /\ count \in 0..(Wrap - 1)

\* Where the ball is: counted and not yet taken by pong, in pong's hands,
\* played back, or with ping.
Ball ==
    IF tpc[0] = "count" THEN "ping"
    ELSE IF tpc[1] = "send" THEN "pong"
    ELSE IF tpc[0] = "send" \/ buf[MouthQueue(0)] > 0 THEN "to_pong"
    ELSE "to_ping"

PP == INSTANCE PingPong WITH ball <- Game(Ball), count <- Score(count)

\* At most one byte, message or event is under way, so that no send ever
\* finds the other side's buffer full (an mq holds a single message).  A lost
\* datagram leaves no more than that behind.
OneBall ==
    harm # "disturbed" =>
        /\ \A t \in Threads : tpc[t] = "send" => \A q \in Queues : buf[q] = 0
        /\ \A p, q \in Queues : buf[p] > 0 /\ buf[q] > 0 => p = q
=============================================================================
