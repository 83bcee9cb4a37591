----------------------------- MODULE CommProofs -----------------------------
(***************************************************************************)
(* Proofs about the communication modes for every capacity, every number   *)
(* of leftovers and every width of ping_count.  Each transport has an      *)
(* inductive invariant that says where its ball is; a step of CommModes    *)
(* is a step of the transport chosen (ModeStep), so the invariants carry   *)
(* over, and with them what CommModes says of the transports and the       *)
(* safety half of the game of PingPong.                                    *)
(***************************************************************************)
EXTENDS CommModes, SequenceTheorems, TLAPS

USE CommAssumption DEF CommAssumption, Threads, Goto

-----------------------------------------------------------------------------
\* The descriptor transports

\* Where the balls of a descriptor transport are: only the two queues that
\* make_pairs connects are used; a game nobody disturbed has exactly one ball,
\* in one of four places, and a lost datagram leaves none.
FdPlaces ==
    /\ harm \in {"none", "disturbed", "lost"}
    /\ harm = "lost" => kind = "udp"
    /\ harm = "disturbed" => kind \in {"mq", "inotify"}
    /\ \A q \in Fd!Queues : q \notin {Fd!MouthQueue(0), Fd!MouthQueue(1)} => buf[q] = 0
    /\ harm = "lost" =>
        tpc[0] = "recv" /\ tpc[1] = "recv" /\ \A q \in Fd!Queues : buf[q] = 0
    /\ harm = "none" =>
        \/ /\ tpc[0] \in {"count", "send"} /\ tpc[1] = "recv"
           /\ buf[Fd!MouthQueue(0)] = 0 /\ buf[Fd!MouthQueue(1)] = 0
        \/ /\ tpc[0] = "recv" /\ tpc[1] = "recv"
           /\ buf[Fd!MouthQueue(0)] = 1 /\ buf[Fd!MouthQueue(1)] = 0
        \/ /\ tpc[0] = "recv" /\ tpc[1] = "send"
           /\ buf[Fd!MouthQueue(0)] = 0 /\ buf[Fd!MouthQueue(1)] = 0
        \/ /\ tpc[0] = "recv" /\ tpc[1] = "recv"
           /\ buf[Fd!MouthQueue(0)] = 0 /\ buf[Fd!MouthQueue(1)] = 1

FdInv == Fd!TypeOK /\ FdPlaces

\* make_pairs crosses the wires in every transport: what one thread writes is
\* what the other one reads, and the two directions do not share a queue.
LEMMA FdWiring ==
    ASSUME kind \in Kinds
    PROVE  /\ Fd!MouthQueue(0) \in Fd!Queues /\ Fd!MouthQueue(1) \in Fd!Queues
           /\ Fd!MouthQueue(0) # Fd!MouthQueue(1)
           /\ Fd!EarQueue(0) = Fd!MouthQueue(1) /\ Fd!EarQueue(1) = Fd!MouthQueue(0)
  BY DEF Fd!MouthQueue, Fd!EarQueue, Fd!MouthEnd, Fd!EarEnd, Fd!OutQueue, Fd!InQueue,
         Fd!Queues

\* The descriptors make_pair returns, with what an earlier run left in an mq.
LEMMA FdInit == Fd!Init => FdInv
<1> SUFFICES ASSUME Fd!Init PROVE FdInv
  OBVIOUS
<1>1. tpc[0] = "count" /\ tpc[1] = "recv"
  BY DEF Fd!Init, Fd!Threads
<1>2. Fd!TypeOK
  <2>1. count \in 0..(Wrap - 1)
    BY DEF Fd!Init
  <2>2. tpc \in [Fd!Threads -> {"count", "send", "recv"}]
    BY DEF Fd!Init, Fd!Threads
  <2>3. buf \in [Fd!Queues -> 0..Capacity]
    BY DEF Fd!Init, Fd!Queues
  <2> QED
    BY <1>1, <2>1, <2>2, <2>3 DEF Fd!TypeOK, Fd!Init
<1>3. FdPlaces
  <2>1. harm = "none" => \A q \in Fd!Queues : buf[q] = 0
    BY DEF Fd!Init, Fd!Queues
  <2>2. harm = "disturbed" => kind = "mq"
    BY DEF Fd!Init, Fd!Queues
  <2>3. kind \in Kinds /\ harm \in {"none", "disturbed"}
    BY DEF Fd!Init
  <2>4. \A q \in Fd!Queues : q \notin {Fd!MouthQueue(0), Fd!MouthQueue(1)} => buf[q] = 0
    BY DEF Fd!Init, Fd!Queues, Fd!MouthQueue, Fd!OutQueue, Fd!MouthEnd
  <2> QED
    BY <1>1, <2>1, <2>2, <2>3, <2>4, FdWiring DEF FdPlaces
<1> QED
  BY <1>2, <1>3 DEF FdInv

\* Each statement of the two loops, a lost datagram and an interrupted read
\* keep the ball in one place.
LEMMA FdStep == FdInv /\ [Fd!Next]_(Fd!vars) => FdInv'
<1> SUFFICES ASSUME FdInv, [Fd!Next]_(Fd!vars) PROVE FdInv'
  OBVIOUS
<1> DEFINE A == Fd!MouthQueue(0)
           B == Fd!MouthQueue(1)
<1>1. /\ A \in Fd!Queues /\ B \in Fd!Queues /\ A # B
      /\ Fd!EarQueue(0) = B /\ Fd!EarQueue(1) = A
  BY FdWiring DEF FdInv, Fd!TypeOK
<1>2. kind' = kind => A' = A /\ B' = B
  BY DEF Fd!MouthQueue, Fd!MouthEnd, Fd!OutQueue
<1> HIDE DEF A, B
<1> USE DEF FdInv, Fd!TypeOK, FdPlaces, Fd!Threads, Fd!Goto
<1>3. CASE Fd!PingCount
  <2>1. (count + 1) % Wrap \in 0..(Wrap - 1)
    OBVIOUS
  <2> QED
    BY <1>1, <1>2, <1>3, <2>1 DEF Fd!PingCount, Fd!Counts, A, B
<1>4. ASSUME NEW t \in Fd!Threads, Fd!Send(t) PROVE FdInv'
  <2>1. Fd!MouthQueue(t) = IF t = 0 THEN A ELSE B
    BY DEF A, B
  <2>2. buf' \in [Fd!Queues -> 0..Capacity]
    BY <1>1, <1>4, <2>1 DEF Fd!Send, Fd!Room
  <2>3. CASE t = 0
    BY <1>1, <1>2, <1>4, <2>1, <2>2, <2>3 DEF Fd!Send, Fd!Room, A, B
  <2>4. CASE t = 1
    BY <1>1, <1>2, <1>4, <2>1, <2>2, <2>4 DEF Fd!Send, Fd!Room, A, B
  <2> QED
    BY <2>3, <2>4
<1>5. ASSUME NEW t \in Fd!Threads, Fd!Recv(t) PROVE FdInv'
  <2>1. Fd!EarQueue(t) = IF t = 0 THEN B ELSE A
    BY <1>1
  <2>2. buf' \in [Fd!Queues -> 0..Capacity]
    BY <1>1, <1>5, <2>1 DEF Fd!Recv
  <2>3. CASE t = 0
    BY <1>1, <1>2, <1>5, <2>1, <2>2, <2>3 DEF Fd!Recv, A, B
  <2>4. CASE t = 1
    BY <1>1, <1>2, <1>5, <2>1, <2>2, <2>4 DEF Fd!Recv, A, B
  <2> QED
    BY <2>3, <2>4
<1>6. ASSUME NEW t \in Fd!Threads, Fd!Drop(t) PROVE FdInv'
  BY <1>1, <1>2, <1>6 DEF Fd!Drop, A, B
<1>7. CASE Fd!PingInterrupted
  BY <1>1, <1>2, <1>7 DEF Fd!PingInterrupted, A, B
<1>8. CASE UNCHANGED Fd!vars
  BY <1>2, <1>8 DEF Fd!vars, A, B
<1> QED
  BY <1>3, <1>4, <1>5, <1>6, <1>7, <1>8 DEF Fd!Next, Fd!Thread

-----------------------------------------------------------------------------
\* The semaphores

\* Nobody adds a ball or takes one away, and without leftovers there is one.
SemBalls ==
    /\ Sem!BallsKept
    /\ harm \in {"none", "disturbed"}
    /\ harm = "none" => Sem!Balls = 1

SemInv == Sem!TypeOK /\ SemBalls

\* make_sem_pair, on semaphores an earlier run may have left above zero.
LEMMA SemInit == Sem!Init => SemInv
<1> SUFFICES ASSUME Sem!Init PROVE SemInv
  OBVIOUS
<1> USE DEF Sem!Threads
<1>1. tpc[0] = "count" /\ tpc[1] = "wait"
  BY DEF Sem!Init
<1>2. Sem!TypeOK
  <2>1. count \in 0..(Wrap - 1)
    BY DEF Sem!Init
  <2>2. tpc \in [Sem!Threads -> {"count", "wait", "post"}]
    BY DEF Sem!Init
  <2>3. begun \in BOOLEAN
    BY DEF Sem!Init
  <2>4. sems \in [Sem!Threads -> Nat]
    <3>1. 0..MaxStale \subseteq Nat
      OBVIOUS
    <3>2. sems \in [Sem!Threads -> 0..MaxStale]
      BY DEF Sem!Init
    <3> QED
      BY <3>1, <3>2
  <2> QED
    BY <1>1, <2>1, <2>2, <2>3, <2>4 DEF Sem!TypeOK
<1>3. SemBalls
  <2>1. sems[0] \in 0..MaxStale /\ sems[1] \in 0..MaxStale
    BY DEF Sem!Init
  <2>2. Sem!Balls = sems[0] + sems[1] + 1
    BY <1>1, <2>1 DEF Sem!Init, Sem!Balls, Sem!Held
  <2>3. harm = "none" => sems[0] = 0 /\ sems[1] = 0
    BY <2>1 DEF Sem!Init
  <2>4. harm \in {"none", "disturbed"}
    BY DEF Sem!Init
  <2> QED
    BY <2>1, <2>2, <2>3, <2>4 DEF SemBalls, Sem!BallsKept
<1> QED
  BY <1>2, <1>3 DEF SemInv

\* A post follows the wait that took the ball, so the sum over the semaphores,
\* the two hands and the monitor's first post stays what it was.
LEMMA SemStep == SemInv /\ [Sem!Next]_(Sem!vars) => SemInv'
<1> SUFFICES ASSUME SemInv, [Sem!Next]_(Sem!vars) PROVE SemInv'
  OBVIOUS
<1> USE DEF SemInv, SemBalls, Sem!TypeOK, Sem!BallsKept, Sem!Balls, Sem!Held, Sem!Threads,
            Sem!Goto
<1>1. CASE Sem!Begin
  BY <1>1 DEF Sem!Begin
<1>2. CASE Sem!PingCount
  <2>1. (count + 1) % Wrap \in 0..(Wrap - 1)
    OBVIOUS
  <2> QED
    BY <1>2, <2>1 DEF Sem!PingCount, Sem!Counts
<1>3. ASSUME NEW t \in Sem!Threads, Sem!Wait(t) PROVE SemInv'
  BY <1>3 DEF Sem!Wait
<1>4. ASSUME NEW t \in Sem!Threads, Sem!Post(t) PROVE SemInv'
  BY <1>4 DEF Sem!Post
<1>5. CASE UNCHANGED Sem!vars
  BY <1>5 DEF Sem!vars
<1> QED
  BY <1>1, <1>2, <1>3, <1>4, <1>5 DEF Sem!Next, Sem!Thread

-----------------------------------------------------------------------------
\* The futex

\* The states of a game that nobody has stopped: whose turn it is, what the
\* word holds then, and how far the other thread may have come.
FutexPlay ==
    /\ harm \in {"none", "disturbed"}
    /\ harm = "none" <=> ~stop
    /\ ~stop =>
        \/ tpc[0] \in {"count", "store"} /\ tpc[1] = "wait" /\ word = 0
        \/ tpc[0] = "wake" /\ tpc[1] \in {"wait", "asleep"} /\ word = 1
        \/ tpc[0] = "wait" /\ tpc[1] \in {"woken", "store"} /\ word = 1
        \/ tpc[0] \in {"wait", "asleep"} /\ tpc[1] = "wake" /\ word = 0
        \/ tpc[0] = "woken" /\ tpc[1] = "wait" /\ word = 0

FutexInv == Futex!TypeOK /\ Futex!NoLostWakeup /\ FutexPlay

\* The word, the two places and the counter make_futex_pair starts with.
LEMMA FutexInit == Futex!Init => FutexInv
<1> SUFFICES ASSUME Futex!Init PROVE FutexInv
  OBVIOUS
<1> USE DEF Futex!Threads
<1>1. tpc[0] = "count" /\ tpc[1] = "wait"
  BY DEF Futex!Init
<1>2. Futex!TypeOK
  <2>1. 0 \in 0..(Wrap - 1)
    OBVIOUS
  <2>2. tpc \in [Futex!Threads -> {"count", "store", "wake", "wait", "asleep", "woken"}]
    BY DEF Futex!Init
  <2>3. word \in {0, 1} /\ stop \in BOOLEAN /\ count = 0
    BY DEF Futex!Init
  <2> QED
    BY <1>1, <2>1, <2>2, <2>3 DEF Futex!TypeOK
<1>3. Futex!NoLostWakeup
  BY <1>1 DEF Futex!NoLostWakeup
<1>4. FutexPlay
  BY <1>1 DEF Futex!Init, FutexPlay
<1> QED
  BY <1>2, <1>3, <1>4 DEF FutexInv

\* Each statement of the two loops, and stop_threads, keeps the invariant.
LEMMA FutexStep == FutexInv /\ [Futex!Next]_(Futex!vars) => FutexInv'
<1> SUFFICES ASSUME FutexInv, [Futex!Next]_(Futex!vars) PROVE FutexInv'
  OBVIOUS
<1> USE DEF FutexInv, Futex!TypeOK, Futex!NoLostWakeup, FutexPlay, Futex!Threads,
            Futex!Goto, Futex!Index, Futex!AfterSend, Futex!AfterRecv
<1>1. CASE Futex!Stop
  BY <1>1 DEF Futex!Stop
<1>2. CASE Futex!PingCount
  <2>1. (count + 1) % Wrap \in 0..(Wrap - 1)
    OBVIOUS
  <2> QED
    BY <1>2, <2>1 DEF Futex!PingCount, Futex!Counts
<1>3. ASSUME NEW t \in Futex!Threads, Futex!SendStore(t) PROVE FutexInv'
  BY <1>3 DEF Futex!SendStore
<1>4. ASSUME NEW t \in Futex!Threads, Futex!SendWake(t) PROVE FutexInv'
  BY <1>4 DEF Futex!SendWake
<1>5. ASSUME NEW t \in Futex!Threads, Futex!RecvWait(t) PROVE FutexInv'
  BY <1>5 DEF Futex!RecvWait
<1>6. ASSUME NEW t \in Futex!Threads, Futex!RecvWoken(t) PROVE FutexInv'
  BY <1>6 DEF Futex!RecvWoken
<1>7. CASE UNCHANGED Futex!vars
  BY <1>7 DEF Futex!vars
<1> QED
  BY <1>1, <1>2, <1>3, <1>4, <1>5, <1>6, <1>7 DEF Futex!Next, Futex!Thread

-----------------------------------------------------------------------------
\* The signals

\* No signal is under way to thread t and none is waiting in its flag.
Quiet(t) == pending[t] = 0 /\ ~received[t]

\* One signal is under way to thread t, or it has set the flag.
OneSignal(t) ==
    \/ pending[t] = 1 /\ ~received[t] /\ tpc[t] # "clear"
    \/ pending[t] = 0 /\ received[t]

\* A thread is ready once its handler is installed and plays once both are;
\* then the ball is with ping, signalled to pong, with pong, or signalled to
\* ping, and nothing else is signalled.
SignalPlay ==
    /\ harm = "none"
    /\ \A t \in Threads :
        /\ handler[t] <=> tpc[t] # "pre"
        /\ ready[t] <=> tpc[t] \notin {"pre", "ready"}
        /\ tpc[t] \notin {"pre", "ready", "start"} => ready[1 - t]
    /\ \/ /\ tpc[0] \in {"pre", "ready", "start", "count", "send"}
          /\ tpc[1] \in {"pre", "ready", "start", "look", "forever"}
          /\ Quiet(0) /\ Quiet(1)
       \/ /\ tpc[0] \in {"look", "forever"}
          /\ tpc[1] \in {"start", "look", "forever", "clear"}
          /\ Quiet(0) /\ OneSignal(1)
       \/ /\ tpc[0] \in {"look", "forever"} /\ tpc[1] = "send"
          /\ Quiet(0) /\ Quiet(1)
       \/ /\ tpc[0] \in {"look", "forever", "clear"} /\ tpc[1] \in {"look", "forever"}
          /\ OneSignal(0) /\ Quiet(1)

SignalInv == Signal!TypeOK /\ SignalPlay

\* make_signal_pair, before the threads install their handlers.
LEMMA SignalInit == Signal!Init => SignalInv
<1> SUFFICES ASSUME Signal!Init PROVE SignalInv
  OBVIOUS
<1> USE DEF Signal!Threads
<1>1. \A t \in Signal!Threads :
        /\ tpc[t] = "pre" /\ pending[t] = 0
        /\ ~handler[t] /\ ~received[t] /\ ~ready[t]
  BY DEF Signal!Init
<1>2. Signal!TypeOK
  <2>1. count \in 0..(Wrap - 1)
    BY DEF Signal!Init
  <2>2. /\ handler \in [Signal!Threads -> BOOLEAN]
        /\ received \in [Signal!Threads -> BOOLEAN]
        /\ ready \in [Signal!Threads -> BOOLEAN]
    BY DEF Signal!Init
  <2>3. /\ tpc \in [Signal!Threads -> {"pre"}]
        /\ pending \in [Signal!Threads -> 0..1]
    BY DEF Signal!Init
  <2> QED
    BY <2>1, <2>2, <2>3 DEF Signal!TypeOK
<1>3. SignalPlay
  BY <1>1 DEF Signal!Init, SignalPlay, Quiet
<1> QED
  BY <1>2, <1>3 DEF SignalInv

\* comm_pre, ready and start in this order, and then each statement of the
\* loops and each delivery, move one ball.
LEMMA SignalStep == SignalInv /\ [Signal!Next]_(Signal!vars) => SignalInv'
<1> SUFFICES ASSUME SignalInv, [Signal!Next]_(Signal!vars) PROVE SignalInv'
  OBVIOUS
<1> USE DEF SignalInv, SignalPlay, Signal!TypeOK, Quiet, OneSignal, Signal!Threads,
            Signal!Moves
<1>1. CASE Signal!PingCount
  <2>1. (count + 1) % Wrap \in 0..(Wrap - 1)
    OBVIOUS
  <2> QED
    BY <1>1, <2>1 DEF Signal!PingCount, Signal!Counts, Signal!Goto
<1>2. ASSUME NEW t \in Signal!Threads, Signal!Pre(t) PROVE SignalInv'
  BY <1>2 DEF Signal!Pre
<1>3. ASSUME NEW t \in Signal!Threads, Signal!Ready(t) PROVE SignalInv'
  BY <1>3 DEF Signal!Ready
<1>4. ASSUME NEW t \in Signal!Threads, Signal!Start(t) PROVE SignalInv'
  BY <1>4 DEF Signal!Start
<1>5. ASSUME NEW t \in Signal!Threads, Signal!Send(t) PROVE SignalInv'
  BY <1>5 DEF Signal!Send
<1>6. ASSUME NEW t \in Signal!Threads, Signal!Look(t) PROVE SignalInv'
  BY <1>6 DEF Signal!Look
<1>7. ASSUME NEW t \in Signal!Threads, Signal!Clear(t) PROVE SignalInv'
  BY <1>7 DEF Signal!Clear
<1>8. ASSUME NEW t \in Signal!Threads, Signal!Catch(t) PROVE SignalInv'
  <2>1. handler[t] /\ OneSignal(t) /\ pending[t] = 1 /\ Quiet(1 - t)
    BY <1>8 DEF Signal!Catch
  <2>2. /\ pending' = [pending EXCEPT ![t] = 0]
        /\ received' = [received EXCEPT ![t] = TRUE]
        /\ UNCHANGED <<tpc, handler, ready, count, harm>>
    BY <1>8, <2>1 DEF Signal!Catch
  <2>3. Signal!TypeOK'
    BY <2>2
  <2>4. OneSignal(t)' /\ Quiet(1 - t)'
    BY <2>1, <2>2
  <2>5. SignalPlay'
    BY <2>1, <2>2, <2>4
  <2> QED
    BY <2>3, <2>5
<1>9. CASE UNCHANGED Signal!vars
  BY <1>9 DEF Signal!vars
<1> QED
  BY <1>1, <1>2, <1>3, <1>4, <1>5, <1>6, <1>7, <1>8, <1>9 DEF Signal!Next, Signal!Thread

-----------------------------------------------------------------------------
\* The shared word of spin and yield

\* What thread t reads, as a function of its store buffer and the memory.
OwnOf(s, var) == {i \in 1..Len(s) : s[i][1] = var}
ViewOf(s, m, var) ==
    IF OwnOf(s, var) = {} THEN m[var]
    ELSE s[CHOOSE i \in OwnOf(s, var) : \A j \in OwnOf(s, var) : j <= i][2]

\* The contents ping's store buffer can have, v being the count, and the one
\* store of pong.
CountStore(v) == <<"count", v>>
Serve == <<"flag", 1>>
Return == <<"flag", 0>>

\* What Flush takes out of such a buffer and Store puts into it.
LEMMA BufferOps ==
    ASSUME NEW a, NEW b
    PROVE  /\ Head(<<a>>) = a /\ Tail(<<a>>) = <<>>
           /\ Head(<<a, b>>) = a /\ Tail(<<a, b>>) = <<b>>
           /\ Append(<<>>, a) = <<a>> /\ Append(<<a>>, b) = <<a, b>>
           /\ Len(<<>>) = 0 /\ Len(<<a>>) = 1 /\ Len(<<a, b>>) = 2
<1>1. /\ Head(<<a>>) = a /\ Tail(<<a>>) = <<>>
      /\ Head(<<a, b>>) = a /\ Tail(<<a, b>>) = <<b>>
      /\ Append(<<>>, a) = <<a>>
      /\ Len(<<>>) = 0 /\ Len(<<a>>) = 1 /\ Len(<<a, b>>) = 2
  OBVIOUS
<1>2. Append(<<a>>, b) = <<a, b>>
  <2> DEFINE S == {a, b}
  <2>1. <<a>> \in Seq(S) /\ <<a, b>> \in Seq(S) /\ b \in S
    OBVIOUS
  <2>2. <<a>>[1] = a /\ <<a, b>>[1] = a /\ <<a, b>>[2] = b
    OBVIOUS
  <2> HIDE DEF S
  <2>3. /\ Append(<<a>>, b) \in Seq(S) /\ Len(Append(<<a>>, b)) = 2
        /\ Append(<<a>>, b)[1] = a /\ Append(<<a>>, b)[2] = b
    BY <1>1, <2>1, <2>2, AppendProperties
  <2>4. \A i \in 1..2 : Append(<<a>>, b)[i] = <<a, b>>[i]
    BY <2>2, <2>3
  <2> QED
    BY <1>1, <2>1, <2>3, <2>4, SeqEqual
<1> QED
  BY <1>1, <1>2

\* The components of the stores.
LEMMA StoreParts ==
    ASSUME NEW v
    PROVE  /\ Serve[1] = "flag" /\ Serve[2] = 1 /\ Return[1] = "flag" /\ Return[2] = 0
           /\ CountStore(v)[1] = "count" /\ CountStore(v)[2] = v
  BY DEF Serve, Return, CountStore

\* An empty store buffer shows the memory.
LEMMA ViewEmpty ==
    ASSUME NEW m, NEW var
    PROVE  OwnOf(<<>>, var) = {} /\ ViewOf(<<>>, m, var) = m[var]
  BY DEF OwnOf, ViewOf

\* A single store shows its value, and the memory for the other variable.
LEMMA ViewOne ==
    ASSUME NEW m, NEW var, NEW x, NEW v
    PROVE  /\ OwnOf(<<<<x, v>>>>, var) = IF x = var THEN {1} ELSE {}
           /\ ViewOf(<<<<x, v>>>>, m, var) = IF x = var THEN v ELSE m[var]
<1>1. OwnOf(<<<<x, v>>>>, var) = IF x = var THEN {1} ELSE {}
  BY DEF OwnOf
<1>2. (CHOOSE i \in {1} : \A j \in {1} : j <= i) = 1
  OBVIOUS
<1> QED
  BY <1>1, <1>2 DEF ViewOf

\* A buffered increment shows the new count.
LEMMA ViewCount ==
    ASSUME NEW m, NEW v
    PROVE  LET s == <<CountStore(v)>> IN
           /\ OwnOf(s, "count") = {1} /\ OwnOf(s, "flag") = {}
           /\ ViewOf(s, m, "count") = v /\ ViewOf(s, m, "flag") = m["flag"]
<1> DEFINE s == <<CountStore(v)>>
<1>1. OwnOf(s, "count") = {1} /\ OwnOf(s, "flag") = {}
  BY DEF OwnOf, CountStore
<1>2. (CHOOSE i \in {1} : \A j \in {1} : j <= i) = 1
  OBVIOUS
<1>3. s[1][2] = v
  BY DEF CountStore
<1> HIDE DEF s
<1>4. ViewOf(s, m, "count") = s[1][2] /\ ViewOf(s, m, "flag") = m["flag"]
  BY <1>1, <1>2 DEF ViewOf
<1> QED
  BY <1>1, <1>3, <1>4 DEF s

\* The two stores of a serve show both variables.
LEMMA ViewTwo ==
    ASSUME NEW m, NEW v
    PROVE  LET s == <<CountStore(v), Serve>> IN
           /\ OwnOf(s, "count") = {1} /\ OwnOf(s, "flag") = {2}
           /\ ViewOf(s, m, "count") = v /\ ViewOf(s, m, "flag") = 1
<1> DEFINE s == <<CountStore(v), Serve>>
<1>1. OwnOf(s, "count") = {1} /\ OwnOf(s, "flag") = {2}
  BY DEF OwnOf, CountStore, Serve
<1>2. /\ (CHOOSE i \in {1} : \A j \in {1} : j <= i) = 1
      /\ (CHOOSE i \in {2} : \A j \in {2} : j <= i) = 2
  OBVIOUS
<1>3. s[1] = CountStore(v) /\ s[2] = Serve
  OBVIOUS
<1> HIDE DEF s
<1>4. ViewOf(s, m, "count") = s[1][2] /\ ViewOf(s, m, "flag") = s[2][2]
  BY <1>1, <1>2 DEF ViewOf
<1>5. ViewOf(s, m, "count") = v /\ ViewOf(s, m, "flag") = 1
  BY <1>3, <1>4 DEF CountStore, Serve
<1> QED
  BY <1>1, <1>5 DEF s

\* What FlagComm's View shows of each content of a buffer, before a step and
\* after it.
LEMMA ViewIs ==
    ASSUME NEW t, NEW var
    PROVE  /\ Flag!Own(t, var) = OwnOf(sb[t], var)
           /\ Flag!View(t, var) = ViewOf(sb[t], mem, var)
           /\ Flag!Own(t, var)' = OwnOf(sb'[t], var)
           /\ Flag!View(t, var)' = ViewOf(sb'[t], mem', var)
  BY DEF Flag!Own, Flag!View, OwnOf, ViewOf

\* What a buffer without a store of ping_count shows, in one place.
LEMMA BufferShows ==
    ASSUME NEW m
    PROVE  /\ ViewOf(<<>>, m, "count") = m.count /\ ViewOf(<<>>, m, "flag") = m.flag
           /\ OwnOf(<<>>, "count") = {} /\ OwnOf(<<>>, "flag") = {}
           /\ ViewOf(<<Serve>>, m, "count") = m.count /\ ViewOf(<<Serve>>, m, "flag") = 1
           /\ OwnOf(<<Serve>>, "count") = {} /\ OwnOf(<<Serve>>, "flag") # {}
           /\ ViewOf(<<Return>>, m, "flag") = 0
<1>1. m["count"] = m.count /\ m["flag"] = m.flag
  OBVIOUS
<1>2. /\ ViewOf(<<>>, m, "count") = m.count /\ ViewOf(<<>>, m, "flag") = m.flag
      /\ OwnOf(<<>>, "count") = {} /\ OwnOf(<<>>, "flag") = {}
  BY <1>1, ViewEmpty
<1>3. /\ ViewOf(<<Serve>>, m, "count") = m.count /\ ViewOf(<<Serve>>, m, "flag") = 1
      /\ OwnOf(<<Serve>>, "count") = {} /\ OwnOf(<<Serve>>, "flag") # {}
      /\ ViewOf(<<Return>>, m, "flag") = 0
  BY <1>1, ViewOne DEF Serve, Return
<1> QED
  BY <1>2, <1>3

\* Six phases of a round trip: what the two CPUs have buffered in each and
\* what memory shows.  A store of one thread is in memory before the other
\* thread answers it, so at most one serve is ever buffered.
Waits(t) == tpc[t] \in {"sync", "spin"}
PingHasIt == tpc[0] = "count" /\ Waits(1) /\ sb[0] = <<>> /\ sb[1] = <<>> /\ mem.flag = 0
Counted ==
    /\ tpc[0] = "put" /\ Waits(1) /\ sb[1] = <<>> /\ mem.flag = 0
    /\ sb[0] = <<>> \/ \E v \in 0..(Wrap - 1) : sb[0] = <<CountStore(v)>>
ServeBuffered ==
    /\ Waits(0) /\ Waits(1) /\ sb[1] = <<>> /\ mem.flag = 0
    /\ sb[0] = <<Serve>> \/ \E v \in 0..(Wrap - 1) : sb[0] = <<CountStore(v), Serve>>
ServeSeen ==
    Waits(0) /\ (Waits(1) \/ tpc[1] = "put") /\ sb[0] = <<>> /\ sb[1] = <<>> /\ mem.flag = 1
ReturnBuffered == Waits(0) /\ Waits(1) /\ sb[0] = <<>> /\ sb[1] = <<Return>> /\ mem.flag = 1
ReturnSeen == Waits(0) /\ Waits(1) /\ sb[0] = <<>> /\ sb[1] = <<>> /\ mem.flag = 0

FlagPlay ==
    /\ harm = "none"
    /\ \/ PingHasIt \/ Counted \/ ServeBuffered
       \/ ServeSeen \/ ReturnBuffered \/ ReturnSeen

FlagInv == Flag!TypeOK /\ FlagPlay

\* make_spin_pair and make_yield_pair, whatever the two sync methods are.
LEMMA FlagInit == Flag!Init => FlagInv
<1> SUFFICES ASSUME Flag!Init PROVE FlagInv
  OBVIOUS
<1> USE DEF Flag!Threads
<1>1. /\ tpc[0] = "count" /\ tpc[1] = "spin" /\ sb[0] = <<>> /\ sb[1] = <<>>
      /\ mem.flag = 0
  BY DEF Flag!Init
<1>2. Flag!TypeOK
  <2>1. mem \in [flag : {0, 1}, count : 0..(Wrap - 1)]
    BY DEF Flag!Init
  <2>2. tpc \in [Flag!Threads -> {"count", "put", "sync", "spin"}]
    BY DEF Flag!Init
  <2>3. sb \in [Flag!Threads -> Seq({"flag"} \X {0, 1} \cup {"count"} \X (0..(Wrap - 1)))]
    BY DEF Flag!Init
  <2>4. \A t \in Flag!Threads : Len(sb[t]) <= 2 - t
    BY <1>1
  <2>5. fence \in [Flag!Threads -> BOOLEAN]
    BY DEF Flag!Init
  <2> QED
    BY <1>1, <2>1, <2>2, <2>3, <2>4, <2>5 DEF Flag!TypeOK
<1>3. FlagPlay
  BY <1>1 DEF Flag!Init, FlagPlay, PingHasIt, Waits
<1> QED
  BY <1>2, <1>3 DEF FlagInv

\* The view ping has of ping_count is a count.
LEMMA FlagCountView == FlagInv => Flag!View(0, "count") \in 0..(Wrap - 1)
<1> SUFFICES ASSUME FlagInv PROVE Flag!View(0, "count") \in 0..(Wrap - 1)
  OBVIOUS
<1>1. mem.count \in 0..(Wrap - 1)
  BY DEF FlagInv, Flag!TypeOK
<1>2. Flag!View(0, "count") = ViewOf(sb[0], mem, "count")
  BY ViewIs
<1>3. \/ sb[0] = <<>> \/ sb[0] = <<Serve>>
      \/ \E v \in 0..(Wrap - 1) : sb[0] = <<CountStore(v)>> \/ sb[0] = <<CountStore(v), Serve>>
  BY DEF FlagInv, FlagPlay, PingHasIt, Counted, ServeBuffered, ServeSeen, ReturnBuffered,
     ReturnSeen
<1>4. CASE sb[0] = <<>> \/ sb[0] = <<Serve>>
  BY <1>1, <1>2, <1>4, BufferShows
<1>5. ASSUME NEW v \in 0..(Wrap - 1), sb[0] = <<CountStore(v)>>
      PROVE  Flag!View(0, "count") \in 0..(Wrap - 1)
  BY <1>2, <1>5, ViewCount, Zenon
<1>6. ASSUME NEW v \in 0..(Wrap - 1), sb[0] = <<CountStore(v), Serve>>
      PROVE  Flag!View(0, "count") \in 0..(Wrap - 1)
  BY <1>2, <1>6, ViewTwo, Zenon
<1> QED
  BY <1>3, <1>4, <1>5, <1>6

\* ping does not see its own serve as the return.
LEMMA ServeIsNotReturn ==
    ASSUME ServeBuffered
    PROVE  Flag!View(0, "flag") = 1
<1>1. Flag!View(0, "flag") = ViewOf(sb[0], mem, "flag")
  BY ViewIs
<1>2. sb[0] = <<Serve>> => Flag!View(0, "flag") = 1
  BY <1>1, BufferShows
<1>3. ASSUME NEW v, sb[0] = <<CountStore(v), Serve>> PROVE Flag!View(0, "flag") = 1
  <2>1. ViewOf(<<CountStore(v), Serve>>, mem, "flag") = 1
    BY ViewTwo
  <2> QED
    BY <1>1, <1>3, <2>1, Zenon
<1> QED
  BY <1>2, <1>3 DEF ServeBuffered

\* The oldest store of a serve is the count.
LEMMA CountFirst ==
    ASSUME NEW v, NEW rest \in {<<>>, <<Serve>>}, Flag!Flush(0),
           sb[0] = <<CountStore(v)>> \/ sb[0] = <<CountStore(v), Serve>>,
           rest = IF sb[0] = <<CountStore(v)>> THEN <<>> ELSE <<Serve>>
    PROVE  mem' = [mem EXCEPT !.count = v] /\ sb' = [sb EXCEPT ![0] = rest]
<1>1. Head(sb[0]) = CountStore(v) /\ Tail(sb[0]) = rest
  BY BufferOps, Zenon
<1>2. CountStore(v)[1] = "count" /\ CountStore(v)[2] = v
  BY StoreParts
<1> QED
  BY <1>1, <1>2 DEF Flag!Flush

\* ping's view of ping_count in terms of its buffer, before and after a step.
LEMMA PingView ==
    /\ sb[0] = <<>> \/ sb[0] = <<Serve>> => Flag!View(0, "count") = mem.count
    /\ \A v : sb[0] = <<CountStore(v)>> \/ sb[0] = <<CountStore(v), Serve>>
             => Flag!View(0, "count") = v
<1>1. Flag!View(0, "count") = ViewOf(sb[0], mem, "count")
  BY ViewIs
<1>2. sb[0] = <<>> \/ sb[0] = <<Serve>> => Flag!View(0, "count") = mem.count
  BY <1>1, BufferShows
<1>3. ASSUME NEW v, sb[0] = <<CountStore(v)>> PROVE Flag!View(0, "count") = v
  BY <1>1, <1>3, ViewCount, Zenon
<1>4. ASSUME NEW v, sb[0] = <<CountStore(v), Serve>> PROVE Flag!View(0, "count") = v
  BY <1>1, <1>4, ViewTwo, Zenon
<1> QED
  BY <1>2, <1>3, <1>4, Zenon

\* The same after a step.
LEMMA PingViewNext ==
    /\ sb'[0] = <<>> \/ sb'[0] = <<Serve>> => Flag!View(0, "count")' = mem'.count
    /\ \A v : sb'[0] = <<CountStore(v)>> \/ sb'[0] = <<CountStore(v), Serve>>
             => Flag!View(0, "count")' = v
<1>1. Flag!View(0, "count")' = ViewOf(sb'[0], mem', "count")
  BY ViewIs
<1>2. sb'[0] = <<>> \/ sb'[0] = <<Serve>> => Flag!View(0, "count")' = mem'.count
  BY <1>1, BufferShows
<1>3. ASSUME NEW v, sb'[0] = <<CountStore(v)>> PROVE Flag!View(0, "count")' = v
  BY <1>1, <1>3, ViewCount, Zenon
<1>4. ASSUME NEW v, sb'[0] = <<CountStore(v), Serve>> PROVE Flag!View(0, "count")' = v
  BY <1>1, <1>4, ViewTwo, Zenon
<1> QED
  BY <1>2, <1>3, <1>4, Zenon

\* It stays the same while neither ping's buffer nor the count changes.
LEMMA PingViewKept ==
    ASSUME sb'[0] = sb[0], mem' = mem \/ (sb[0] = <<>> /\ mem'.count = mem.count)
    PROVE  Flag!View(0, "count")' = Flag!View(0, "count")
<1>1. /\ Flag!View(0, "count") = ViewOf(sb[0], mem, "count")
      /\ Flag!View(0, "count")' = ViewOf(sb'[0], mem', "count")
  BY ViewIs
<1>2. CASE mem' = mem
  BY <1>1, <1>2, Zenon
<1>3. CASE sb[0] = <<>> /\ mem'.count = mem.count
  BY <1>3, PingView, PingViewNext
<1> QED
  BY <1>2, <1>3

\* How a step takes the round trip on, and that only ping's increment changes
\* its view of the count.
FlagMove ==
    \/ /\ PingHasIt /\ Counted'
       /\ Flag!View(0, "count")' = (Flag!View(0, "count") + 1) % Wrap
    \/ /\ Flag!View(0, "count")' = Flag!View(0, "count")
       /\ \/ PingHasIt /\ PingHasIt'
          \/ Counted /\ (Counted' \/ ServeBuffered')
          \/ ServeBuffered /\ (ServeBuffered' \/ (ServeSeen' /\ Waits(1)'))
          \/ ServeSeen /\ Waits(1) /\ ServeSeen'
          \/ ServeSeen /\ tpc[1] = "put" /\ ServeSeen' /\ tpc'[1] = "put"
          \/ ServeSeen /\ tpc[1] = "put" /\ ReturnBuffered'
          \/ ReturnBuffered /\ (ReturnBuffered' \/ ReturnSeen')
          \/ ReturnSeen /\ (ReturnSeen' \/ PingHasIt')

\* Each statement of the loops and each store that reaches memory goes on to
\* the next phase or stays in this one.
LEMMA FlagStep == FlagInv /\ [Flag!Next]_(Flag!vars) => FlagInv' /\ FlagMove
<1> SUFFICES ASSUME FlagInv, [Flag!Next]_(Flag!vars) PROVE FlagInv' /\ FlagMove
  OBVIOUS
<1> DEFINE Stores == {"flag"} \X {0, 1} \cup {"count"} \X (0..(Wrap - 1))
<1> USE DEF FlagInv, FlagPlay, Flag!TypeOK, Flag!Threads, Flag!Goto, Waits
<1>1. CASE Flag!PingCount
  <2>1. PingHasIt
    BY <1>1 DEF Flag!PingCount, Counted, ServeBuffered, ServeSeen, ReturnBuffered, ReturnSeen
  <2> DEFINE v == (Flag!View(0, "count") + 1) % Wrap
  <2>2. v \in 0..(Wrap - 1)
    BY FlagCountView
  <2> HIDE DEF v
  <2>3. sb' = [sb EXCEPT ![0] = <<CountStore(v)>>]
    BY <1>1, <2>1 DEF Flag!PingCount, Flag!Store, PingHasIt, CountStore, v
  <2>4. <<CountStore(v)>> \in Seq(Stores) /\ Len(<<CountStore(v)>>) = 1
    BY <2>2 DEF CountStore
  <2>5. Flag!TypeOK'
    BY <1>1, <2>1, <2>3, <2>4 DEF Flag!PingCount, PingHasIt
  <2>6. Counted'
    BY <1>1, <2>1, <2>2, <2>3 DEF Flag!PingCount, PingHasIt, Counted
  <2>7. Flag!View(0, "count")' = v
    <3>1. sb'[0] = <<CountStore(v)>>
      BY <2>3
    <3> QED
      BY <3>1, PingViewNext, Zenon
  <2> QED
    BY <1>1, <2>1, <2>5, <2>6, <2>7 DEF Flag!PingCount, FlagMove, v
<1>2. CASE Flag!Put(0)
  <2>1. Counted
    BY <1>2 DEF Flag!Put, PingHasIt, ServeBuffered, ServeSeen, ReturnBuffered, ReturnSeen
  <2>2. sb' = [sb EXCEPT ![0] = Append(sb[0], Serve)]
    BY <1>2 DEF Flag!Put, Flag!Store, Serve
  <2>3. /\ \/ sb'[0] = <<Serve>>
           \/ \E v \in 0..(Wrap - 1) : sb'[0] = <<CountStore(v), Serve>>
        /\ Flag!View(0, "count")' = Flag!View(0, "count")
    <3>1. sb'[0] = Append(sb[0], Serve)
      BY <2>2
    <3>2. CASE sb[0] = <<>>
      <4>1. sb'[0] = <<Serve>> /\ mem' = mem
        BY <1>2, <3>1, <3>2, BufferOps, Zenon DEF Flag!Put
      <4> QED
        BY <3>2, <4>1, PingView, PingViewNext, Zenon
    <3>3. ASSUME NEW v \in 0..(Wrap - 1), sb[0] = <<CountStore(v)>>
          PROVE  /\ sb'[0] = <<CountStore(v), Serve>>
                 /\ Flag!View(0, "count")' = Flag!View(0, "count")
      <4>1. sb'[0] = <<CountStore(v), Serve>>
        BY <3>1, <3>3, BufferOps, Zenon
      <4> QED
        BY <3>3, <4>1, PingView, PingViewNext, Zenon
    <3> QED
      BY <2>1, <3>2, <3>3, Zenon DEF Counted
  <2>4. sb'[0] \in Seq(Stores) /\ Len(sb'[0]) <= 2
    <3>1. <<Serve>> \in Seq(Stores) /\ Len(<<Serve>>) <= 2
      BY DEF Serve
    <3>2. ASSUME NEW v \in 0..(Wrap - 1)
          PROVE  <<CountStore(v), Serve>> \in Seq(Stores) /\ Len(<<CountStore(v), Serve>>) <= 2
      BY DEF CountStore, Serve
    <3> QED
      BY <2>3, <3>1, <3>2, Zenon
  <2>5. Flag!TypeOK'
    BY <1>2, <2>2, <2>4 DEF Flag!Put
  <2>6. ServeBuffered'
    BY <1>2, <2>1, <2>2, <2>3 DEF Flag!Put, Counted, ServeBuffered
  <2> QED
    BY <1>2, <2>1, <2>3, <2>5, <2>6 DEF Flag!Put, FlagMove
<1>3. CASE Flag!Put(1)
  <2>1. ServeSeen
    BY <1>3 DEF Flag!Put, PingHasIt, Counted, ServeBuffered, ReturnBuffered, ReturnSeen
  <2>2. sb' = [sb EXCEPT ![1] = <<Return>>]
    BY <1>3, <2>1 DEF Flag!Put, Flag!Store, Return, ServeSeen
  <2>3. <<Return>> \in Seq(Stores) /\ Len(<<Return>>) = 1
    BY DEF Return
  <2>4. Flag!TypeOK'
    BY <1>3, <2>2, <2>3 DEF Flag!Put
  <2>5. ReturnBuffered'
    BY <1>3, <2>1, <2>2 DEF Flag!Put, ServeSeen, ReturnBuffered
  <2>6. Flag!View(0, "count")' = Flag!View(0, "count")
    BY <1>3, <2>2, PingViewKept DEF Flag!Put
  <2> QED
    BY <1>3, <2>1, <2>4, <2>5, <2>6 DEF Flag!Put, FlagMove
<1>4. ASSUME NEW t \in Flag!Threads, Flag!Sync(t) PROVE FlagInv' /\ FlagMove
  <2>1. Flag!View(0, "count")' = Flag!View(0, "count")
    BY <1>4, PingViewKept DEF Flag!Sync
  <2> QED
    BY <1>4, <2>1 DEF Flag!Sync, FlagMove, PingHasIt, Counted, ServeBuffered, ServeSeen,
                      ReturnBuffered, ReturnSeen
<1>5. CASE Flag!Spin(0)
  <2>1. Flag!View(0, "flag") = 0 /\ tpc[0] = "spin"
    BY <1>5 DEF Flag!Spin
  <2>2. ~ServeBuffered
    BY <2>1, ServeIsNotReturn
  <2>3. ~ServeSeen /\ ~ReturnBuffered
    <3>1. Flag!View(0, "flag") = ViewOf(sb[0], mem, "flag")
      BY ViewIs
    <3> QED
      BY <2>1, <3>1, BufferShows DEF ServeSeen, ReturnBuffered
  <2>4. ReturnSeen
    BY <2>1, <2>2, <2>3 DEF PingHasIt, Counted
  <2>5. PingHasIt'
    BY <1>5, <2>4 DEF Flag!Spin, ReturnSeen, PingHasIt
  <2>6. Flag!View(0, "count")' = Flag!View(0, "count")
    BY <1>5, PingViewKept DEF Flag!Spin
  <2> QED
    BY <1>5, <2>4, <2>5, <2>6 DEF Flag!Spin, FlagMove
<1>6. CASE Flag!Spin(1)
  <2>1. Flag!View(1, "flag") = 1 /\ tpc[1] = "spin"
    BY <1>6 DEF Flag!Spin
  <2>2. Flag!View(1, "flag") = ViewOf(sb[1], mem, "flag")
    BY ViewIs
  <2>3. /\ ~PingHasIt /\ ~Counted /\ ~ServeBuffered /\ ~ReturnSeen
        /\ ~ReturnBuffered
    BY <2>1, <2>2, BufferShows DEF PingHasIt, Counted, ServeBuffered, ReturnSeen, ReturnBuffered
  <2>4. ServeSeen /\ ServeSeen'
    BY <1>6, <2>2, <2>3 DEF Flag!Spin, ServeSeen
  <2>5. Flag!View(0, "count")' = Flag!View(0, "count")
    BY <1>6, PingViewKept DEF Flag!Spin
  <2> QED
    BY <1>6, <2>1, <2>4, <2>5 DEF Flag!Spin, FlagMove
<1>7. CASE Flag!Flush(0)
  <2>1. sb[0] # <<>> /\ UNCHANGED <<fence, tpc, count, harm>>
    BY <1>7 DEF Flag!Flush
  <2>2. CASE Counted
    <3> PICK v \in 0..(Wrap - 1) : sb[0] = <<CountStore(v)>>
      BY <2>1, <2>2 DEF Counted
    <3>1. mem' = [mem EXCEPT !.count = v] /\ sb' = [sb EXCEPT ![0] = <<>>]
      BY <1>7, CountFirst
    <3>2. Counted' /\ Flag!TypeOK'
      BY <2>1, <2>2, <3>1 DEF Counted
    <3>3. sb'[0] = <<>> /\ mem'.count = v
      BY <3>1
    <3>4. Flag!View(0, "count")' = Flag!View(0, "count")
      BY <3>3, PingView, PingViewNext, Zenon
    <3> QED
      BY <2>1, <2>2, <3>2, <3>4 DEF FlagMove
  <2>3. CASE ServeBuffered /\ sb[0] = <<Serve>>
    <3>1. mem' = [mem EXCEPT !.flag = 1] /\ sb' = [sb EXCEPT ![0] = <<>>]
      BY <1>7, <2>3, BufferOps, StoreParts DEF Flag!Flush
    <3>2. ServeSeen' /\ Flag!TypeOK'
      BY <2>1, <2>3, <3>1 DEF ServeBuffered, ServeSeen
    <3>3. sb'[0] = <<>> /\ mem'.count = mem.count
      BY <3>1
    <3>4. Flag!View(0, "count")' = Flag!View(0, "count")
      BY <2>3, <3>3, PingView, PingViewNext, Zenon
    <3>5. Waits(1)'
      BY <2>1, <2>3 DEF ServeBuffered
    <3> QED
      BY <2>1, <2>3, <3>2, <3>4, <3>5 DEF FlagMove
  <2>4. ASSUME NEW v \in 0..(Wrap - 1), ServeBuffered, sb[0] = <<CountStore(v), Serve>>
        PROVE  FlagInv' /\ FlagMove
    <3>1. mem' = [mem EXCEPT !.count = v] /\ sb' = [sb EXCEPT ![0] = <<Serve>>]
      BY <1>7, <2>4, CountFirst
    <3>2. <<Serve>> \in Seq(Stores) /\ Len(<<Serve>>) = 1
      BY DEF Serve
    <3>3. ServeBuffered' /\ Flag!TypeOK'
      BY <2>1, <2>4, <3>1, <3>2 DEF ServeBuffered
    <3>4. sb'[0] = <<Serve>> /\ mem'.count = v
      BY <3>1
    <3>5. Flag!View(0, "count")' = Flag!View(0, "count")
      BY <2>4, <3>4, PingView, PingViewNext, Zenon
    <3>6. FlagMove
      BY <2>4, <3>3, <3>5, Zenon DEF FlagMove
    <3> QED
      BY <2>1, <3>3, <3>6, Zenon
  <2> QED
    BY <2>1, <2>2, <2>3, <2>4 DEF PingHasIt, ServeBuffered, ServeSeen, ReturnBuffered, ReturnSeen
<1>8. CASE Flag!Flush(1)
  <2>1. sb[1] # <<>> /\ UNCHANGED <<fence, tpc, count, harm>>
    BY <1>8 DEF Flag!Flush
  <2>2. ReturnBuffered
    BY <2>1 DEF PingHasIt, Counted, ServeBuffered, ServeSeen, ReturnSeen
  <2>3. mem' = [mem EXCEPT !.flag = 0] /\ sb' = [sb EXCEPT ![1] = <<>>]
    BY <1>8, <2>2, BufferOps, StoreParts DEF Flag!Flush, ReturnBuffered
  <2>4. ReturnSeen' /\ Flag!TypeOK'
    BY <2>1, <2>2, <2>3 DEF ReturnBuffered, ReturnSeen
  <2>5. Flag!View(0, "count")' = Flag!View(0, "count")
    BY <2>2, <2>3, PingViewKept DEF ReturnBuffered
  <2> QED
    BY <2>1, <2>2, <2>4, <2>5 DEF FlagMove
<1>9. CASE UNCHANGED Flag!vars
  <2>1. Flag!View(0, "count")' = Flag!View(0, "count")
    BY <1>9, PingViewKept DEF Flag!vars
  <2> QED
    BY <1>9, <2>1 DEF Flag!vars, FlagMove, PingHasIt, Counted, ServeBuffered, ServeSeen, ReturnBuffered, ReturnSeen
<1> QED
  BY <1>1, <1>2, <1>3, <1>4, <1>5, <1>6, <1>7, <1>8, <1>9 DEF Flag!Next, Flag!Thread

-----------------------------------------------------------------------------
\* The modes together

CommInv ==
    /\ mode \in {"fd", "sem", "futex", "flag", "signal"}
    /\ mode = "fd" => FdInv
    /\ mode = "sem" => SemInv
    /\ mode = "futex" => FutexInv
    /\ mode = "flag" => FlagInv
    /\ mode = "signal" => SignalInv

\* do_comm_setup and make_pairs leave one mode in its initial state.
LEMMA CommInit == Init => CommInv
  BY FdInit, SemInit, FutexInit, FlagInit, SignalInit DEF Init, CommInv

\* A run stays with its mode, and what it does is what that mode does.
LEMMA ModeStep ==
    ASSUME [Next]_vars
    PROVE  /\ mode' = mode
           /\ mode = "fd" => [Fd!Next]_(Fd!vars)
           /\ mode = "sem" => [Sem!Next]_(Sem!vars)
           /\ mode = "futex" => [Futex!Next]_(Futex!vars)
           /\ mode = "flag" => [Flag!Next]_(Flag!vars)
           /\ mode = "signal" => [Signal!Next]_(Signal!vars)
<1> USE DEF InFd, InSem, InFutex, InFlag, InSignal, Fd!Threads, Sem!Threads, Futex!Threads,
            Flag!Threads, Signal!Threads
<1>1. CASE Begin
  BY <1>1 DEF Begin, Sem!Next
<1>2. CASE Disturb
  BY <1>2 DEF Disturb, Fd!Next, Futex!Next
<1>3. CASE UNCHANGED vars
  BY <1>3 DEF vars, fdVars, semVars, futexVars, flagVars, signalVars,
              Fd!vars, Sem!vars, Futex!vars, Flag!vars, Signal!vars
<1>4. ASSUME NEW t \in Threads, Thread(t)
      PROVE  /\ mode' = mode
             /\ mode = "fd" => Fd!Next
             /\ mode = "sem" => Sem!Next
             /\ mode = "futex" => Futex!Next
             /\ mode = "flag" => Flag!Next
             /\ mode = "signal" => Signal!Next
  BY <1>4 DEF Thread, Fd!Next, Sem!Next, Futex!Next, Flag!Next, Signal!Next
<1>5. ASSUME NEW t \in Threads, Carry(t)
      PROVE  /\ mode' = mode /\ mode \in {"flag", "signal"}
             /\ mode = "flag" => Flag!Next
             /\ mode = "signal" => Signal!Next
  BY <1>5 DEF Carry, Flag!Next, Signal!Next
<1> QED
  BY <1>1, <1>2, <1>3, <1>4, <1>5 DEF Next, Lost

\* So each mode's invariant is one of the run.
LEMMA CommStep == CommInv /\ [Next]_vars => CommInv'
  BY ModeStep, FdStep, SemStep, FutexStep, FlagStep, SignalStep DEF CommInv

\* In every reachable state the mode that is run has its ball where its
\* invariant says.
THEOREM CommInvariant == Spec => []CommInv
  BY CommInit, CommStep, PTL DEF Spec

\* ping_count, the buffers, the semaphores, the store buffers and the pending
\* signals stay within what the modes' invariants allow, and no thread is ever
\* killed by its partner's signal.
THEOREM CommTypeOK == Spec => []TypeOK
<1>1. CommInv => TypeOK
  BY DEF CommInv, TypeOK, FdInv, SemInv, FutexInv, FlagInv, SignalInv
<1> QED
  BY <1>1, CommInvariant, PTL

\* No send of a descriptor transport ever finds the other side's buffer full,
\* unless a killed run left messages in it.
THEOREM OneBallHolds == Spec => []OneBall
<1>1. CommInv => OneBall
  <2> SUFFICES ASSUME FdInv PROVE Fd!OneBall
    BY DEF CommInv, OneBall
  <2>1. /\ Fd!MouthQueue(0) \in Fd!Queues /\ Fd!MouthQueue(1) \in Fd!Queues
        /\ Fd!MouthQueue(0) # Fd!MouthQueue(1)
    BY FdWiring DEF FdInv, Fd!TypeOK
  <2>2. \A q \in Fd!Queues : buf[q] \in 0..Capacity
    BY DEF FdInv, Fd!TypeOK
  <2> QED
    BY <2>1, <2>2 DEF FdInv, FdPlaces, Fd!OneBall, Fd!Threads
<1> QED
  BY <1>1, CommInvariant, PTL

\* sem.c neither loses nor adds a post, whatever earlier runs left.
THEOREM BallsKeptHolds == Spec => []BallsKept
<1>1. CommInv => BallsKept
  BY DEF CommInv, BallsKept, SemInv, SemBalls
<1> QED
  BY <1>1, CommInvariant, PTL

\* do_recv_futex never sleeps through its partner's wake, stop or no stop.
THEOREM NoLostWakeupHolds == Spec => []NoLostWakeup
<1>1. CommInv => NoLostWakeup
  BY DEF CommInv, NoLostWakeup, FutexInv
<1> QED
  BY <1>1, CommInvariant, PTL

\* FUTEX_WAKE hands the ball over: the woken thread is the only one that has it.
THEOREM WokenAloneHolds == Spec => []WokenAlone
<1>1. CommInv => WokenAlone
  BY DEF CommInv, WokenAlone, FutexInv, FutexPlay, Futex!TypeOK, Futex!WokenAlone, Futex!Threads
<1> QED
  BY <1>1, CommInvariant, PTL

\* When pong sees the serve of spin or yield, the count is in memory, whatever
\* the sync methods of the two threads are.
THEOREM CountVisibleHolds == Spec => []CountVisible
<1>1. CommInv => CountVisible
  <2> SUFFICES ASSUME FlagInv, tpc[1] = "put"
               PROVE  mem.count = Flag!View(0, "count") /\ ~Flag!Pending(0, "count")
    BY DEF CommInv, CountVisible, Flag!CountVisible
  <2>1. sb[0] = <<>>
    BY DEF FlagInv, FlagPlay, PingHasIt, Counted, ServeBuffered, ServeSeen, ReturnBuffered,
           ReturnSeen, Waits
  <2>2. /\ Flag!View(0, "count") = ViewOf(sb[0], mem, "count")
        /\ Flag!Own(0, "count") = OwnOf(sb[0], "count")
    BY ViewIs
  <2> QED
    BY <2>1, <2>2, BufferShows DEF Flag!Pending
<1> QED
  BY <1>1, CommInvariant, PTL

\* The flag of signal.c swallows no signal, and none arrives before its handler
\* is installed.
THEOREM NoSignalLostHolds == Spec => []NoSignalLost
<1>1. CommInv => NoSignalLost
  BY DEF CommInv, NoSignalLost, SignalInv, SignalPlay, Quiet, OneSignal, Signal!TypeOK,
         Signal!NoSignalLost, Signal!Threads
<1> QED
  BY <1>1, CommInvariant, PTL

-----------------------------------------------------------------------------
\* The game of PingPong

\* A step of the game, or none: how the ball and the serves counted may change.
GameStep(b, c, m, n) ==
    \/ b = "ping" /\ c = "to_pong" /\ n = (m + 1) % Wrap
    \/ n = m /\ <<b, c>> \in {<<"to_pong", "pong">>, <<"pong", "to_ping">>, <<"to_ping", "ping">>}
    \/ n = m /\ c = b

\* Such a step is one of PingPong, and so is calling the game off.
LEMMA GamePlays ==
    ASSUME harm' = "none" => harm = "none" /\ GameStep(Ball, Ball', Serves, Serves')
    PROVE  [PP!Next]_(PP!vars)
<1>1. CASE harm' # "none"
  BY <1>1 DEF Game, Score, PP!Next, PP!CallOff
<1>2. CASE harm' = "none"
  BY <1>2 DEF Game, Score, GameStep, PP!Next, PP!vars, PP!Play, PP!Serve, PP!Take, PP!Reply,
              PP!Back, PP!Move
<1> QED
  BY <1>1, <1>2

\* The ball and the serves of the mode that is run, before and after a step.
LEMMA ModeBall ==
    ASSUME mode' = mode
    PROVE  /\ mode = "fd" => Ball = Fd!Ball /\ Ball' = Fd!Ball' /\ Serves = count /\ Serves' = count'
           /\ mode = "sem" => /\ Ball = Sem!Ball /\ Ball' = Sem!Ball'
                              /\ Serves = Sem!Served /\ Serves' = Sem!Served'
           /\ mode = "futex" => /\ Ball = Futex!Ball /\ Ball' = Futex!Ball'
                                /\ Serves = count /\ Serves' = count'
           /\ mode = "flag" => /\ Ball = Flag!Ball /\ Ball' = Flag!Ball'
                               /\ Serves = Flag!View(0, "count") /\ Serves' = Flag!View(0, "count")'
           /\ mode = "signal" => /\ Ball = Signal!Ball /\ Ball' = Signal!Ball'
                                 /\ Serves = count /\ Serves' = count'
  BY DEF Ball, Serves

\* The byte, message or event of a descriptor transport is the ball.
LEMMA FdPlays ==
    ASSUME FdInv, [Fd!Next]_(Fd!vars), harm' = "none"
    PROVE  harm = "none" /\ GameStep(Fd!Ball, Fd!Ball', count, count')
<1> DEFINE A == Fd!MouthQueue(0)
           B == Fd!MouthQueue(1)
<1>1. /\ A \in Fd!Queues /\ B \in Fd!Queues /\ A # B
      /\ Fd!EarQueue(0) = B /\ Fd!EarQueue(1) = A
  BY FdWiring DEF FdInv, Fd!TypeOK
<1>2. kind' = kind => A' = A /\ B' = B
  BY DEF Fd!MouthQueue, Fd!MouthEnd, Fd!OutQueue
<1>3. buf[A] \in Nat /\ buf[B] \in Nat
  BY <1>1 DEF FdInv, Fd!TypeOK
<1>4. Fd!Ball = IF tpc[0] = "count" THEN "ping" ELSE IF tpc[1] = "send" THEN "pong"
                ELSE IF tpc[0] = "send" \/ buf[A] > 0 THEN "to_pong" ELSE "to_ping"
  BY DEF Fd!Ball
<1>5. Fd!Ball' = IF tpc'[0] = "count" THEN "ping" ELSE IF tpc'[1] = "send" THEN "pong"
                 ELSE IF tpc'[0] = "send" \/ buf'[A'] > 0 THEN "to_pong" ELSE "to_ping"
  BY DEF Fd!Ball
<1>6. Fd!MouthQueue(0) = A /\ Fd!MouthQueue(1) = B
  OBVIOUS
<1> HIDE DEF A, B
<1> USE <1>1, <1>2, <1>3, <1>4, <1>5, <1>6
    DEF FdInv, Fd!TypeOK, FdPlaces, Fd!Threads, Fd!Goto, GameStep
<1>7. CASE Fd!PingCount
  BY <1>7 DEF Fd!PingCount, Fd!Counts
<1>8. ASSUME NEW t \in Fd!Threads, Fd!Send(t)
      PROVE  harm = "none" /\ GameStep(Fd!Ball, Fd!Ball', count, count')
  BY <1>8 DEF Fd!Send
<1>9. ASSUME NEW t \in Fd!Threads, Fd!Recv(t)
      PROVE  harm = "none" /\ GameStep(Fd!Ball, Fd!Ball', count, count')
  BY <1>9 DEF Fd!Recv
<1>10. ASSUME NEW t \in Fd!Threads, Fd!Drop(t) PROVE FALSE
  BY <1>10 DEF Fd!Drop
<1>11. CASE Fd!PingInterrupted
  BY <1>11 DEF Fd!PingInterrupted
<1>12. CASE UNCHANGED Fd!vars
  BY <1>12 DEF Fd!vars
<1> QED
  BY <1>7, <1>8, <1>9, <1>10, <1>11, <1>12 DEF Fd!Next, Fd!Thread

\* The post of sem.c is the ball, and a serve is played when ping posts.
LEMMA SemPlays ==
    ASSUME SemInv, [Sem!Next]_(Sem!vars), harm' = "none"
    PROVE  harm = "none" /\ GameStep(Sem!Ball, Sem!Ball', Sem!Served, Sem!Served')
<1>1. /\ sems[0] \in Nat /\ sems[1] \in Nat /\ begun \in BOOLEAN /\ count \in 0..(Wrap - 1)
      /\ tpc \in [Sem!Threads -> {"count", "wait", "post"}] /\ tpc[1] # "count"
      /\ DOMAIN sems = {0, 1}
  BY DEF SemInv, Sem!TypeOK, Sem!Threads
<1>2. (((count + 1) % Wrap) + Wrap - 1) % Wrap = count
  <2>1. CASE count = Wrap - 1
    BY <1>1, <2>1
  <2>2. CASE count < Wrap - 1
    BY <1>1, <2>2
  <2> QED
    BY <1>1, <2>1, <2>2
<1>3. (((count + Wrap - 1) % Wrap) + 1) % Wrap = count
  <2>1. CASE count = 0
    BY <1>1, <2>1
  <2>2. CASE count > 0
    BY <1>1, <2>2
  <2> QED
    BY <1>1, <2>1, <2>2
<1>4. harm = "none" /\ Sem!Balls = 1
  <2>1. harm = "none"
    BY DEF Sem!Next, Sem!Thread, Sem!Begin, Sem!PingCount, Sem!Counts, Sem!Wait, Sem!Post, Sem!vars
  <2> QED
    BY <2>1 DEF SemInv, SemBalls
<1> USE <1>1, <1>4 DEF Sem!Threads, Sem!Goto, Sem!Balls, Sem!Held, Sem!Ball, Sem!Served, GameStep
<1>5. CASE Sem!Begin
  BY <1>5 DEF Sem!Begin
<1>6. CASE Sem!PingCount
  BY <1>2, <1>6 DEF Sem!PingCount, Sem!Counts
<1>7. ASSUME NEW t \in Sem!Threads, Sem!Wait(t)
      PROVE  GameStep(Sem!Ball, Sem!Ball', Sem!Served, Sem!Served')
  BY <1>7 DEF Sem!Wait
<1>8. CASE Sem!Post(0)
  BY <1>3, <1>8 DEF Sem!Post
<1>9. CASE Sem!Post(1)
  BY <1>9 DEF Sem!Post
<1>10. CASE UNCHANGED Sem!vars
  BY <1>10 DEF Sem!vars
<1> QED
  BY <1>5, <1>6, <1>7, <1>8, <1>9, <1>10 DEF Sem!Next, Sem!Thread

\* The ball of the futex is with the thread that was woken last.
LEMMA FutexPlays ==
    ASSUME FutexInv, [Futex!Next]_(Futex!vars), harm' = "none"
    PROVE  harm = "none" /\ GameStep(Futex!Ball, Futex!Ball', count, count')
<1> USE DEF FutexInv, Futex!TypeOK, FutexPlay, Futex!Threads, Futex!Goto, Futex!Index,
            Futex!AfterSend, Futex!AfterRecv, Futex!Ball, GameStep
<1>1. CASE Futex!PingCount
  BY <1>1 DEF Futex!PingCount, Futex!Counts
<1>2. ASSUME NEW t \in Futex!Threads, Futex!SendStore(t)
      PROVE  harm = "none" /\ GameStep(Futex!Ball, Futex!Ball', count, count')
  BY <1>2 DEF Futex!SendStore
<1>3. ASSUME NEW t \in Futex!Threads, Futex!SendWake(t)
      PROVE  harm = "none" /\ GameStep(Futex!Ball, Futex!Ball', count, count')
  BY <1>3 DEF Futex!SendWake
<1>4. ASSUME NEW t \in Futex!Threads, Futex!RecvWait(t)
      PROVE  harm = "none" /\ GameStep(Futex!Ball, Futex!Ball', count, count')
  BY <1>4 DEF Futex!RecvWait
<1>5. ASSUME NEW t \in Futex!Threads, Futex!RecvWoken(t)
      PROVE  harm = "none" /\ GameStep(Futex!Ball, Futex!Ball', count, count')
  BY <1>5 DEF Futex!RecvWoken
<1>6. CASE Futex!Stop
  BY <1>6 DEF Futex!Stop
<1>7. CASE UNCHANGED Futex!vars
  BY <1>7 DEF Futex!vars
<1> QED
  BY <1>1, <1>2, <1>3, <1>4, <1>5, <1>6, <1>7 DEF Futex!Next, Futex!Thread

\* The signal under way, or the flag it has set, is the ball.
LEMMA SignalPlays ==
    ASSUME SignalInv, [Signal!Next]_(Signal!vars), harm' = "none"
    PROVE  harm = "none" /\ GameStep(Signal!Ball, Signal!Ball', count, count')
<1> USE DEF SignalInv, SignalPlay, Signal!TypeOK, Quiet, OneSignal, Signal!Threads, Signal!Moves,
            Signal!Ball, GameStep
<1>1. CASE Signal!PingCount
  BY <1>1 DEF Signal!PingCount, Signal!Counts, Signal!Goto
<1>2. ASSUME NEW t \in Signal!Threads, Signal!Pre(t) \/ Signal!Ready(t) \/ Signal!Start(t)
      PROVE  GameStep(Signal!Ball, Signal!Ball', count, count')
  BY <1>2 DEF Signal!Pre, Signal!Ready, Signal!Start
<1>3. ASSUME NEW t \in Signal!Threads, Signal!Send(t)
      PROVE  GameStep(Signal!Ball, Signal!Ball', count, count')
  BY <1>3 DEF Signal!Send
<1>4. ASSUME NEW t \in Signal!Threads, Signal!Look(t)
      PROVE  GameStep(Signal!Ball, Signal!Ball', count, count')
  BY <1>4 DEF Signal!Look
<1>5. ASSUME NEW t \in Signal!Threads, Signal!Clear(t)
      PROVE  GameStep(Signal!Ball, Signal!Ball', count, count')
  BY <1>5 DEF Signal!Clear
<1>6. ASSUME NEW t \in Signal!Threads, Signal!Catch(t)
      PROVE  GameStep(Signal!Ball, Signal!Ball', count, count')
  BY <1>6 DEF Signal!Catch
<1>7. CASE UNCHANGED Signal!vars
  BY <1>7 DEF Signal!vars
<1> QED
  BY <1>1, <1>2, <1>3, <1>4, <1>5, <1>6, <1>7 DEF Signal!Next, Signal!Thread

\* Where the ball is in each phase of a round trip over the shared word.
LEMMA FlagBall ==
    ASSUME FlagInv
    PROVE  /\ PingHasIt => Flag!Ball = "ping"
           /\ Counted \/ ServeBuffered => Flag!Ball = "to_pong"
           /\ ServeSeen => Flag!Ball = IF tpc[1] = "put" THEN "pong" ELSE "to_pong"
           /\ ReturnBuffered \/ ReturnSeen => Flag!Ball = "to_ping"
<1>1. PingHasIt => Flag!Ball = "ping"
  BY DEF Flag!Ball, PingHasIt
<1>2. Counted => Flag!Ball = "to_pong"
  BY DEF Flag!Ball, Counted, Waits
<1>3. ServeBuffered => Flag!Ball = "to_pong"
  <2> SUFFICES ASSUME ServeBuffered PROVE Flag!Pending(0, "flag")
    BY DEF Flag!Ball, ServeBuffered, Waits
  <2>1. Flag!Own(0, "flag") = OwnOf(sb[0], "flag")
    BY ViewIs
  <2>2. sb[0] = <<Serve>> => Flag!Own(0, "flag") # {}
    BY <2>1, BufferShows
  <2>3. ASSUME NEW v, sb[0] = <<CountStore(v), Serve>> PROVE Flag!Own(0, "flag") # {}
    <3>1. OwnOf(<<CountStore(v), Serve>>, "flag") = {2}
      BY ViewTwo
    <3> QED
      BY <2>1, <2>3, <3>1
  <2> QED
    BY <2>2, <2>3 DEF ServeBuffered, Flag!Pending
<1>4. /\ Flag!Own(0, "flag") = OwnOf(sb[0], "flag")
      /\ Flag!View(1, "flag") = ViewOf(sb[1], mem, "flag")
  BY ViewIs
<1>5. ServeSeen => Flag!Ball = IF tpc[1] = "put" THEN "pong" ELSE "to_pong"
  BY <1>4, BufferShows DEF Flag!Ball, ServeSeen, Waits
<1>6. ReturnBuffered \/ ReturnSeen => Flag!Ball = "to_ping"
  BY <1>4, BufferShows DEF Flag!Ball, Flag!Pending, ReturnBuffered, ReturnSeen, Waits
<1> QED
  BY <1>1, <1>2, <1>3, <1>5, <1>6

\* The same after a step.
LEMMA FlagBallNext ==
    FlagInv' => /\ PingHasIt' => Flag!Ball' = "ping"
                /\ Counted' \/ ServeBuffered' => Flag!Ball' = "to_pong"
                /\ ServeSeen' => Flag!Ball' = IF tpc'[1] = "put" THEN "pong" ELSE "to_pong"
                /\ ReturnBuffered' \/ ReturnSeen' => Flag!Ball' = "to_ping"
<1> DEFINE P == /\ PingHasIt => Flag!Ball = "ping"
                /\ Counted \/ ServeBuffered => Flag!Ball = "to_pong"
                /\ ServeSeen => Flag!Ball = IF tpc[1] = "put" THEN "pong" ELSE "to_pong"
                /\ ReturnBuffered \/ ReturnSeen => Flag!Ball = "to_ping"
<1>1. FlagInv => P
  BY FlagBall
<1> HIDE DEF P
<1>2. FlagInv' => P'
  BY <1>1, PTL
<1> QED
  BY <1>2 DEF P

\* The serve and the return, buffered or in memory, are the ball.
LEMMA FlagPlays ==
    ASSUME FlagInv, [Flag!Next]_(Flag!vars), harm' = "none"
    PROVE  /\ harm = "none"
           /\ GameStep(Flag!Ball, Flag!Ball', Flag!View(0, "count"), Flag!View(0, "count")')
<1>1. FlagInv' /\ FlagMove
  BY FlagStep
<1>2. tpc[1] # "put" \/ ~Waits(1)
  BY DEF Waits
<1>3. (ServeSeen /\ Waits(1))' => Flag!Ball' = "to_pong"
  BY <1>1, FlagBallNext DEF Waits
<1> QED
  BY <1>1, <1>2, <1>3, FlagBall, FlagBallNext DEF FlagMove, FlagInv, FlagPlay, GameStep

\* Every mode plays ping-pong: at any moment there is one ball, each serve
\* counted is taken and returned by the other thread before the next one is
\* counted, and only a disturbance from outside calls the game off.  (That the
\* game also goes on, the other half of KeepsPlaying, is left to TLC.)
THEOREM ModesPlayPingPong == Spec => PP!Spec
<1>1. Init => PP!Init
  <2> SUFFICES ASSUME Init PROVE PP!Init
    OBVIOUS
  <2>1. CommInv
    BY CommInit
  <2>2. CASE mode = "fd"
    <3>1. Fd!Init
      BY <2>2 DEF Init
    <3>2. tpc[0] = "count"
      BY <3>1 DEF Fd!Init, Fd!Threads
    <3> QED
      BY <2>2, <3>1, <3>2 DEF Fd!Init, PP!Init, Ball, Serves, Fd!Ball, Game, Score
  <2>3. CASE mode = "sem"
    <3>1. Sem!Init
      BY <2>3 DEF Init
    <3>2. tpc[0] = "count" /\ tpc[1] = "wait" /\ count = 0
      BY <3>1 DEF Sem!Init, Sem!Threads
    <3>3. harm = "none" => sems[1] = 0
      BY <3>1 DEF Sem!Init, Sem!Threads
    <3> QED
      BY <2>3, <3>2, <3>3 DEF PP!Init, Ball, Serves, Sem!Ball, Sem!Served, Game, Score
  <2>4. CASE mode = "futex"
    <3>1. Futex!Init
      BY <2>4 DEF Init
    <3>2. tpc[0] = "count"
      BY <3>1 DEF Futex!Init, Futex!Threads
    <3> QED
      BY <2>4, <3>1, <3>2 DEF Futex!Init, PP!Init, Ball, Serves, Futex!Ball, Game, Score
  <2>5. CASE mode = "flag"
    <3>1. Flag!Init
      BY <2>5 DEF Init
    <3>2. tpc[0] = "count" /\ sb[0] = <<>> /\ mem.count = 0
      BY <3>1 DEF Flag!Init, Flag!Threads
    <3>3. Flag!View(0, "count") = 0
      BY <3>2, PingView
    <3> QED
      BY <2>5, <3>2, <3>3 DEF PP!Init, Ball, Serves, Flag!Ball, Game, Score
  <2>6. CASE mode = "signal"
    <3>1. Signal!Init
      BY <2>6 DEF Init
    <3>2. tpc[0] = "pre"
      BY <3>1 DEF Signal!Init, Signal!Threads
    <3> QED
      BY <2>6, <3>1, <3>2 DEF Signal!Init, PP!Init, Ball, Serves, Signal!Ball, Game, Score
  <2> QED
    BY <2>1, <2>2, <2>3, <2>4, <2>5, <2>6 DEF CommInv
<1>2. CommInv /\ [Next]_vars => [PP!Next]_(PP!vars)
  <2> SUFFICES ASSUME CommInv, [Next]_vars PROVE [PP!Next]_(PP!vars)
    OBVIOUS
  <2>1. mode' = mode
    BY ModeStep
  <2>2. harm' = "none" => harm = "none" /\ GameStep(Ball, Ball', Serves, Serves')
    BY <2>1, ModeStep, ModeBall, FdPlays, SemPlays, FutexPlays, FlagPlays, SignalPlays DEF CommInv
  <2> QED
    BY <2>2, GamePlays
<1> QED
  BY <1>1, <1>2, CommInvariant, PTL DEF Spec, PP!Spec
=============================================================================
