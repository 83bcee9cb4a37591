------------------------------ MODULE FlagComm ------------------------------
(***************************************************************************)
(* The modes that pass the ball through one shared word: spin busy-waits   *)
(* on it, yield calls sched_yield between two looks.  On x86 a store sits  *)
(* in the store buffer of its CPU, in program order, before the other CPU  *)
(* can see it; the reading CPU sees its own buffer first.  The memory sync *)
(* methods of spin differ in whether they wait for the buffer to drain:    *)
(* mfence and __sync_synchronize do, a compiler barrier, nothing at all,   *)
(* and (as far as the CPU promises) msync and sched_yield do not.          *)
(***************************************************************************)
EXTENDS CommState

VARIABLES
    fence,   \* fence[t]: thread t's sync method drains its store buffer
    mem,     \* mem.flag is *spin_var or *yield_var, mem.count ping_count
    sb       \* sb[t]: the stores of t's CPU that are not in memory yet

\* count is not used: ping_count is in mem.count and in ping's store buffer.
vars == <<fence, mem, sb, tpc, count, harm>>

\* make_spin_pair, make_yield_pair.  "-o ##,##" chooses the methods of ping
\* and pong separately.
Init ==
    /\ fence \in [Threads -> BOOLEAN]
    /\ mem = [flag |-> 0, count |-> 0]
    /\ sb = [t \in Threads |-> <<>>]
    /\ tpc = [t \in Threads |-> IF t = 0 THEN "count" ELSE "spin"]
    /\ count = 0 /\ harm = "none"

Store(t, var, val) == sb' = [sb EXCEPT ![t] = Append(@, <<var, val>>)]

\* What thread t reads: its youngest buffered store, else memory.
Own(t, var) == {i \in 1..Len(sb[t]) : sb[t][i][1] = var}
View(t, var) ==
    IF Own(t, var) = {} THEN mem[var]
    ELSE sb[t][CHOOSE i \in Own(t, var) : \A j \in Own(t, var) : j <= i][2]

MutantPingCount ==
    /\ tpc[0] = "count"
    /\ sb' = [sb EXCEPT ![0] = @ \o <<<<"flag", 1>>, <<"count", (View(0, "count") + 1) % Wrap>>>>]
    /\ Goto(0, "sync")
    /\ UNCHANGED <<fence, mem, count, harm>>

PingCount ==
    /\ tpc[0] = "count"
    /\ Store(0, "count", (View(0, "count") + 1) % Wrap)
    /\ Goto(0, "put")
    /\ UNCHANGED <<fence, mem, count, harm>>

\* ping writes 1, pong writes 0.
Put(t) ==
    /\ tpc[t] = "put"
    /\ Store(t, "flag", 1 - t)
    /\ Goto(t, "sync")
    /\ UNCHANGED <<fence, mem, count, harm>>

\* _sync_code, or the sched_yield after the store
Sync(t) ==
    /\ tpc[t] = "sync"
    /\ fence[t] => sb[t] = <<>>
    /\ Goto(t, "spin")
    /\ UNCHANGED <<fence, mem, sb, count, harm>>

\* The waiting loop ends: ping waits for 0, pong for 1.
Spin(t) ==
    /\ tpc[t] = "spin" /\ View(t, "flag") = t
    /\ Goto(t, IF t = 0 THEN "count" ELSE "put")
    /\ UNCHANGED <<fence, mem, sb, count, harm>>

\* The CPU writes its oldest buffered store to memory.
Flush(t) ==
    /\ sb[t] # <<>>
    /\ mem' = [mem EXCEPT ![Head(sb[t])[1]] = Head(sb[t])[2]]
    /\ sb' = [sb EXCEPT ![t] = Tail(@)]
    /\ UNCHANGED <<fence, tpc, count, harm>>

Thread(t) == Put(t) \/ Sync(t) \/ Spin(t) \/ (t = 0 /\ PingCount)

Next == \E t \in Threads : Thread(t) \/ Flush(t)

\* Both threads get to run, and a store does not stay in the buffer for ever.
Spec ==
    /\ Init /\ [][Next]_vars
    /\ \A t \in Threads : WF_vars(Thread(t)) /\ WF_vars(Flush(t))

-----------------------------------------------------------------------------
\* Properties

Pending(t, var) == Own(t, var) # {}

\* The values the variables take.  A thread never has more than one store of
\* each variable under way: it waits for the answer to the last one.
TypeOK ==
    /\ fence \in [Threads -> BOOLEAN]
    /\ mem \in [flag : {0, 1}, count : 0..(Wrap - 1)]
    /\ sb \in [Threads -> Seq({"flag"} \X {0, 1} \cup {"count"} \X (0..(Wrap - 1)))]
    /\ \A t \in Threads : Len(sb[t]) <= 2 - t
    /\ tpc \in [Threads -> {"count", "put", "sync", "spin"}] /\ tpc[1] # "count"

Ball ==
    IF tpc[0] = "count" THEN "ping"
    ELSE IF tpc[1] = "put" THEN "pong"
    ELSE IF tpc[0] = "put" \/ Pending(0, "flag") \/ View(1, "flag") = 1 THEN "to_pong"
    ELSE "to_ping"

PP == INSTANCE PingPong WITH ball <- Game(Ball), count <- Score(View(0, "count"))

\* The monitor's statistics are never behind pong: when pong has seen a serve
\* the increment of ping_count that came before it is in memory.
CountVisible == tpc[1] = "put" => mem.count = View(0, "count") /\ ~Pending(0, "count")
=============================================================================
