-------------------------------- MODULE Report --------------------------------
(***************************************************************************)
(* What the monitor prints: the rows of show_periodic_stats with their     *)
(* headers, and the totals of output_final_stats (stats_periodic.c,        *)
(* stats_final.c).  Monitor has the interleavings of the handlers that     *)
(* call them and CountRace those of the counter; here each call is one     *)
(* step, which may come between any two statements of child_handler and in *)
(* the middle of which a thread may end, and the matter is which values it *)
(* computes, stores for the next row and prints.  (A child_handler in the  *)
(* middle of a call has set stop before the call goes on, so that nothing  *)
(* is shown.)                                                              *)
(***************************************************************************)
EXTENDS Units, FiniteSets

CONSTANTS
    PerSecond,   \* clock units in a second
    Steps,       \* clock units that may pass between two calls
    Frequency,   \* config.stats_headers_frequency
    MaxTime,     \* bound: clock units the run lasts
    MaxCount     \* bound: volleys played, context switches made

\* What the constants are; MCStatistics assumes it.
ReportConstants ==
    /\ PerSecond \in Nat \ {0} /\ Steps \subseteq Nat \ {0}
    /\ Frequency \in Nat \ {0} /\ MaxTime \in Nat /\ MaxCount \in Nat

Threads == {0, 1}

VARIABLES
    clock,      \* get_time() since start_time
    count,      \* run_data->ping_count
    used,       \* used[n]: context switches thread n has made (the kernel's)
    thread,     \* thread[n]: "alive", "zombie" or "reaped"
    dead,       \* dead[n]: thread_info[n].pid is -1
    chld,       \* where child_handler is, and the thread it has in hand
    stop,
    lastTime, lastCount,   \* last_stats_time, last_ping_count
    usage, lastUsage,      \* thread_stats[n].rusage and last_rusage
    headers,    \* stats_headers_count
    row,        \* the row shown last
    sums,       \* what the rows shown so far add up to
    bare,       \* rows shown since the last header
    total       \* what output_final_stats has printed

world == <<clock, count, used, thread>>
marks == <<dead, chld, stop>>
stats == <<lastTime, lastCount, usage, lastUsage, headers>>
output == <<row, sums, bare, total>>
vars == <<world, marks, stats, output>>

NoRow == [volleys |-> -1]
NoChild == [at |-> "idle", n |-> 0]

Init ==
    /\ clock = 0 /\ count = 0 /\ stop = FALSE
    /\ used = [n \in Threads |-> 0] /\ thread = [n \in Threads |-> "alive"]
    /\ dead = [n \in Threads |-> FALSE] /\ chld = NoChild
    /\ lastTime = 0 /\ lastCount = 0 /\ headers = 0
    /\ usage = [n \in Threads |-> 0] /\ lastUsage = [n \in Threads |-> 0]
    /\ row = NoRow /\ bare = 0 /\ total = NoRow
    /\ sums = [time |-> 0, csw |-> [n \in Threads |-> 0]]

-----------------------------------------------------------------------------
\* The threads and the clock

\* Time passes; the threads that live play and are switched meanwhile.
Play(d, volleys, switches) ==
    /\ clock + d <= MaxTime /\ count + volleys <= MaxCount
    /\ volleys > 0 => \E n \in Threads : thread[n] = "alive"
    /\ \A n \in Threads :
         /\ used[n] + switches[n] <= MaxCount
         /\ switches[n] > 0 => thread[n] = "alive"
    /\ total = NoRow
    /\ clock' = clock + d /\ count' = count + volleys
    /\ used' = [n \in Threads |-> used[n] + switches[n]]
    /\ UNCHANGED <<thread, marks, stats, output>>

ThreadEnds(n) ==
    /\ thread[n] = "alive" /\ total = NoRow
    /\ thread' = [thread EXCEPT ![n] = "zombie"]
    /\ UNCHANGED <<clock, count, used, marks, stats, output>>

\* child_handler: waitpid(-1), pid = -1, stop = true
ChildReaped(n) ==
    /\ chld.at = "idle" /\ thread[n] = "zombie"
    /\ thread' = [thread EXCEPT ![n] = "reaped"]
    /\ chld' = [at |-> "mark", n |-> n]
    /\ UNCHANGED <<clock, count, used, dead, stop, stats, output>>

ChildMarked ==
    /\ chld.at = "mark"
    /\ dead' = [dead EXCEPT ![chld.n] = TRUE]
    /\ chld' = [chld EXCEPT !.at = "stop"]
    /\ UNCHANGED <<world, stop, stats, output>>

ChildStops ==
    /\ chld.at = "stop"
    /\ stop' = TRUE /\ chld' = NoChild
    /\ UNCHANGED <<world, dead, stats, output>>

\* stop_threads
StopThreads ==
    /\ stop' = TRUE
    /\ UNCHANGED <<world, dead, chld, stats, output>>

-----------------------------------------------------------------------------
\* show_periodic_stats

\* The zombie that wait4(thread_info[n].pid, WNOHANG) reaps, as a set: when
\* the pid is -1 it is any there is, so the other thread.
Wait4(n, zombies) == IF dead[n] THEN zombies ELSE zombies \cap {n}

\* What the two calls reap for ping's rusage and for pong's; the threads in
\* ends end between the calls.
Reaped(ends) ==
    LET zombies == {n \in Threads : thread[n] = "zombie"}
        first == Wait4(0, zombies)
    IN  [n \in Threads |-> IF n = 0 THEN first ELSE Wait4(1, (zombies \ first) \cup ends)]

\* rusage is filled in only when the call reaps.
Gathered(reaped) ==
    [n \in Threads |-> IF reaped[n] = {} THEN usage[n] ELSE used[CHOOSE t \in reaped[n] : TRUE]]

IntervalTime == clock - lastTime
IntervalCount == count - lastCount

\* iteration_time: interval_time / interval_count, infinite without a volley
CycleTime(time, volleys) == Fraction(time, volleys * PerSecond)

\* (unsigned long long)(interval_count / interval_time)
Rate(time, volleys) == (volleys * PerSecond) \div time

\* show_periodic_stats_data
Row ==
    [time    |-> Subsec(Fraction(clock, PerSecond), 1),
     rate    |-> Rate(IntervalTime, IntervalCount),
     cycle   |-> Subsec(CycleTime(IntervalTime, IntervalCount), 2),
     csw     |-> [n \in Threads |-> usage'[n] - lastUsage[n]],
     volleys |-> IntervalCount, lasted |-> IntervalTime]

MutantHeaderDue == (headers + 1) % (Frequency + 1) = 0

\* stats_headers_count++ % config.stats_headers_frequency == 0
HeaderDue == headers % Frequency = 0

MutantStoreLast ==
    /\ lastTime' = clock /\ lastCount' = count
    /\ UNCHANGED lastUsage

\* store_last_stats
StoreLast ==
    /\ lastTime' = clock /\ lastCount' = count
    /\ lastUsage' = usage'

ShowPeriodic(ends) ==
    /\ clock > lastTime /\ total = NoRow
    /\ \A n \in ends : thread[n] = "alive"
    /\ usage' = Gathered(Reaped(ends))
    /\ thread' = [n \in Threads |-> IF \E c \in Threads : n \in Reaped(ends)[c] THEN "reaped"
                                    ELSE IF n \in ends THEN "zombie" ELSE thread[n]]
    /\ \/ stop /\ UNCHANGED <<lastTime, lastCount, lastUsage, headers, output>>
       \/ /\ ~stop
          /\ headers' = headers + 1
          /\ bare' = IF HeaderDue THEN 1 ELSE bare + 1
          /\ row' = Row
          /\ sums' = [time |-> sums.time + row'.lasted,
                      csw |-> [n \in Threads |-> sums.csw[n] + row'.csw[n]]]
          /\ StoreLast
          /\ UNCHANGED total
    /\ UNCHANGED <<clock, count, used, marks>>

-----------------------------------------------------------------------------
\* output_final_stats, over the whole run

Total ==
    [elapsed |-> Subsec(Fraction(clock, PerSecond), 1),
     volleys |-> count,
     cycle   |-> Subsec(CycleTime(clock, count), 2),
     rate    |-> Rate(clock, count),
     lasted  |-> clock]

\* called by stop_handler when both pids are -1
FinalStats ==
    /\ stop /\ clock > 0 /\ total = NoRow
    /\ \A n \in Threads : dead[n]
    /\ total' = Total
    /\ UNCHANGED <<world, marks, stats, row, sums, bare>>

Done == total # NoRow /\ UNCHANGED vars

Next ==
    \/ \E d \in Steps, volleys \in 0..2, switches \in [Threads -> 0..1] :
         Play(d, volleys, switches)
    \/ \E n \in Threads : ThreadEnds(n) \/ ChildReaped(n)
    \/ \E ends \in SUBSET Threads : ShowPeriodic(ends)
    \/ ChildMarked \/ ChildStops \/ StopThreads \/ FinalStats \/ Done

Spec == Init /\ [][Next]_vars

-----------------------------------------------------------------------------
\* Properties

\* The values the variables take.
TypeOK ==
    /\ clock \in 0..MaxTime /\ count \in 0..MaxCount /\ stop \in BOOLEAN
    /\ {used, usage, lastUsage} \subseteq [Threads -> 0..MaxCount]
    /\ thread \in [Threads -> {"alive", "zombie", "reaped"}]
    /\ dead \in [Threads -> BOOLEAN] /\ chld \in [at : {"idle", "mark", "stop"}, n : Threads]
    /\ lastTime \in 0..clock /\ lastCount \in 0..count
    /\ headers \in 0..MaxTime /\ bare \in 0..MaxTime

\* Rounding the number that subsec_string prints does not carry into its
\* integer part (see TextTrue of MCUnits).
NoCarry(size, dec) ==
    LET x == Fraction(Scaled(size).num, size.den)
    IN  FixedPoint(dec, x).i = x.num \div x.den

Columns(r, time, volleys) ==
    /\ volleys = 0 => r.cycle.text = "infinite" /\ r.rate = 0
    /\ volleys > 0 /\ time < 1000 * volleys * PerSecond
            /\ NoCarry(CycleTime(time, volleys), 2)
        => ReadsAs(r.cycle, CycleTime(time, volleys), 2)
    /\ r.rate * time <= volleys * PerSecond

\* stats_periodic.c:87 and stats_final.c:191 divide by a count of volleys
\* that is 0 when none was completed: the cycle time then reads infinite and
\* the rate 0; otherwise the cycle time, below the 1000 s that its three digits
\* can show, reads as the time a volley took, and the rate promises no volley
\* too many.
ColumnsAgree ==
    /\ row # NoRow => Columns(row, row.lasted, row.volleys)
    /\ total # NoRow => Columns(total, total.lasted, total.volleys)

\* Whose context switches a thread's column adds up to: none, or all that the
\* thread has made.  A statistics interrupt between lines 172 and 173 (177 and
\* 178) of threads_monitor.c waits for the pid -1: the column then has those of
\* the other thread, which died too and has none in its own.
OwnSwitches(n) == lastUsage[n] \in {0, used[n]}
OthersSwitches(n) ==
    dead[n] /\ thread[1 - n] = "reaped" /\ lastUsage[n] = used[1 - n] /\ lastUsage[1 - n] = 0

\* The rows shown cover the run without a gap or an overlap, also across a
\* sample that a stop request made the program throw away: their times add up
\* to last_stats_time and their context switches to what has been stored, and
\* no switch is in two rows or in two columns, whoever reaps which thread.
RowsAddUp ==
    /\ sums.time = lastTime /\ sums.csw = lastUsage
    /\ \A n \in Threads : OwnSwitches(n) \/ OthersSwitches(n)

\* "how frequently should the stats header lines be output"
\* (test_process_pingpong.h:160): no more than that many rows follow a
\* header, and the first row has one.
HeaderInTime ==
    /\ bare <= Frequency
    /\ bare > 0 => (headers - bare) % Frequency = 0
===============================================================================
