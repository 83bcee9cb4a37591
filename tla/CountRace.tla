------------------------------ MODULE CountRace ------------------------------
(***************************************************************************)
(* run_data->ping_count as the statistics see it.  An increment of the     *)
(* volatile counter is a load and a store; in race1, nop and yield_nop (and*)
(* in every mode that plays) only ping increments it, in race2 pong does so*)
(* too, without any synchronisation.  The unrolled variety 4 of nop loads  *)
(* it once, and from then on adds to the register and stores.              *)
(* monitor_interrupt samples the counter with gather_periodic_stats and    *)
(* remembers it with store_last_stats, in unsigned arithmetic.             *)
(***************************************************************************)
EXTENDS Integers

CONSTANTS
    Modes,     \* of AllModes
    Width,     \* bound: bits of an unsigned long long
    MaxDone    \* bound: increments per thread, below 2^Width / 2

AllModes == {"race1", "race2", "nop", "nop_unrolled", "yield_nop"}

ASSUME RaceAssumption ==
    /\ Modes \subseteq AllModes
    /\ Width \in Nat /\ MaxDone \in Nat /\ 2 * MaxDone < 2^Width

Threads == {0, 1}

VARIABLES
    mode,      \* config.comm_mode_index
    count,     \* run_data->ping_count
    reg,       \* reg[t]: the value thread t has loaded
    tpc,       \* tpc[t]: "load" or "store"
    done,      \* done[t]: increments thread t has completed
    cur,       \* i_stats.current_count
    last,      \* run_data->last_ping_count
    interval,  \* i_stats.interval_count, as computed last
    shown,     \* the sum of the intervals shown, for IntervalsAddUp
    spc        \* the next statement of show_periodic_stats

threadVars == <<mode, count, reg, tpc, done>>
statVars == <<cur, last, interval, shown, spc>>
vars == <<threadVars, statVars>>

Init ==
    /\ mode \in Modes
    /\ count = 0
    /\ reg = [t \in Threads |-> 0]
    /\ tpc = [t \in Threads |-> "load"]
    /\ done = [t \in Threads |-> 0]
    /\ cur = 0 /\ last = 0 /\ interval = 0 /\ shown = 0 /\ spc = "gather"

MutantIncrements(t) == TRUE

\* Which of the comm_ping_* and comm_pong_* of these modes increment the
\* counter; the pong of race1 writes its own variable, those of nop and
\* yield_nop sleep.
Increments(t) == t = 0 \/ mode = "race2"

Load(t) ==
    /\ Increments(t) /\ tpc[t] = "load" /\ done[t] < MaxDone
    /\ reg' = [reg EXCEPT ![t] = count]
    /\ tpc' = [tpc EXCEPT ![t] = "store"]
    /\ UNCHANGED <<mode, count, done, statVars>>

\* The asm of variety 4 goes on with %rdx.
KeepsRegister == mode = "nop_unrolled"

Store(t) ==
    /\ tpc[t] = "store" /\ done[t] < MaxDone
    /\ count' = (reg[t] + 1) % 2^Width
    /\ done' = [done EXCEPT ![t] = @ + 1]
    /\ IF KeepsRegister
       THEN reg' = [reg EXCEPT ![t] = count'] /\ UNCHANGED tpc
       ELSE tpc' = [tpc EXCEPT ![t] = "load"] /\ UNCHANGED reg
    /\ UNCHANGED <<mode, statVars>>

MutantGather ==
    /\ spc = "gather"
    /\ cur' = count
    /\ interval' = count - last
    /\ spc' = "store"
    /\ UNCHANGED <<last, shown, threadVars>>

\* gather_periodic_stats
Gather ==
    /\ spc = "gather"
    /\ cur' = count
    /\ interval' = (count - last) % 2^Width
    /\ spc' = "store"
    /\ UNCHANGED <<last, shown, threadVars>>

\* stop has been set meanwhile: nothing is printed or stored.
Abandon ==
    /\ spc = "store"
    /\ spc' = "gather"
    /\ UNCHANGED <<cur, last, interval, shown, threadVars>>

MutantStoreLast ==
    /\ spc = "store"
    /\ last' = count
    /\ shown' = (shown + interval) % 2^Width
    /\ spc' = "gather"
    /\ UNCHANGED <<cur, interval, threadVars>>

\* show_periodic_stats_data prints the interval, store_last_stats remembers
\* the sample it was computed from.
StoreLast ==
    /\ spc = "store"
    /\ last' = cur
    /\ shown' = (shown + interval) % 2^Width
    /\ spc' = "gather"
    /\ UNCHANGED <<cur, interval, threadVars>>

Next == (\E t \in Threads : Load(t) \/ Store(t)) \/ Gather \/ Abandon \/ StoreLast

Spec == Init /\ [][Next]_vars

-----------------------------------------------------------------------------
\* Properties

Total == done[0] + done[1]

\* The values the variables take.
TypeOK ==
    /\ mode \in Modes /\ spc \in {"gather", "store"}
    /\ reg \in [Threads -> 0..(2^Width - 1)] /\ tpc \in [Threads -> {"load", "store"}]
    /\ done \in [Threads -> 0..MaxDone]
    /\ {count, cur, last, interval, shown} \subseteq 0..(2^Width - 1)

OneWriter == mode # "race2"

\* ping is the only one to increment ping_count in race1, nop, yield_nop and
\* in every mode that plays ping-pong, so each completed increment is in it.
\* The unlocked increments of race2 overwrite each other, but never add what
\* was not done.
NoLostIncrement == count <= Total /\ (OneWriter => count = Total)

\* The intervals shown add up to the count remembered: no increment between
\* gather_periodic_stats and store_last_stats, and none of an abandoned
\* sample, falls through.  With one writer none of them is more than was played
\* since the run began: the counter does not run backwards between two samples
\* (in race2 it does, and the unsigned difference wraps).
IntervalsAddUp == shown = last /\ (OneWriter => interval <= Total)
=============================================================================
