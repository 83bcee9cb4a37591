--------------------------- MODULE StatisticsProofs ---------------------------
(***************************************************************************)
(* Proofs about the statistics: what the monitor samples, stores and shows *)
(* of the counter (CountRace), the rows of the report (Report), the table  *)
(* of scheduling data (SchedTable) and the arithmetic and the texts of     *)
(* times and sizes (Units), as MCStatistics puts them together.            *)
(***************************************************************************)
EXTENDS MCStatistics, Sequences, SequenceTheorems, WellFoundedInduction, TLAPS

-----------------------------------------------------------------------------
\* Unsigned arithmetic

\* The values of an unsigned long long.
LEMMA WordSizePositive ==
  /\ 2^Width \in Nat /\ 2^Width > 0 /\ 2 * MaxDone < 2^Width
  /\ MaxDone \in Nat /\ Modes \subseteq AllModes
  BY RaceAssumption DEF RaceAssumption

\* A value that fits is not changed.
LEMMA ModFits ==
  ASSUME NEW M \in Nat, NEW x \in Int, x >= 0, x < M
  PROVE  x % M = x
  OBVIOUS

\* Every reduced value fits.
LEMMA ModRange ==
  ASSUME NEW M \in Nat, M > 0, NEW x \in Int
  PROVE  x % M \in 0..(M - 1)
  OBVIOUS

\* Quotient and remainder.
LEMMA QuotientRemainder ==
  ASSUME NEW M \in Nat, M > 0, NEW x \in Int
  PROVE  x \div M \in Int /\ x = M * (x \div M) + (x % M)
  OBVIOUS

\* The quotient of natural numbers is one.
LEMMA QuotientNatural ==
  ASSUME NEW M \in Nat, M > 0, NEW x \in Nat
  PROVE  x \div M \in Nat
  OBVIOUS

\* An unsigned difference added back to its subtrahend gives the minuend,
\* whether it wrapped or not.
LEMMA DifferenceAddsUp ==
  ASSUME NEW M \in Nat, M > 0, NEW x \in 0..(M - 1), NEW y \in 0..(M - 1)
  PROVE  (y + ((x - y) % M)) % M = x
<1>1. CASE x >= y
  <2>1. (x - y) % M = x - y
    BY <1>1
  <2> QED
    BY <2>1, ModFits
<1>2. CASE x < y
  <2>1. (x - y) % M = x - y + M
    BY <1>2
  <2>2. y + (x - y + M) = x + M
    OBVIOUS
  <2>3. (x + M) % M = x
    OBVIOUS
  <2> QED
    BY <2>1, <2>2, <2>3
<1> QED
  BY <1>1, <1>2

-----------------------------------------------------------------------------
\* The counter

\* What a thread has loaded was completed before; a thread that is alone
\* with the counter finds what it has loaded when it stores.
CountOK ==
    /\ \A t \in Threads : tpc[t] = "store" => reg[t] <= Total
    /\ OneWriter => tpc[1] = "load" /\ done[1] = 0
    /\ OneWriter /\ tpc[0] = "store" => reg[0] = count

\* The sample that waits to be stored is the one its interval was computed
\* from.
SampleOK ==
    /\ spc = "store" => interval = (cur - last) % 2^Width
    /\ OneWriter => cur <= Total /\ last <= Total

CountInv == TypeOK /\ CountOK /\ NoLostIncrement /\ SampleOK /\ IntervalsAddUp

USE DEF vars, threadVars, statVars

\* The invariant holds initially.
LEMMA CountInit == Init => CountInv
<1> SUFFICES ASSUME Init PROVE CountInv
  OBVIOUS
<1>1. 0 \in 0..(2^Width - 1) /\ 0 \in 0..MaxDone
  BY WordSizePositive
<1>2. TypeOK
  BY <1>1 DEF Init, TypeOK
<1>3. Total = 0
  BY DEF Init, Total, Threads
<1>4. CountOK
  BY <1>3 DEF Init, CountOK, Threads
<1>5. NoLostIncrement /\ IntervalsAddUp
  BY <1>3 DEF Init, NoLostIncrement, IntervalsAddUp
<1>6. SampleOK
  BY <1>3 DEF Init, SampleOK
<1> QED
  BY <1>2, <1>4, <1>5, <1>6 DEF CountInv

\* What the types say of the numbers.
LEMMA CountNumbers ==
  ASSUME TypeOK
  PROVE  /\ mode \in AllModes
         /\ done[0] \in 0..MaxDone /\ done[1] \in 0..MaxDone
         /\ reg[0] \in 0..(2^Width - 1) /\ reg[1] \in 0..(2^Width - 1)
         /\ count \in 0..(2^Width - 1) /\ cur \in 0..(2^Width - 1)
         /\ last \in 0..(2^Width - 1) /\ interval \in 0..(2^Width - 1)
         /\ shown \in 0..(2^Width - 1)
         /\ Total \in Nat
<1>1. done[0] \in 0..MaxDone /\ done[1] \in 0..MaxDone
  BY DEF TypeOK, Threads
<1>2. Total \in Nat
  BY <1>1, WordSizePositive DEF Total
<1>3. mode \in AllModes
  BY WordSizePositive DEF TypeOK
<1>4. reg[0] \in 0..(2^Width - 1) /\ reg[1] \in 0..(2^Width - 1)
  BY DEF TypeOK, Threads
<1>5. /\ count \in 0..(2^Width - 1) /\ cur \in 0..(2^Width - 1)
      /\ last \in 0..(2^Width - 1) /\ interval \in 0..(2^Width - 1)
      /\ shown \in 0..(2^Width - 1)
  BY DEF TypeOK
<1> QED
  BY <1>1, <1>2, <1>3, <1>4, <1>5

\* A load keeps the invariant: what is loaded was completed.
LEMMA LoadKeeps ==
  ASSUME CountInv, NEW t \in Threads, Load(t)
  PROVE  CountInv'
<1> USE DEF CountInv
<1>1. TypeOK'
  <2>1. reg' \in [Threads -> 0..(2^Width - 1)]
    BY CountNumbers DEF Load, TypeOK
  <2>2. tpc' \in [Threads -> {"load", "store"}]
    BY DEF Load, TypeOK
  <2> QED
    BY <2>1, <2>2 DEF Load, TypeOK
<1>2. Total' = Total /\ OneWriter' = OneWriter
  BY DEF Load, Total, OneWriter
<1>3. count <= Total
  BY DEF NoLostIncrement
<1>4. CountOK'
  <2>1. \A u \in Threads : tpc'[u] = "store" => reg'[u] <= Total
    BY <1>3 DEF Load, CountOK, TypeOK
  <2>2. OneWriter => t = 0
    BY DEF Load, Increments, OneWriter
  <2>3. OneWriter => tpc'[1] = "load" /\ done'[1] = 0
    BY <2>2 DEF Load, CountOK, TypeOK, Threads
  <2>4. OneWriter /\ tpc'[0] = "store" => reg'[0] = count'
    BY <2>2 DEF Load, CountOK, TypeOK, Threads
  <2> QED
    BY <1>2, <2>1, <2>3, <2>4 DEF CountOK
<1>5. NoLostIncrement' /\ SampleOK' /\ IntervalsAddUp'
  BY <1>2 DEF Load, NoLostIncrement, SampleOK, IntervalsAddUp
<1> QED
  BY <1>1, <1>4, <1>5

\* A store keeps the invariant: the register holds no more than was
\* completed, so one more fits the word, and is no more than is completed now.
LEMMA StoreKeeps ==
  ASSUME CountInv, NEW t \in Threads, Store(t)
  PROVE  CountInv'
<1> USE DEF CountInv
<1>1. done' = [done EXCEPT ![t] = done[t] + 1] /\ done[t] < MaxDone /\ tpc[t] = "store"
  BY DEF Store
<1>2. Total' = Total + 1
  <2>1. done'[t] = done[t] + 1 /\ \A u \in Threads \ {t} : done'[u] = done[u]
    BY <1>1 DEF TypeOK
  <2> QED
    BY <2>1, CountNumbers, WordSizePositive DEF Total, Threads
<1>3. Total + 1 <= 2 * MaxDone
  BY <1>1, CountNumbers, WordSizePositive DEF Total, Threads
<1>4. reg[t] \in Nat /\ reg[t] <= Total /\ tpc[t] = "store"
  BY <1>1, CountNumbers, WordSizePositive DEF CountOK, Threads
<1>5. count' = reg[t] + 1
  <2>1. reg[t] + 1 >= 0 /\ reg[t] + 1 < 2^Width /\ reg[t] + 1 \in Int
    BY <1>3, <1>4, CountNumbers, WordSizePositive
  <2> QED
    BY <2>1, ModFits, WordSizePositive DEF Store
<1>6. count' \in 0..(2^Width - 1)
  BY <1>3, <1>4, <1>5, CountNumbers, WordSizePositive
<1>7. TypeOK'
  <2>1. reg' \in [Threads -> 0..(2^Width - 1)]
    BY <1>6 DEF Store, TypeOK
  <2>2. tpc' \in [Threads -> {"load", "store"}]
    BY DEF Store, TypeOK
  <2>3. done' \in [Threads -> 0..MaxDone]
    <3>1. done[t] + 1 \in 0..MaxDone
      BY <1>1, CountNumbers, WordSizePositive DEF Threads
    <3> QED
      BY <1>1, <3>1 DEF TypeOK
  <2> QED
    BY <1>6, <2>1, <2>2, <2>3 DEF Store, TypeOK
<1>8. OneWriter' = OneWriter
  BY DEF Store, OneWriter
<1>9. OneWriter => t = 0
  BY <1>1 DEF CountOK, Threads
<1>10. CountOK'
  <2>1. ASSUME NEW u \in Threads, tpc'[u] = "store" PROVE reg'[u] <= Total + 1
    <3>1. CASE u = t
      <4>1. KeepsRegister
        BY <2>1, <3>1 DEF Store, TypeOK
      <4>2. reg'[u] = count'
        BY <3>1, <4>1 DEF Store, TypeOK
      <4> QED
        BY <1>4, <1>5, <4>2, CountNumbers
    <3>2. CASE u # t
      <4>1. reg'[u] = reg[u] /\ tpc[u] = "store"
        BY <2>1, <3>2 DEF Store, TypeOK
      <4>2. reg[u] \in Nat
        BY CountNumbers, WordSizePositive DEF Threads
      <4> QED
        BY <4>1, <4>2, CountNumbers DEF CountOK
    <3> QED
      BY <3>1, <3>2
  <2>2. OneWriter => tpc'[1] = "load" /\ done'[1] = 0
    BY <1>9, <1>1 DEF Store, CountOK, TypeOK, Threads
  <2>3. OneWriter /\ tpc'[0] = "store" => reg'[0] = count'
    BY <1>9 DEF Store, TypeOK, Threads
  <2> QED
    BY <1>2, <1>8, <2>1, <2>2, <2>3 DEF CountOK
<1>11. NoLostIncrement'
  <2>1. count' <= Total'
    BY <1>2, <1>4, <1>5, CountNumbers
  <2>2. OneWriter => reg[t] = count /\ count = Total
    BY <1>9, <1>1 DEF CountOK, NoLostIncrement
  <2> QED
    BY <1>2, <1>5, <1>8, <2>1, <2>2 DEF NoLostIncrement
<1>12. SampleOK' /\ IntervalsAddUp'
  <2>1. UNCHANGED statVars
    BY DEF Store
  <2> QED
    BY <1>2, <1>8, <2>1, CountNumbers, WordSizePositive DEF SampleOK, IntervalsAddUp
<1> QED
  BY <1>7, <1>10, <1>11, <1>12

\* A sample keeps the invariant: with one writer the counter has not run
\* backwards since the last one.
LEMMA GatherKeeps == CountInv /\ Gather => CountInv'
<1> SUFFICES ASSUME CountInv, Gather PROVE CountInv'
  OBVIOUS
<1> USE DEF CountInv
<1>1. interval' \in 0..(2^Width - 1)
  BY ModRange, CountNumbers, WordSizePositive DEF Gather
<1>2. TypeOK'
  BY <1>1 DEF Gather, TypeOK
<1>3. Total' = Total /\ OneWriter' = OneWriter
  BY DEF Gather, Total, OneWriter
<1>4. CountOK' /\ NoLostIncrement'
  BY <1>3 DEF Gather, CountOK, NoLostIncrement
<1>5. SampleOK'
  BY <1>3 DEF Gather, SampleOK, NoLostIncrement
<1>6. ASSUME OneWriter PROVE interval' <= Total
  <2>1. count = Total /\ last <= count
    BY <1>6 DEF NoLostIncrement, SampleOK
  <2>2. (count - last) % 2^Width = count - last
    <3>1. count - last \in Int /\ count - last >= 0 /\ count - last < 2^Width
      BY <2>1, CountNumbers, WordSizePositive
    <3> QED
      BY <3>1, ModFits, WordSizePositive
  <2> QED
    BY <2>1, <2>2, CountNumbers DEF Gather
<1>7. IntervalsAddUp'
  BY <1>3, <1>6 DEF Gather, IntervalsAddUp
<1> QED
  BY <1>2, <1>4, <1>5, <1>7

\* A sample that is abandoned keeps the invariant.
LEMMA AbandonKeeps == CountInv /\ Abandon => CountInv'
<1> SUFFICES ASSUME CountInv, Abandon PROVE CountInv'
  OBVIOUS
<1> USE DEF CountInv
<1>1. TypeOK'
  BY DEF Abandon, TypeOK
<1>2. Total' = Total /\ OneWriter' = OneWriter
  BY DEF Abandon, Total, OneWriter
<1> QED
  BY <1>1, <1>2 DEF Abandon, CountOK, NoLostIncrement, SampleOK, IntervalsAddUp

\* A sample that is shown and stored keeps the invariant: its interval takes
\* the sum from the count remembered to the sample, whether it wrapped or not.
LEMMA StoreLastKeeps == CountInv /\ StoreLast => CountInv'
<1> SUFFICES ASSUME CountInv, StoreLast PROVE CountInv'
  OBVIOUS
<1> USE DEF CountInv
<1>1. shown' = cur
  <2>1. shown' = (last + ((cur - last) % 2^Width)) % 2^Width
    BY DEF StoreLast, SampleOK, IntervalsAddUp
  <2> QED
    BY <2>1, DifferenceAddsUp, CountNumbers, WordSizePositive
<1>2. TypeOK'
  BY <1>1 DEF StoreLast, TypeOK
<1>3. Total' = Total /\ OneWriter' = OneWriter
  BY DEF StoreLast, Total, OneWriter
<1>4. CountOK' /\ NoLostIncrement'
  BY <1>3 DEF StoreLast, CountOK, NoLostIncrement
<1>5. SampleOK' /\ IntervalsAddUp'
  BY <1>1, <1>3 DEF StoreLast, SampleOK, IntervalsAddUp
<1> QED
  BY <1>2, <1>4, <1>5

\* Every step of the counter and its samples keeps the invariant.
LEMMA CountNext == CountInv /\ [Next]_vars => CountInv'
<1>1. CountInv /\ Next => CountInv'
  BY LoadKeeps, StoreKeeps, GatherKeeps, AbandonKeeps, StoreLastKeeps DEF Next
<1>2. CountInv /\ UNCHANGED vars => CountInv'
  BY DEF CountInv, TypeOK, CountOK, NoLostIncrement, SampleOK, IntervalsAddUp,
         Total, OneWriter
<1> QED
  BY <1>1, <1>2

-----------------------------------------------------------------------------
\* The rows

\* child_handler marks only threads that have been reaped.
MarksOK ==
    /\ \A n \in Rows!Threads : dead[n] => thread[n] = "reaped"
    /\ chld.at = "mark" => thread[chld.n] = "reaped"

\* The usages u are nothing until the thread is reaped, and then what the
\* thread has made, or the other thread has once both are dead.
Accounted(u) ==
    /\ \A n \in Rows!Threads : thread[n] # "reaped" => u[n] = 0
    /\ \/ u[0] \in {0, used[0]}
       \/ dead[0] /\ thread[1] = "reaped" /\ u[0] = used[1] /\ u[1] = 0
    /\ \/ u[1] \in {0, used[1]}
       \/ dead[1] /\ thread[0] = "reaped" /\ u[1] = used[0] /\ u[0] = 0

UsageOK == MarksOK /\ Accounted(usage) /\ Accounted(lastUsage)

\* A row is shown only after time has passed, so there are no more rows than
\* units of time; the first row has a header.
HeadersOK == headers <= lastTime /\ bare <= headers /\ (bare = 0 => headers = 0)

RowsSum == sums = [time |-> lastTime, csw |-> lastUsage]

RowsInv == Rows!TypeOK /\ UsageOK /\ HeadersOK /\ RowsSum /\ HeaderInTime

\* What the constants of the rows are.
LEMMA RowsConstants ==
  /\ Steps \subseteq Nat /\ Frequency \in Nat /\ Frequency > 0
  /\ MaxTime \in Nat /\ MaxCount \in Nat
  BY RowsAssumption DEF RowsAssumption, Rows!ReportConstants

\* Two numbers that leave the same remainder are a whole number of periods
\* apart, so one that leaves another remainder is not a period later.
LEMMA NotAPeriodLater ==
  ASSUME NEW M \in Nat, M > 0, NEW h \in Nat, (h - M) % M = 0
  PROVE  h % M = 0
<1>1. PICK q \in Int : h - M = M * q
  <2>1. PICK q \in Int : h - M = M * q + ((h - M) % M)
    OBVIOUS
  <2> QED
    BY <2>1
<1>2. h = M * (q + 1)
  BY <1>1
<1>3. (M * (q + 1)) % M = 0
  OBVIOUS
<1> QED
  BY <1>2, <1>3

\* The invariant holds initially.
LEMMA RowsInit == Rows!Init => RowsInv
<1> SUFFICES ASSUME Rows!Init PROVE RowsInv
  OBVIOUS
<1>1. Rows!TypeOK
  <2>1. 0 \in 0..MaxTime /\ 0 \in 0..MaxCount /\ 0 \in 0..0
    BY RowsConstants
  <2>2. /\ used \in [Rows!Threads -> 0..MaxCount] /\ usage \in [Rows!Threads -> 0..MaxCount]
        /\ lastUsage \in [Rows!Threads -> 0..MaxCount]
        /\ thread \in [Rows!Threads -> {"alive", "zombie", "reaped"}]
        /\ dead \in [Rows!Threads -> BOOLEAN]
        /\ chld \in [at : {"idle", "mark", "stop"}, n : Rows!Threads]
    BY <2>1 DEF Rows!Init, Rows!NoChild, Rows!Threads
  <2> QED
    BY <2>1, <2>2 DEF Rows!Init, Rows!TypeOK
<1>2. UsageOK /\ HeadersOK /\ RowsSum
  BY DEF Rows!Init, Rows!NoChild, Rows!Threads, UsageOK, MarksOK, Accounted, HeadersOK, RowsSum
<1>4. HeaderInTime
  BY RowsConstants DEF Rows!Init, HeaderInTime, Rows!HeaderInTime
<1> QED
  BY <1>1, <1>2, <1>4 DEF RowsInv

\* What the two calls of wait4 reap: each thread that has ended its own, except
\* when the call's thread is marked, whose call reaps the other.
LEMMA ReapedMeans ==
  ASSUME MarksOK, thread \in [Rows!Threads -> {"alive", "zombie", "reaped"}],
         dead \in [Rows!Threads -> BOOLEAN], NEW ends \in SUBSET Rows!Threads,
         \A n \in ends : thread[n] = "alive"
  PROVE  /\ Rows!Reaped(ends)[0] = IF dead[0] /\ thread[1] = "zombie" THEN {1}
                                   ELSE IF thread[0] = "zombie" THEN {0} ELSE {}
         /\ Rows!Reaped(ends)[1] = IF (thread[1] = "zombie" /\ ~dead[0]) \/ 1 \in ends THEN {1}
                                   ELSE IF dead[1] /\ 0 \in ends THEN {0} ELSE {}
<1> DEFINE zombies == {n \in Rows!Threads : thread[n] = "zombie"}
           first == Rows!Wait4(0, zombies)
           second == (zombies \ first) \cup ends
<1>1. /\ 0 \in Rows!Threads /\ 1 \in Rows!Threads
      /\ \A n \in Rows!Threads : n = 0 \/ n = 1
  BY DEF Rows!Threads
<1>2. /\ dead[0] => thread[0] = "reaped"
      /\ dead[1] => thread[1] = "reaped"
      /\ dead[0] \in BOOLEAN /\ dead[1] \in BOOLEAN
  BY <1>1 DEF MarksOK
<1>3. Rows!Reaped(ends)[0] = first /\ Rows!Reaped(ends)[1] = Rows!Wait4(1, second)
  BY <1>1 DEF Rows!Reaped
<1>4. first = IF dead[0] /\ thread[1] = "zombie" THEN {1}
              ELSE IF thread[0] = "zombie" THEN {0} ELSE {}
  BY <1>1, <1>2 DEF Rows!Wait4
<1>5. /\ 1 \in second <=> (thread[1] = "zombie" /\ ~dead[0]) \/ 1 \in ends
      /\ dead[1] => (0 \in second <=> 0 \in ends) /\ 1 \notin second
      /\ second \subseteq Rows!Threads
  <2>1. dead[0] /\ thread[1] = "zombie" => first = {1}
    BY <1>4
  <2>2. ~(dead[0] /\ thread[1] = "zombie") => 1 \notin first
    BY <1>4
  <2>3. dead[1] => (thread[0] = "zombie" => 0 \in first)
    BY <1>2, <1>4
  <2> QED
    BY <1>1, <1>2, <2>1, <2>2, <2>3
<1> HIDE DEF second
<1>6. Rows!Wait4(1, second) = IF (thread[1] = "zombie" /\ ~dead[0]) \/ 1 \in ends THEN {1}
                              ELSE IF dead[1] /\ 0 \in ends THEN {0} ELSE {}
  <2>1. CASE dead[1]
    BY <1>1, <1>5, <2>1 DEF Rows!Wait4
  <2>2. CASE ~dead[1]
    BY <1>1, <1>5, <2>2 DEF Rows!Wait4
  <2> QED
    BY <2>1, <2>2
<1> QED
  BY <1>3, <1>4, <1>6

\* After them the usages are accounted for.
LEMMA GatheredAccounted ==
  ASSUME Rows!TypeOK, UsageOK, NEW ends \in SUBSET Rows!Threads, Rows!ShowPeriodic(ends)
  PROVE  /\ usage' \in [Rows!Threads -> 0..MaxCount]
         /\ MarksOK' /\ Accounted(usage)'
         /\ \A n \in Rows!Threads : thread[n] = "reaped" => thread'[n] = "reaped"
<1> DEFINE reaped == Rows!Reaped(ends)
<1>1. /\ 0 \in Rows!Threads /\ 1 \in Rows!Threads
      /\ \A n \in Rows!Threads : n = 0 \/ n = 1
  BY DEF Rows!Threads
<1>2. /\ used \in [Rows!Threads -> 0..MaxCount] /\ usage \in [Rows!Threads -> 0..MaxCount]
      /\ thread \in [Rows!Threads -> {"alive", "zombie", "reaped"}]
      /\ dead \in [Rows!Threads -> BOOLEAN]
      /\ chld \in [at : {"idle", "mark", "stop"}, n : Rows!Threads]
  BY DEF Rows!TypeOK
<1>3. /\ usage' = Rows!Gathered(reaped) /\ used' = used /\ dead' = dead /\ chld' = chld
      /\ thread' = [n \in Rows!Threads |-> IF \E c \in Rows!Threads : n \in reaped[c] THEN "reaped"
                                           ELSE IF n \in ends THEN "zombie" ELSE thread[n]]
      /\ \A n \in ends : thread[n] = "alive"
  BY DEF Rows!ShowPeriodic, Rows!marks
<1>4. /\ reaped[0] = IF dead[0] /\ thread[1] = "zombie" THEN {1}
                     ELSE IF thread[0] = "zombie" THEN {0} ELSE {}
      /\ reaped[1] = IF (thread[1] = "zombie" /\ ~dead[0]) \/ 1 \in ends THEN {1}
                     ELSE IF dead[1] /\ 0 \in ends THEN {0} ELSE {}
  BY <1>2, <1>3, ReapedMeans DEF UsageOK
<1>5. /\ dead[0] => thread[0] = "reaped"
      /\ dead[1] => thread[1] = "reaped"
  BY <1>1 DEF UsageOK, MarksOK
<1> HIDE DEF reaped
<1>6. /\ thread'[0] = IF thread[0] = "zombie" \/ (dead[1] /\ 0 \in ends) THEN "reaped"
                      ELSE IF 0 \in ends THEN "zombie" ELSE thread[0]
      /\ thread'[1] = IF thread[1] = "zombie" \/ 1 \in ends THEN "reaped" ELSE thread[1]
  <2>1. \A n \in Rows!Threads : (\E c \in Rows!Threads : n \in reaped[c])
                                    <=> n \in reaped[0] \/ n \in reaped[1]
    BY <1>1
  <2>2. 0 \in reaped[0] \/ 0 \in reaped[1] <=> thread[0] = "zombie" \/ (dead[1] /\ 0 \in ends)
    BY <1>2, <1>3, <1>4, <1>5
  <2>3. 1 \in reaped[0] \/ 1 \in reaped[1] <=> thread[1] = "zombie" \/ 1 \in ends
    BY <1>2, <1>3, <1>4, <1>5
  <2> QED
    BY <1>1, <1>3, <2>1, <2>2, <2>3
<1>7. /\ usage'[0] = IF dead[0] /\ thread[1] = "zombie" THEN used[1]
                     ELSE IF thread[0] = "zombie" THEN used[0] ELSE usage[0]
      /\ usage'[1] = IF (thread[1] = "zombie" /\ ~dead[0]) \/ 1 \in ends THEN used[1]
                     ELSE IF dead[1] /\ 0 \in ends THEN used[0] ELSE usage[1]
  <2>1. \A x : (CHOOSE t \in {x} : TRUE) = x
    OBVIOUS
  <2>2. \A n \in Rows!Threads :
          usage'[n] = IF reaped[n] = {} THEN usage[n] ELSE used[CHOOSE t \in reaped[n] : TRUE]
    BY <1>3 DEF Rows!Gathered
  <2> QED
    BY <1>1, <1>4, <2>1, <2>2
<1>8. usage' \in [Rows!Threads -> 0..MaxCount]
  <2>1. usage' = [n \in Rows!Threads |-> usage'[n]]
    BY <1>3 DEF Rows!Gathered
  <2>2. usage'[0] \in 0..MaxCount /\ usage'[1] \in 0..MaxCount
    BY <1>1, <1>2, <1>7
  <2>3. \A n \in Rows!Threads : usage'[n] \in 0..MaxCount
    BY <1>1, <2>2
  <2> QED
    BY <2>1, <2>3
<1>9. \A n \in Rows!Threads : thread[n] = "reaped" => thread'[n] = "reaped"
  BY <1>1, <1>3, <1>6
<1>10. MarksOK'
  BY <1>2, <1>3, <1>9 DEF UsageOK, MarksOK
<1>11. Accounted(usage)'
  <2>1. /\ thread'[0] # "reaped" => usage'[0] = 0
        /\ thread'[1] # "reaped" => usage'[1] = 0
    BY <1>1, <1>2, <1>3, <1>5, <1>6, <1>7 DEF UsageOK, Accounted
  <2>2. \/ usage'[0] \in {0, used[0]}
        \/ dead[0] /\ thread'[1] = "reaped" /\ usage'[0] = used[1] /\ usage'[1] = 0
    BY <1>1, <1>2, <1>3, <1>5, <1>6, <1>7 DEF UsageOK, Accounted
  <2>3. \/ usage'[1] \in {0, used[1]}
        \/ dead[1] /\ thread'[0] = "reaped" /\ usage'[1] = used[0] /\ usage'[0] = 0
    BY <1>1, <1>2, <1>3, <1>5, <1>6, <1>7 DEF UsageOK, Accounted
  <2> QED
    BY <1>1, <1>3, <2>1, <2>2, <2>3 DEF Accounted
<1> QED
  BY <1>8, <1>9, <1>10, <1>11

\* A row keeps the invariant: its time and its context switches take the sums
\* to what is remembered for the next row, and it has a header when the last
\* one is stats_headers_frequency rows back.
LEMMA RowShown ==
  ASSUME RowsInv, NEW ends \in SUBSET Rows!Threads, Rows!ShowPeriodic(ends)
  PROVE  RowsInv'
<1> USE DEF RowsInv
<1>1. /\ used \in [Rows!Threads -> 0..MaxCount] /\ usage \in [Rows!Threads -> 0..MaxCount]
      /\ lastUsage \in [Rows!Threads -> 0..MaxCount]
      /\ clock \in 0..MaxTime /\ volleys \in 0..MaxCount
      /\ lastTime \in 0..clock /\ lastCount \in 0..volleys
      /\ headers \in 0..MaxTime /\ bare \in 0..MaxTime
      /\ MaxTime \in Nat /\ MaxCount \in Nat /\ Frequency \in Nat /\ Frequency > 0
  BY RowsConstants DEF Rows!TypeOK
<1>2. /\ clock > lastTime /\ clock' = clock
      /\ volleys' = volleys /\ used' = used /\ stop' = stop
  BY DEF Rows!ShowPeriodic, Rows!marks
<1>3. /\ usage' \in [Rows!Threads -> 0..MaxCount] /\ MarksOK' /\ Accounted(usage)'
      /\ \A n \in Rows!Threads : thread[n] = "reaped" => thread'[n] = "reaped"
  BY GatheredAccounted
<1>4. /\ thread' \in [Rows!Threads -> {"alive", "zombie", "reaped"}]
      /\ dead' = dead /\ chld' = chld
  BY DEF Rows!ShowPeriodic, Rows!TypeOK, Rows!marks
<1>5. Accounted(lastUsage) /\ dead \in [Rows!Threads -> BOOLEAN]
  BY DEF UsageOK, Rows!TypeOK
<1>6. CASE stop /\ UNCHANGED <<lastTime, lastCount, lastUsage, headers, row, sums, bare, total>>
  <2>1. Rows!TypeOK'
    BY <1>1, <1>2, <1>3, <1>4, <1>6 DEF Rows!TypeOK
  <2>2. HeaderInTime' /\ HeadersOK' /\ RowsSum'
    BY <1>2, <1>6 DEF HeaderInTime, Rows!HeaderInTime, HeadersOK, RowsSum
  <2>3. UsageOK'
    <3>1. Accounted(lastUsage)'
      BY <1>2, <1>3, <1>4, <1>5, <1>6 DEF Accounted, Rows!Threads
    <3> QED
      BY <1>3, <3>1 DEF UsageOK
  <2> QED
    BY <2>1, <2>2, <2>3
<1>7. CASE /\ ~stop /\ headers' = headers + 1
           /\ bare' = (IF Rows!HeaderDue THEN 1 ELSE bare + 1)
           /\ row' = Rows!Row
           /\ sums' = [time |-> sums.time + row'.lasted,
                       csw |-> [n \in Rows!Threads |-> sums.csw[n] + row'.csw[n]]]
           /\ Rows!StoreLast
  <2>1. lastTime' = clock /\ lastCount' = volleys /\ lastUsage' = usage'
    BY <1>7 DEF Rows!StoreLast
  <2>2. HeadersOK' /\ headers' \in 0..MaxTime /\ bare' \in 0..MaxTime
    BY <1>1, <1>2, <1>7, <2>1 DEF HeadersOK
  <2>3. Rows!TypeOK'
    BY <1>1, <1>2, <1>3, <1>4, <2>1, <2>2 DEF Rows!TypeOK
  <2>4. RowsSum'
    <3>1. /\ row'.lasted = clock - lastTime
          /\ row'.csw = [n \in Rows!Threads |-> usage'[n] - lastUsage[n]]
      BY <1>7 DEF Rows!Row, Rows!IntervalTime
    <3>2. sums.time = lastTime /\ sums.csw = lastUsage
      BY DEF RowsSum
    <3>3. sums.time + row'.lasted = clock
      BY <1>1, <3>1, <3>2
    <3>4. \A n \in Rows!Threads : sums.csw[n] + row'.csw[n] = usage'[n]
      BY <1>1, <1>3, <3>1, <3>2
    <3>5. [n \in Rows!Threads |-> sums.csw[n] + row'.csw[n]] = usage'
      BY <1>3, <3>4
    <3> QED
      BY <1>7, <2>1, <3>3, <3>5 DEF RowsSum
  <2>5. UsageOK'
    BY <1>3, <2>1 DEF UsageOK, Accounted
  <2>6. HeaderInTime'
    <3>1. CASE Rows!HeaderDue
      <4>1. bare' = 1 /\ headers' - bare' = headers /\ headers % Frequency = 0
        BY <1>1, <1>7, <3>1 DEF Rows!HeaderDue
      <4> QED
        BY <1>1, <4>1 DEF HeaderInTime, Rows!HeaderInTime
    <3>2. CASE ~Rows!HeaderDue
      <4>1. headers % Frequency # 0
        BY <3>2 DEF Rows!HeaderDue
      <4>2. bare # 0
        BY <1>1, <4>1 DEF HeadersOK
      <4>3. bare <= Frequency /\ (headers - bare) % Frequency = 0
        BY <1>1, <4>2 DEF HeaderInTime, Rows!HeaderInTime
      <4>4. bare # Frequency
        BY <1>1, <4>1, <4>3, NotAPeriodLater
      <4>5. bare' = bare + 1 /\ headers' - bare' = headers - bare
        BY <1>1, <1>7, <3>2
      <4> QED
        BY <1>1, <4>3, <4>4, <4>5 DEF HeaderInTime, Rows!HeaderInTime
    <3> QED
      BY <3>1, <3>2
  <2> QED
    BY <2>2, <2>3, <2>4, <2>5, <2>6
<1> QED
  BY <1>6, <1>7 DEF Rows!ShowPeriodic, Rows!output

\* So does every step of the report.
LEMMA RowsNext == RowsInv /\ [Rows!Next]_rowsVars => RowsInv'
<1> SUFFICES ASSUME RowsInv, [Rows!Next]_rowsVars PROVE RowsInv'
  OBVIOUS
<1> USE DEF RowsInv, Rows!world, Rows!marks, Rows!stats, Rows!output, Rows!vars
<1>1. ASSUME UNCHANGED <<lastTime, lastCount, usage, lastUsage, headers, sums, bare, clock,
                         volleys, used>>,
             stop' \in BOOLEAN,
             thread' \in [Rows!Threads -> {"alive", "zombie", "reaped"}],
             dead' \in [Rows!Threads -> BOOLEAN],
             chld' \in [at : {"idle", "mark", "stop"}, n : Rows!Threads],
             MarksOK', Accounted(usage)', Accounted(lastUsage)'
      PROVE  RowsInv'
  BY <1>1 DEF Rows!TypeOK, UsageOK, HeadersOK, RowsSum, HeaderInTime, Rows!HeaderInTime
<1>2. /\ thread \in [Rows!Threads -> {"alive", "zombie", "reaped"}]
      /\ dead \in [Rows!Threads -> BOOLEAN] /\ stop \in BOOLEAN
      /\ chld \in [at : {"idle", "mark", "stop"}, n : Rows!Threads]
      /\ MarksOK /\ Accounted(usage) /\ Accounted(lastUsage)
  BY DEF Rows!TypeOK, UsageOK
<1>3. ASSUME NEW d \in Steps, NEW v \in 0..2, NEW s \in [Rows!Threads -> 0..1], Rows!Play(d, v, s)
      PROVE  RowsInv'
  <2>1. /\ clock' \in 0..MaxTime /\ volleys' \in 0..MaxCount
        /\ lastTime \in 0..clock' /\ lastCount \in 0..volleys'
    BY <1>3, RowsConstants DEF Rows!Play, Rows!TypeOK
  <2>2. /\ used' \in [Rows!Threads -> 0..MaxCount]
        /\ \A n \in Rows!Threads : thread[n] = "reaped" => used'[n] = used[n]
    BY <1>3, RowsConstants DEF Rows!Play, Rows!TypeOK
  <2>3. UNCHANGED <<thread, dead, chld, stop, usage, lastUsage, lastTime, lastCount, headers,
                    bare, sums>>
    BY <1>3 DEF Rows!Play
  <2>4. Rows!TypeOK'
    BY <2>1, <2>2, <2>3 DEF Rows!TypeOK
  <2>5. UsageOK'
    <3>1. Accounted(usage)' /\ Accounted(lastUsage)'
      BY <1>2, <2>2, <2>3 DEF Accounted, Rows!Threads
    <3> QED
      BY <2>3, <3>1 DEF UsageOK, MarksOK
  <2>6. HeadersOK' /\ RowsSum' /\ HeaderInTime'
    BY <2>3 DEF HeadersOK, RowsSum, HeaderInTime, Rows!HeaderInTime
  <2> QED
    BY <2>4, <2>5, <2>6
<1>4. ASSUME NEW n \in Rows!Threads, Rows!ThreadEnds(n) PROVE RowsInv'
  <2>1. /\ thread' = [thread EXCEPT ![n] = "zombie"] /\ thread[n] = "alive"
        /\ UNCHANGED <<lastTime, lastCount, usage, lastUsage, headers, sums, bare, clock,
                       volleys, used, stop, dead, chld>>
    BY <1>4 DEF Rows!ThreadEnds
  <2>2. \A m \in Rows!Threads : (thread[m] = "reaped" <=> thread'[m] = "reaped")
    BY <1>2, <2>1
  <2>3. Accounted(usage)' /\ Accounted(lastUsage)' /\ MarksOK'
    BY <1>2, <2>1, <2>2 DEF Accounted, MarksOK, Rows!Threads
  <2> QED
    BY <1>1, <1>2, <2>1, <2>3
<1>5. ASSUME NEW n \in Rows!Threads, Rows!ChildReaped(n) PROVE RowsInv'
  <2>1. /\ thread' = [thread EXCEPT ![n] = "reaped"] /\ thread[n] = "zombie"
        /\ chld' = [at |-> "mark", n |-> n]
        /\ UNCHANGED <<lastTime, lastCount, usage, lastUsage, headers, sums, bare, clock,
                       volleys, used, stop, dead>>
    BY <1>5 DEF Rows!ChildReaped
  <2>2. \A m \in Rows!Threads : thread[m] = "reaped" => thread'[m] = "reaped"
    BY <1>2, <2>1
  <2>3. Accounted(usage)' /\ Accounted(lastUsage)'
    BY <1>2, <2>1, <2>2 DEF Accounted, Rows!Threads
  <2>4. MarksOK' /\ chld' \in [at : {"idle", "mark", "stop"}, n : Rows!Threads]
    BY <1>2, <2>1, <2>2 DEF MarksOK
  <2> QED
    BY <1>1, <1>2, <2>1, <2>3, <2>4
<1>6. ASSUME Rows!ChildMarked PROVE RowsInv'
  <2>1. /\ chld.at = "mark" /\ dead' = [dead EXCEPT ![chld.n] = TRUE]
        /\ chld' = [chld EXCEPT !.at = "stop"]
        /\ UNCHANGED <<lastTime, lastCount, usage, lastUsage, headers, sums, bare, clock,
                       volleys, used, stop, thread>>
    BY <1>6 DEF Rows!ChildMarked
  <2>2. \A m \in Rows!Threads : dead[m] => dead'[m]
    BY <1>2, <2>1
  <2>3. Accounted(usage)' /\ Accounted(lastUsage)'
    BY <1>2, <2>1, <2>2 DEF Accounted, Rows!Threads
  <2>4. MarksOK' /\ chld' \in [at : {"idle", "mark", "stop"}, n : Rows!Threads]
    BY <1>2, <2>1 DEF MarksOK
  <2> QED
    BY <1>1, <1>2, <2>1, <2>3, <2>4
<1>7. ASSUME Rows!ChildStops \/ Rows!StopThreads \/ Rows!FinalStats \/ Rows!Done
             \/ UNCHANGED rowsVars
      PROVE  RowsInv'
  <2>1. /\ UNCHANGED <<lastTime, lastCount, usage, lastUsage, headers, sums, bare, clock,
                       volleys, used, thread, dead>>
        /\ stop' \in BOOLEAN /\ (chld' = chld \/ chld' = [at |-> "idle", n |-> 0])
    BY <1>2, <1>7 DEF Rows!ChildStops, Rows!StopThreads, Rows!FinalStats, Rows!Done, rowsVars,
                      Rows!NoChild
  <2>2. Accounted(usage)' /\ Accounted(lastUsage)'
    BY <1>2, <2>1 DEF Accounted
  <2>3. MarksOK' /\ chld' \in [at : {"idle", "mark", "stop"}, n : Rows!Threads]
    BY <1>2, <2>1 DEF MarksOK, Rows!Threads
  <2> QED
    BY <1>1, <1>2, <2>1, <2>2, <2>3
<1> QED
  BY <1>3, <1>4, <1>5, <1>6, <1>7, RowShown DEF Rows!Next

-----------------------------------------------------------------------------
\* Times and sizes

\* What the units are.
LEMMA UnitsPositive ==
  /\ Second \in Nat /\ Second > 0 /\ PageSize \in Nat /\ PageSize > 0
  /\ WordSize \in Nat /\ WordSize % PageSize = 0
  BY UnitsAssumption DEF UnitsAssumption

\* elapsed_time is exact for all clock values, over a borrow and for a stop
\* before the start.
THEOREM ElapsedExact ==
  ASSUME NEW from \in [sec : Int, part : 0..(Second - 1)],
         NEW to \in [sec : Int, part : 0..(Second - 1)]
  PROVE  LET e == Elapsed(from, to)
         IN  /\ Helpers!Normal(e)
             /\ Helpers!Ticks(from) + Helpers!Ticks(e) = Helpers!Ticks(to)
<1> DEFINE a == from.sec  b == from.part  c == to.sec  d == to.part
<1>1. a \in Int /\ c \in Int /\ b \in 0..(Second - 1) /\ d \in 0..(Second - 1)
  OBVIOUS
<1> HIDE DEF a, b, c, d
<1>2. CASE d - b < 0
  <2>1. Elapsed(from, to) = [sec |-> c - a - 1, part |-> Second + d - b]
    BY <1>2 DEF Elapsed, a, b, c, d
  <2>2. Second + d - b \in 0..(Second - 1)
    BY <1>1, <1>2, UnitsPositive
  <2>3. (a * Second + b) + ((c - a - 1) * Second + (Second + d - b)) = c * Second + d
    BY <1>1, UnitsPositive
  <2> QED
    BY <2>1, <2>2, <2>3 DEF Helpers!Normal, Helpers!Ticks, a, b, c, d
<1>3. CASE d - b >= 0
  <2>1. Elapsed(from, to) = [sec |-> c - a, part |-> d - b]
    BY <1>1, <1>3, UnitsPositive DEF Elapsed, a, b, c, d
  <2>2. d - b \in 0..(Second - 1)
    BY <1>1, <1>3, UnitsPositive
  <2>3. (a * Second + b) + ((c - a) * Second + (d - b)) = c * Second + d
    BY <1>1, UnitsPositive
  <2> QED
    BY <2>1, <2>2, <2>3 DEF Helpers!Normal, Helpers!Ticks, a, b, c, d
<1> QED
  BY <1>1, <1>2, <1>3, UnitsPositive

\* do_sleep's absolute time is proper, and exactly the interval from now, for
\* all clock values.
THEOREM WakeTimeExact ==
  ASSUME NEW now \in [sec : Int, part : 0..(Second - 1)],
         NEW sec \in Int, NEW part0 \in 0..(Second - 1)
  PROVE  LET w == WakeTime(now, sec, part0)
         IN  /\ Helpers!Normal(w)
             /\ Helpers!Ticks(w) = Helpers!Ticks(now) + (sec * Second + part0)
<1> DEFINE a == now.sec  b == now.part
<1>1. a \in Int /\ b \in 0..(Second - 1)
  OBVIOUS
<1> HIDE DEF a, b
<1>2. CASE b + part0 >= Second
  <2>1. WakeTime(now, sec, part0) = [sec |-> a + sec + 1, part |-> b + part0 - Second]
    BY <1>1, <1>2, UnitsPositive DEF WakeTime, a, b
  <2>2. b + part0 - Second \in 0..(Second - 1)
    BY <1>1, <1>2, UnitsPositive
  <2>3. (a + sec + 1) * Second + (b + part0 - Second) = (a * Second + b) + (sec * Second + part0)
    BY <1>1, UnitsPositive
  <2> QED
    BY <2>1, <2>2, <2>3 DEF Helpers!Normal, Helpers!Ticks, a, b
<1>3. CASE b + part0 < Second
  <2>1. WakeTime(now, sec, part0) = [sec |-> a + sec, part |-> b + part0]
    BY <1>1, <1>3, UnitsPositive DEF WakeTime, a, b
  <2>2. b + part0 \in 0..(Second - 1)
    BY <1>1, <1>3, UnitsPositive
  <2>3. (a + sec) * Second + (b + part0) = (a * Second + b) + (sec * Second + part0)
    BY <1>1, UnitsPositive
  <2> QED
    BY <2>1, <2>2, <2>3 DEF Helpers!Normal, Helpers!Ticks, a, b
<1> QED
  BY <1>1, <1>2, <1>3, UnitsPositive

\* page_align_size gives whole pages, enough and no page too many, for every
\* size that has such a number of pages in an unsigned int: for those the
\* product does not wrap.
THEOREM PageAlignedExact ==
  ASSUME NEW n \in Nat, n <= WordSize - PageSize
  PROVE  LET size == PageAligned(n)
         IN  size % PageSize = 0 /\ n <= size /\ size < n + PageSize
<1>1. CASE n % PageSize = 0
  BY <1>1, UnitsPositive DEF PageAligned
<1>2. CASE n % PageSize # 0
  <2> DEFINE q == n \div PageSize
             r == n % PageSize
  <2>1. q \in Int /\ n = PageSize * q + r /\ r \in 1..(PageSize - 1)
    BY <1>2, UnitsPositive
  <2> HIDE DEF q, r
  <2>2. (q + 1) * PageSize = n - r + PageSize /\ (q + 1) * PageSize \in Int
    BY <2>1, UnitsPositive
  <2>3. ((q + 1) * PageSize) % WordSize = (q + 1) * PageSize
    <3>1. (q + 1) * PageSize >= 0 /\ (q + 1) * PageSize < WordSize
      BY <2>1, <2>2, UnitsPositive
    <3> QED
      BY <2>2, <3>1, ModFits, UnitsPositive
  <2>4. PageAligned(n) = (q + 1) * PageSize
    BY <1>2, <2>3 DEF PageAligned, q
  <2>5. (PageSize * (q + 1)) % PageSize = 0 /\ PageSize * (q + 1) = (q + 1) * PageSize
    BY <2>1, UnitsPositive
  <2> QED
    BY <2>1, <2>2, <2>4, <2>5, UnitsPositive
<1> QED
  BY <1>1, <1>2

\* What is asked of the helpers.
HelpersInput == Helpers!Init \/ in = [op |-> "none"]

\* The helpers are exact for whatever they are asked.
LEMMA HelpersInputExact ==
  ASSUME HelpersInput
  PROVE  HelpersExact
<1>1. ASSUME in.op = "time"
      PROVE  LET e == Elapsed(in.from, in.to)
                 w == WakeTime(in.from, in.to.sec, in.to.part)
             IN  /\ Helpers!Normal(e)
                 /\ Helpers!Ticks(in.from) + Helpers!Ticks(e) = Helpers!Ticks(in.to)
                 /\ Helpers!Normal(w)
                 /\ Helpers!Ticks(w) = Helpers!Ticks(in.from) + Helpers!Ticks(in.to)
  <2>1. in.from \in Helpers!ClockValues /\ in.to \in Helpers!ClockValues
    BY <1>1 DEF HelpersInput, Helpers!Init
  <2>2. /\ in.from \in [sec : Int, part : 0..(Second - 1)]
        /\ in.to \in [sec : Int, part : 0..(Second - 1)]
        /\ in.to.sec \in Int /\ in.to.part \in 0..(Second - 1)
    BY <2>1 DEF Helpers!ClockValues
  <2>3. Helpers!Ticks(in.to) = in.to.sec * Second + in.to.part
    BY DEF Helpers!Ticks
  <2>4. LET e == Elapsed(in.from, in.to)
        IN  /\ Helpers!Normal(e)
            /\ Helpers!Ticks(in.from) + Helpers!Ticks(e) = Helpers!Ticks(in.to)
    BY <2>2, ElapsedExact
  <2>5. LET w == WakeTime(in.from, in.to.sec, in.to.part)
        IN  /\ Helpers!Normal(w)
            /\ Helpers!Ticks(w) = Helpers!Ticks(in.from) + (in.to.sec * Second + in.to.part)
    BY <2>2, WakeTimeExact
  <2> QED
    BY <2>3, <2>4, <2>5
<1>2. ASSUME in.op = "size", in.len <= WordSize - PageSize
      PROVE  LET size == PageAligned(in.len)
             IN  size % PageSize = 0 /\ in.len <= size /\ size < in.len + PageSize
  <2>1. in.len \in Nat
    BY <1>2 DEF HelpersInput, Helpers!Init
  <2> QED
    BY <1>2, <2>1, PageAlignedExact
<1>3. /\ Helpers!Elapsed(in.from, in.to) = Elapsed(in.from, in.to)
      /\ Helpers!WakeTime(in.from, in.to.sec, in.to.part)
           = WakeTime(in.from, in.to.sec, in.to.part)
      /\ Helpers!PageAligned(in.len) = PageAligned(in.len)
  BY DEF Elapsed, WakeTime, PageAligned, Helpers!Elapsed, Helpers!WakeTime,
         Helpers!PageAligned
<1> QED
  BY <1>1, <1>2, <1>3 DEF HelpersExact, Helpers!HelpersExact

\* f_to_fp rounds once, to the nearest: its two integers put together are
\* within half a unit of the last decimal of any number, and the decimals fit
\* their digits.
THEOREM FixedPointNearest ==
  ASSUME NEW num \in Int, NEW den \in Nat \ {0}, NEW prec \in {1, 2}
  PROVE  Helpers!Nearest(Fraction(num, den), prec)
<1>1. 10^prec \in Nat /\ 10^prec > 0
  <2>1. 10^1 \in Nat /\ 10^1 > 0 /\ 10^2 \in Nat /\ 10^2 > 0
    OBVIOUS
  <2> QED
    BY <2>1
<1> DEFINE p == 10^prec
           n == Helpers!Abs(num) * p
           x == 2 * n + den
           d == 2 * den
           r == x \div d
           m == x % d
<1>2. Helpers!Abs(num) \in Nat
  BY DEF Helpers!Abs
<1>3. p \in Nat /\ p > 0
  BY <1>1
<1>4. n \in Nat
  BY <1>2, <1>3
<1> HIDE DEF p, n
<1>5. d \in Nat /\ d > 0 /\ x \in Nat
  BY <1>4
<1> HIDE DEF x, d
<1>6. r \in Nat /\ x = d * r + m /\ m \in 0..(d - 1)
  BY <1>5, QuotientRemainder, QuotientNatural, ModRange
<1> HIDE DEF r, m
<1>7. r = p * (r \div p) + (r % p) /\ r % p \in 0..(p - 1) /\ r \div p \in Int
  BY <1>3, <1>6, QuotientRemainder, ModRange
<1>8. Helpers!FixedPoint(prec, Fraction(num, den)) = [i |-> r \div p, dec |-> r % p]
  BY DEF Helpers!FixedPoint, Helpers!Round, Fraction, p, n, x, d, r
<1>9. (r \div p) * p + (r % p) = r
  BY <1>3, <1>7
<1>10. 2 * (r * den - n) = den - m
  BY <1>4, <1>6 DEF x, d
<1>11. r * den - n \in Int
  BY <1>4, <1>6
<1>12. 2 * Helpers!Abs(r * den - n) <= den
  BY <1>6, <1>10, <1>11 DEF Helpers!Abs, d
<1>13. Fraction(num, den).num = num /\ Fraction(num, den).den = den
  BY DEF Fraction
<1>14. r % p < p
  BY <1>3, <1>7
<1> QED
  BY <1>8, <1>9, <1>12, <1>13, <1>14 DEF Helpers!Nearest, p, n

-----------------------------------------------------------------------------
\* Numbers as text: subsec_string

\* One round of the loop of subsec_string, and the rounds from the first on
After(p, size) ==
    IF p.num < size.den THEN [num |-> 1000 * p.num, unit |-> p.unit + 1] ELSE p
Rounds(size, f) ==
    [k \in 0..6 |-> IF k = 0 THEN [num |-> size.num, unit |-> 0] ELSE After(f[k - 1], size)]

\* There is such a sequence of rounds, so the recursive function of Scaled is
\* one.
LEMMA RoundsExist ==
  ASSUME NEW size
  PROVE  \E f : f = Rounds(size, f)
<1> DEFINE s0 == [num |-> size.num, unit |-> 0]
           s1 == After(s0, size)
           s2 == After(s1, size)
           s3 == After(s2, size)
           s4 == After(s3, size)
           s5 == After(s4, size)
           s6 == After(s5, size)
<1> HIDE DEF s1, s2, s3, s4, s5, s6
<1> DEFINE g == [k \in 0..6 |->
                    IF k = 0 THEN s0 ELSE IF k = 1 THEN s1 ELSE IF k = 2 THEN s2
                    ELSE IF k = 3 THEN s3 ELSE IF k = 4 THEN s4 ELSE IF k = 5 THEN s5 ELSE s6]
<1>1. ASSUME NEW k \in 0..6
      PROVE  g[k] = IF k = 0 THEN s0 ELSE After(g[k - 1], size)
  <2>1. k \in {0, 1, 2, 3, 4, 5, 6}
    OBVIOUS
  <2> QED
    BY <2>1 DEF s1, s2, s3, s4, s5, s6
<1>2. g = [k \in 0..6 |-> IF k = 0 THEN s0 ELSE After(g[k - 1], size)]
  <2> HIDE DEF s0
  <2> QED
    BY <1>1
<1> QED
  BY <1>2 DEF Rounds

\* Scaled is what the sixth round leaves, or nothing.
LEMMA ScaledIsLastRound ==
  ASSUME NEW size
  PROVE  \E g : /\ g = Rounds(size, g)
                /\ Scaled(size) = IF size.num <= 0 \/ g[6].unit >= 6
                                  THEN [num |-> 0, unit |-> 0] ELSE g[6]
<1> DEFINE g == CHOOSE f : f = Rounds(size, f)
<1>1. g = Rounds(size, g)
  BY RoundsExist
<1>2. Scaled(size) = IF size.num <= 0 \/ g[6].unit >= 6
                     THEN [num |-> 0, unit |-> 0] ELSE g[6]
  BY DEF Scaled, Rounds, After
<1> QED
  BY <1>1, <1>2

\* Thousandfold multiplies by 1000 for each unit.
LEMMA ThousandfoldIs ==
  ASSUME NEW n \in Nat
  PROVE  /\ Thousandfold(n, 0) = n
         /\ \A k \in 1..6 : Thousandfold(n, k) = 1000 * Thousandfold(n, k - 1)
<1> DEFINE Times(f) == [j \in 0..6 |-> IF j = 0 THEN n ELSE 1000 * f[j - 1]]
           g == CHOOSE f : f = Times(f)
<1>1. \E f : f = Times(f)
  <2> DEFINE h == [j \in 0..6 |->
                      IF j = 0 THEN n ELSE IF j = 1 THEN 1000 * n
                      ELSE IF j = 2 THEN 1000 * (1000 * n)
                      ELSE IF j = 3 THEN 1000 * (1000 * (1000 * n))
                      ELSE IF j = 4 THEN 1000 * (1000 * (1000 * (1000 * n)))
                      ELSE IF j = 5 THEN 1000 * (1000 * (1000 * (1000 * (1000 * n))))
                      ELSE 1000 * (1000 * (1000 * (1000 * (1000 * (1000 * n)))))]
  <2>1. ASSUME NEW k \in 0..6
        PROVE  h[k] = IF k = 0 THEN n ELSE 1000 * h[k - 1]
    <3>1. k \in {0, 1, 2, 3, 4, 5, 6}
      OBVIOUS
    <3> QED
      BY <3>1
  <2>2. h = Times(h)
    BY <2>1
  <2> QED
    BY <2>2
<1>2. g = Times(g)
  BY <1>1
<1>3. \A k \in 0..6 : Thousandfold(n, k) = g[k]
  BY DEF Thousandfold
<1> HIDE DEF g
<1>4. g[0] = n /\ \A k \in 1..6 : g[k] = 1000 * g[k - 1]
  BY <1>2
<1> QED
  BY <1>3, <1>4

\* Its values are numbers, and grow with the number.
LEMMA ThousandfoldNat ==
  ASSUME NEW n \in Nat
  PROVE  /\ \A k \in 0..6 : Thousandfold(n, k) \in Nat
         /\ Thousandfold(n, 5) = 1000 * (1000 * (1000 * (1000 * (1000 * n))))
<1>1. /\ Thousandfold(n, 0) = n /\ Thousandfold(n, 1) = 1000 * Thousandfold(n, 0)
      /\ Thousandfold(n, 2) = 1000 * Thousandfold(n, 1)
      /\ Thousandfold(n, 3) = 1000 * Thousandfold(n, 2)
      /\ Thousandfold(n, 4) = 1000 * Thousandfold(n, 3)
      /\ Thousandfold(n, 5) = 1000 * Thousandfold(n, 4)
      /\ Thousandfold(n, 6) = 1000 * Thousandfold(n, 5)
  BY ThousandfoldIs
<1>2. \A k \in 0..6 : k \in {0, 1, 2, 3, 4, 5, 6}
  OBVIOUS
<1>3. /\ Thousandfold(n, 0) \in Nat /\ Thousandfold(n, 1) \in Nat /\ Thousandfold(n, 2) \in Nat
      /\ Thousandfold(n, 3) \in Nat /\ Thousandfold(n, 4) \in Nat /\ Thousandfold(n, 5) \in Nat
      /\ Thousandfold(n, 6) \in Nat
  BY <1>1
<1> QED
  BY <1>1, <1>2, <1>3

\* The loop of subsec_string stops at the first unit in which the number is at
\* least 1, where it is below 1000; or the units are used up, for a number
\* below 1 fs.
LEMMA ScaledMeans ==
  ASSUME NEW num \in Nat \ {0}, NEW den \in Nat \ {0}
  PROVE  LET s == Scaled(Fraction(num, den))
         IN  \/ /\ s.unit \in 0..5 /\ s.num = Thousandfold(num, s.unit) /\ s.num \in Nat
                /\ s.num >= den /\ (s.unit > 0 => s.num < 1000 * den)
             \/ s = [num |-> 0, unit |-> 0] /\ Thousandfold(num, 5) < den
<1> DEFINE size == Fraction(num, den)
<1>1. size.num = num /\ size.den = den /\ ~(size.num <= 0)
  BY DEF Fraction
<1> HIDE DEF size
<1>2. PICK g : /\ g = Rounds(size, g)
               /\ Scaled(size) = IF size.num <= 0 \/ g[6].unit >= 6
                                 THEN [num |-> 0, unit |-> 0] ELSE g[6]
  BY ScaledIsLastRound
<1> DEFINE Scale(k) ==
      /\ g[k].unit \in 0..k /\ g[k].num = Thousandfold(num, g[k].unit) /\ g[k].num \in Nat
      /\ g[k].unit > 0 => g[k].num < 1000 * den
      /\ g[k].num >= den \/ g[k].unit = k
<1>3. g[0] = [num |-> num, unit |-> 0] /\ \A k \in 0..5 : g[k + 1] = After(g[k], size)
  BY <1>1, <1>2 DEF Rounds
<1>4. Scale(0)
  BY <1>3, ThousandfoldIs
<1>5. ASSUME NEW k \in 0..5, Scale(k)
      PROVE  Scale(k + 1)
  <2>1. g[k + 1] = After(g[k], size)
    BY <1>3
  <2>2. CASE g[k].num >= den
    <3>1. g[k + 1] = g[k]
      BY <1>1, <1>5, <2>1, <2>2 DEF After
    <3> QED
      BY <1>5, <2>2, <3>1
  <2>3. CASE g[k].num < den
    <3>1. g[k].unit = k
      BY <1>5, <2>3
    <3>2. g[k + 1].num = 1000 * g[k].num /\ g[k + 1].unit = k + 1
      BY <1>1, <2>1, <2>3, <3>1 DEF After
    <3>3. k + 1 \in 1..6 /\ (k + 1) - 1 = k
      OBVIOUS
    <3>4. Thousandfold(num, k + 1) = 1000 * Thousandfold(num, k)
      BY <3>3, ThousandfoldIs
    <3> QED
      BY <1>5, <2>3, <3>1, <3>2, <3>4
  <2> QED
    BY <1>5, <2>2, <2>3
<1> HIDE DEF Scale
<1>6. Scale(1) /\ Scale(2) /\ Scale(3)
  <2>1. Scale(0 + 1)
    BY <1>4, <1>5
  <2>2. Scale(1 + 1)
    BY <1>5, <2>1
  <2>3. Scale(2 + 1)
    BY <1>5, <2>2
  <2> QED
    BY <2>1, <2>2, <2>3
<1>7. Scale(6)
  <2>1. Scale(3 + 1)
    BY <1>5, <1>6
  <2>2. Scale(4 + 1)
    BY <1>5, <2>1
  <2>3. Scale(5 + 1)
    BY <1>5, <2>2
  <2> QED
    BY <2>3
<1>8. CASE g[6].unit >= 6
  <2>1. g[6].unit = 6 /\ g[6].num < 1000 * den /\ g[6].num = Thousandfold(num, 6)
    BY <1>7, <1>8 DEF Scale
  <2>2. Thousandfold(num, 6) = 1000 * Thousandfold(num, 5) /\ Thousandfold(num, 5) \in Nat
    BY ThousandfoldIs, ThousandfoldNat
  <2>3. Thousandfold(num, 5) < den
    BY <2>1, <2>2
  <2> QED
    BY <1>2, <1>8, <2>3 DEF size
<1>9. CASE ~(g[6].unit >= 6)
  <2>1. Scaled(size) = g[6]
    BY <1>1, <1>2, <1>9
  <2>2. g[6].unit \in 0..5 /\ g[6].num >= den
    BY <1>7, <1>9 DEF Scale
  <2> QED
    BY <1>7, <2>1, <2>2 DEF size, Scale
<1> QED
  BY <1>8, <1>9

\* A number below 1000 has no more than three digits before the point.
Below1000(n, d) == n < 1000 * d

\* Its integer part, and the comparison that decides on the second digit.
LEMMA IntegerPart ==
  ASSUME NEW n \in Nat, NEW d \in Nat \ {0}, Below1000(n, d)
  PROVE  n \div d \in 0..999 /\ (n >= 10 * d <=> n \div d >= 10)
<1> DEFINE q == n \div d
           m == n % d
<1>1. q \in Nat /\ n = d * q + m /\ m \in 0..(d - 1)
  BY QuotientRemainder, QuotientNatural, ModRange
<1> HIDE DEF q, m
<1>2. q \in 0..999
  <2>1. q >= 1000 => d * q >= d * 1000
    BY <1>1
  <2> QED
    BY <1>1, <2>1 DEF Below1000
<1>3. n >= 10 * d <=> q >= 10
  <2>1. q >= 10 => d * q >= d * 10
    BY <1>1
  <2>2. q <= 9 => d * q <= d * 9
    BY <1>1
  <2> QED
    BY <1>1, <2>1, <2>2
<1> QED
  BY <1>2, <1>3 DEF q

\* The three digits before the point are those of the integer part.
LEMMA DigitsAre ==
  ASSUME NEW n \in Nat, NEW d \in Nat \ {0}, Below1000(n, d)
  PROVE  Digits(Fraction(n, d), n \div d) = n \div d
<1> DEFINE q == n \div d
<1>1. q \in 0..999 /\ (n >= 10 * d <=> q >= 10)
  BY IntegerPart
<1> HIDE DEF q
<1>2. (IF q >= 100 THEN 100 * ((q \div 100) % 10) ELSE 0)
        + (IF q >= 10 THEN 10 * ((q \div 10) % 10) ELSE 0) + (q % 10) = q
  BY <1>1
<1>3. Digits(Fraction(n, d), q) = q
  BY <1>1, <1>2 DEF Digits, Fraction
<1> QED
  BY <1>3 DEF q

\* What subsec_string's loop leaves is printed true to the last digit, unless
\* rounding carries.
LEMMA DigitsRead ==
  ASSUME NEW n \in Nat, NEW d \in Nat \ {0}, Below1000(n, d), NEW dec \in {1, 2},
         FixedPoint(dec, Fraction(n, d)).i = n \div d
  PROVE  LET int == Digits(Fraction(n, d), FixedPoint(dec, Fraction(n, d)).i)
             frac == ((n % d) * 10^dec) \div d
         IN  /\ int = n \div d
             /\ n * 10^dec - (int * 10^dec + frac) * d \in 0..(d - 1)
<1>1. PICK p \in {10, 100} : p = 10^dec
  <2>1. 10^1 = 10 /\ 10^2 = 100
    OBVIOUS
  <2> QED
    BY <2>1
<1> DEFINE q == n \div d
           m == n % d
           y == m * p
           f == y \div d
           r == y % d
<1>2. q \in Nat /\ n = d * q + m /\ m \in 0..(d - 1)
  BY QuotientRemainder, QuotientNatural, ModRange
<1>3. Digits(Fraction(n, d), q) = q
  BY DigitsAre, Zenon
<1> HIDE DEF q, m
<1>4. y \in Nat
  BY <1>1, <1>2
<1> HIDE DEF y
<1>5. f \in Nat /\ y = d * f + r /\ r \in 0..(d - 1)
  BY <1>4, QuotientRemainder, QuotientNatural, ModRange
<1> HIDE DEF f, r
<1>6. n * p - (q * p + f) * d = r
  <2>1. p = 10 \/ p = 100
    BY <1>1
  <2>2. d * q \in Nat /\ d * f \in Nat
    BY <1>2, <1>5
  <2>3. (q * p + f) * d = p * (d * q) + d * f
    BY <1>2, <1>5, <2>1
  <2>4. n * p = p * (d * q) + y
    BY <1>2, <2>1, <2>2 DEF y
  <2> QED
    BY <1>4, <1>5, <2>1, <2>2, <2>3, <2>4
<1> QED
  BY <1>1, <1>3, <1>5, <1>6 DEF q, m, f, y

\* What is left of nothing is printed as 0.
LEMMA ZeroReads ==
  ASSUME NEW d \in Nat \ {0}, NEW dec \in {1, 2}
  PROVE  /\ FixedPoint(dec, Fraction(0, d)).i = 0 \div d /\ 0 \div d = 0
         /\ Digits(Fraction(0, d), FixedPoint(dec, Fraction(0, d)).i) = 0
         /\ ((0 % d) * 10^dec) \div d = 0
<1>1. PICK p \in {10, 100} : p = 10^dec
  <2>1. 10^1 = 10 /\ 10^2 = 100
    OBVIOUS
  <2> QED
    BY <2>1
<1>2. 0 \div d = 0 /\ 0 % d = 0 /\ 0 \div p = 0
  <2>1. \A e \in Nat \ {0} : 0 \div e = 0 /\ 0 % e = 0
    OBVIOUS
  <2> QED
    BY <1>1, <2>1
<1>3. Round(0, d) = 0
  <2>1. Round(0, d) = d \div (2 * d)
    BY DEF Round
  <2>2. d \div (2 * d) \in Nat /\ d = (2 * d) * (d \div (2 * d)) + (d % (2 * d))
        /\ d % (2 * d) \in 0..(2 * d - 1)
    BY QuotientRemainder, QuotientNatural, ModRange
  <2>3. ASSUME NEW k \in Nat, NEW s \in Nat, d = (2 * d) * k + s
        PROVE  k = 0
    <3>1. k >= 1 => (2 * d) * k >= 2 * d
      OBVIOUS
    <3> QED
      BY <2>3, <3>1
  <2> QED
    BY <2>1, <2>2, <2>3
<1>4. FixedPoint(dec, Fraction(0, d)).i = 0
  <2>1. Abs(0) * p = 0
    BY <1>1 DEF Abs
  <2> QED
    BY <1>1, <1>2, <1>3, <2>1 DEF FixedPoint, Fraction
<1>5. Digits(Fraction(0, d), 0) = 0
  BY DEF Digits, Fraction
<1>6. 0 * p = 0
  BY <1>1
<1> QED
  BY <1>1, <1>2, <1>4, <1>5, <1>6

\* Rounding does not carry into the integer part (NoCarry of MCUnits and of
\* Report).
DoesNotCarry(size, dec) ==
    FixedPoint(dec, Fraction(Scaled(size).num, size.den)).i = Scaled(size).num \div size.den

\* One to three digits are before the point.
ThreeDigits(t) == t.int \in 1..999

\* subsec_string is true to its last digit for every positive time below
\* 1000 s, unless rounding carries into the integer part; from 1 fs on, one to
\* three digits are before the point.
THEOREM SubsecTrue ==
  ASSUME NEW num \in Nat \ {0}, NEW den \in Nat \ {0}, Below1000(num, den), NEW dec \in {1, 2},
         DoesNotCarry(Fraction(num, den), dec)
  PROVE  LET t == Subsec(Fraction(num, den), dec)
         IN  /\ ReadsAs(t, Fraction(num, den), dec)
             /\ den <= Thousandfold(num, 5) => ThreeDigits(t)
<1> DEFINE size == Fraction(num, den)
           s == Scaled(size)
           t == Subsec(size, dec)
           x == Fraction(s.num, den)
           p == 10^dec
<1>1. size.num = num /\ size.den = den /\ x.num = s.num /\ x.den = den
  BY DEF Fraction
<1>2. p \in {10, 100}
  <2>1. 10^1 = 10 /\ 10^2 = 100
    OBVIOUS
  <2> QED
    BY <2>1
<1>3. t = [text |-> "number", int |-> Digits(x, FixedPoint(dec, x).i),
           frac |-> ((s.num % den) * p) \div den, unit |-> s.unit]
  BY <1>1 DEF Subsec
<1>4. FixedPoint(dec, x).i = s.num \div den
  BY <1>1 DEF DoesNotCarry
<1>5. \/ /\ s.unit \in 0..5 /\ s.num = Thousandfold(num, s.unit) /\ s.num \in Nat
         /\ s.num >= den /\ (s.unit > 0 => s.num < 1000 * den)
      \/ s = [num |-> 0, unit |-> 0] /\ Thousandfold(num, 5) < den
  BY ScaledMeans
<1>6. ReadsAs(t, size, dec) <=>
        /\ Thousandfold(num, t.unit) * p - (t.int * p + t.frac) * den < den
        /\ (t.int * p + t.frac) * den - Thousandfold(num, t.unit) * p < den
  BY <1>1, <1>3 DEF ReadsAs
<1>7. Thousandfold(num, 0) = num /\ \A k \in 0..6 : Thousandfold(num, k) \in Nat
  BY ThousandfoldIs, ThousandfoldNat
<1> HIDE DEF size, s, t, p
<1>8. ASSUME s.unit \in 0..5, s.num = Thousandfold(num, s.unit), s.num \in Nat,
             s.num >= den, s.unit > 0 => s.num < 1000 * den
      PROVE  ReadsAs(t, size, dec) /\ ThreeDigits(t)
  <2>1. s.num < 1000 * den
    BY <1>7, <1>8 DEF Below1000
  <2>2. t.int = s.num \div den /\ t.unit = s.unit
        /\ s.num * p - (t.int * p + t.frac) * den \in 0..(den - 1)
    <3>1. PICK n \in Nat : n = s.num
      BY <1>8
    <3>2. Below1000(n, den) /\ FixedPoint(dec, Fraction(n, den)).i = n \div den
      BY <1>4, <2>1, <3>1 DEF Below1000
    <3>3. LET int == Digits(Fraction(n, den), FixedPoint(dec, Fraction(n, den)).i)
              frac == ((n % den) * 10^dec) \div den
          IN  /\ int = n \div den
              /\ n * 10^dec - (int * 10^dec + frac) * den \in 0..(den - 1)
      BY <3>2, DigitsRead
    <3>4. /\ t.int = Digits(Fraction(n, den), FixedPoint(dec, Fraction(n, den)).i)
          /\ t.frac = ((n % den) * 10^dec) \div den /\ t.unit = s.unit
      BY <1>3, <3>1 DEF p
    <3> QED
      BY <3>1, <3>3, <3>4 DEF p
  <2>3. s.num \div den \in 0..999
    <3>1. PICK n \in Nat : n = s.num
      BY <1>8
    <3>2. Below1000(n, den)
      BY <2>1, <3>1 DEF Below1000
    <3>3. n \div den \in 0..999
      BY <3>2, IntegerPart
    <3> QED
      BY <3>1, <3>3
  <2>4. s.num \div den # 0
    <3>1. PICK n \in Nat : n = s.num
      BY <1>8
    <3>2. n = den * (n \div den) + (n % den) /\ n % den \in 0..(den - 1)
      BY QuotientRemainder, ModRange
    <3> QED
      BY <1>8, <3>1, <3>2
  <2>5. t.frac \in Int
    <3>1. (s.num % den) * p \in Nat
      BY <1>2, <1>8, ModRange
    <3>2. t.frac = ((s.num % den) * p) \div den
      BY <1>3
    <3> QED
      BY <3>1, <3>2, QuotientNatural
  <2>6. s.num * p \in Int /\ (t.int * p + t.frac) * den \in Int
    <3>1. p \in Int /\ t.int \in Int
      BY <1>2, <2>2, <2>3
    <3>2. s.num * p \in Int /\ t.int * p \in Int
      BY <1>8, <3>1
    <3>3. t.int * p + t.frac \in Int
      BY <2>5, <3>2
    <3> QED
      BY <3>2, <3>3
  <2> HIDE DEF x
  <2> QED
    BY <1>6, <1>8, <2>2, <2>3, <2>4, <2>6 DEF ThreeDigits
<1>9. ASSUME s = [num |-> 0, unit |-> 0], Thousandfold(num, 5) < den
      PROVE  ReadsAs(t, size, dec)
  <2>1. t.int = 0 /\ t.frac = 0 /\ t.unit = 0
    <3>1. s.num = 0 /\ s.unit = 0
      BY <1>9
    <3> QED
      BY <1>3, <3>1, ZeroReads DEF p
  <2>2. num * p < den
    <3>1. 1000 * (1000 * (1000 * (1000 * (1000 * num)))) < den
      BY <1>9, ThousandfoldNat
    <3> QED
      BY <1>2, <3>1
  <2> QED
    BY <1>2, <1>6, <1>7, <2>1, <2>2
<1> QED
  BY <1>5, <1>7, <1>8, <1>9 DEF size, t

\* The helpers and the rows print with the same subsec_string.
LEMMA SameSubsec ==
  ASSUME NEW size, NEW dec
  PROVE  /\ Helpers!Subsec(size, dec) = Subsec(size, dec)
         /\ Helpers!NoCarry(size, dec) <=> DoesNotCarry(size, dec)
         /\ Rows!Subsec(size, dec) = Subsec(size, dec)
         /\ Rows!NoCarry(size, dec) <=> DoesNotCarry(size, dec)
<1>1. Helpers!Scaled(size) = Scaled(size) /\ Rows!Scaled(size) = Scaled(size)
  BY DEF Helpers!Scaled, Rows!Scaled, Scaled
<1>2. ASSUME NEW x
      PROVE  /\ Helpers!FixedPoint(dec, x) = FixedPoint(dec, x)
             /\ Rows!FixedPoint(dec, x) = FixedPoint(dec, x)
  BY DEF Helpers!FixedPoint, Rows!FixedPoint, FixedPoint, Helpers!Round, Rows!Round, Round,
         Helpers!Abs, Rows!Abs, Abs
<1>3. ASSUME NEW x, NEW i
      PROVE  Helpers!Digits(x, i) = Digits(x, i) /\ Rows!Digits(x, i) = Digits(x, i)
  BY DEF Helpers!Digits, Rows!Digits, Digits
<1>4. ASSUME NEW n, NEW d
      PROVE  Helpers!Fraction(n, d) = Fraction(n, d) /\ Rows!Fraction(n, d) = Fraction(n, d)
  BY DEF Helpers!Fraction, Rows!Fraction, Fraction
<1>5. Helpers!Subsec(size, dec) = Subsec(size, dec)
  BY <1>1, <1>2, <1>3, <1>4 DEF Helpers!Subsec, Subsec
<1>6. Rows!Subsec(size, dec) = Subsec(size, dec)
  BY <1>1, <1>2, <1>3, <1>4 DEF Rows!Subsec, Subsec
<1>7. Helpers!NoCarry(size, dec) <=> DoesNotCarry(size, dec)
  BY <1>1, <1>2, <1>4 DEF Helpers!NoCarry, DoesNotCarry
<1>8. Rows!NoCarry(size, dec) <=> DoesNotCarry(size, dec)
  BY <1>1, <1>2, <1>4 DEF Rows!NoCarry, DoesNotCarry, Fraction
<1> QED
  BY <1>5, <1>6, <1>7, <1>8

\* And they mean the same by what a text reads as.
LEMMA SameReading ==
  ASSUME NEW t, NEW size, NEW dec
  PROVE  /\ Helpers!ReadsAs(t, size, dec) <=> ReadsAs(t, size, dec)
         /\ Rows!ReadsAs(t, size, dec) <=> ReadsAs(t, size, dec)
<1>1. ASSUME NEW n, NEW k
      PROVE  /\ Helpers!Thousandfold(n, k) = Thousandfold(n, k)
             /\ Rows!Thousandfold(n, k) = Thousandfold(n, k)
  BY DEF Helpers!Thousandfold, Rows!Thousandfold, Thousandfold
<1>2. Helpers!ReadsAs(t, size, dec) <=> ReadsAs(t, size, dec)
  BY <1>1 DEF Helpers!ReadsAs, ReadsAs
<1>3. Rows!ReadsAs(t, size, dec) <=> ReadsAs(t, size, dec)
  BY <1>1 DEF Rows!ReadsAs, ReadsAs
<1> QED
  BY <1>2, <1>3

\* The denominators of times whose smallest positive multiple is 1 fs or more
FromOneFs == \A d \in Dens : d \in Nat /\ d <= 1000 * (1000 * (1000 * (1000 * 1000)))

\* f_to_fp and subsec_string are right for every number they are asked.
LEMMA TextInputTrue ==
  ASSUME HelpersInput, FromOneFs
  PROVE  TextTrue
<1> SUFFICES ASSUME in.op = "text"
             PROVE  LET size == in.size
                        t == Helpers!Subsec(size, in.dec)
                    IN  /\ size.den > 0 => Helpers!Nearest(size, in.dec)
                        /\ size.den = 0 => t.text = "infinite"
                        /\ size.den > 0 /\ size.num > 0 /\ size.num < 1000 * size.den
                            /\ Helpers!NoCarry(size, in.dec)
                             => Helpers!ReadsAs(t, size, in.dec) /\ t.int \in 1..999
                        /\ size.den > 0 /\ size.num <= 0 =>
                             t = [text |-> "number", int |-> 0, frac |-> 0, unit |-> 0]
  BY DEF TextTrue, Helpers!TextTrue
<1>1. in \in [op : {"text"}, size : [num : -2..MaxNum, den : Dens], dec : {1, 2}]
  BY DEF HelpersInput, Helpers!Init
<1>2. PICK num \in Int, den \in Dens, dec \in {1, 2} : in.size = Fraction(num, den) /\ in.dec = dec
  <2>1. in.size \in [num : -2..MaxNum, den : Dens] /\ in.dec \in {1, 2}
    BY <1>1
  <2>2. in.size = Fraction(in.size.num, in.size.den) /\ in.size.num \in Int /\ in.size.den \in Dens
    BY <2>1 DEF Fraction
  <2> QED
    BY <2>1, <2>2
<1> DEFINE size == Fraction(num, den)
           t == Subsec(size, dec)
<1>3. /\ den \in Nat /\ den <= 1000 * (1000 * (1000 * (1000 * 1000)))
      /\ size.num = num /\ size.den = den
  BY DEF FromOneFs, Fraction
<1>4. ASSUME den > 0
      PROVE  Helpers!Nearest(size, dec)
  BY <1>3, <1>4, FixedPointNearest
<1>5. ASSUME den = 0
      PROVE  t.text = "infinite"
  BY <1>3, <1>5 DEF Subsec
<1>6. ASSUME den > 0, num > 0, num < 1000 * den, DoesNotCarry(size, dec)
      PROVE  ReadsAs(t, size, dec) /\ t.int \in 1..999
  <2>1. Thousandfold(num, 5) = 1000 * (1000 * (1000 * (1000 * (1000 * num))))
    BY <1>6, ThousandfoldNat
  <2>2. den <= Thousandfold(num, 5)
    BY <1>3, <1>6, <2>1
  <2>3. num \in Nat \ {0} /\ den \in Nat \ {0} /\ Below1000(num, den)
    BY <1>3, <1>6 DEF Below1000
  <2>4. /\ ReadsAs(t, size, dec)
        /\ den <= Thousandfold(num, 5) => ThreeDigits(t)
    BY <1>6, <2>3, SubsecTrue, Zenon
  <2> QED
    BY <2>2, <2>4 DEF ThreeDigits
<1>7. ASSUME den > 0, num <= 0
      PROVE  t = [text |-> "number", int |-> 0, frac |-> 0, unit |-> 0]
  <2>1. Scaled(size) = [num |-> 0, unit |-> 0]
    BY <1>3, <1>7, ScaledIsLastRound
  <2>2. /\ Digits(Fraction(0, den), FixedPoint(dec, Fraction(0, den)).i) = 0
        /\ ((0 % den) * 10^dec) \div den = 0
    BY <1>3, <1>7, ZeroReads
  <2>3. Fraction(0, den).num = 0 /\ Fraction(0, den).den = den
    BY DEF Fraction
  <2> HIDE DEF size
  <2> QED
    BY <1>3, <1>7, <2>1, <2>2, <2>3 DEF Subsec
<1>8. /\ Helpers!Subsec(size, dec) = t
      /\ Helpers!NoCarry(size, dec) <=> DoesNotCarry(size, dec)
      /\ Helpers!ReadsAs(t, size, dec) <=> ReadsAs(t, size, dec)
  BY SameSubsec, SameReading
<1> HIDE DEF size, t
<1> QED
  BY <1>2, <1>3, <1>4, <1>5, <1>6, <1>7, <1>8 DEF size

-----------------------------------------------------------------------------
\* The columns of the rows and of the totals

\* What show_periodic_stats and output_final_stats compute from the time and
\* the volleys of a row.
Computed(r) ==
    /\ r.lasted \in Nat \ {0} /\ r.volleys \in Nat
    /\ r.cycle = Rows!Subsec(Rows!CycleTime(r.lasted, r.volleys), 2)
    /\ r.rate = Rows!Rate(r.lasted, r.volleys)

ColumnsOK ==
    /\ row # Rows!NoRow => Computed(row)
    /\ total # Rows!NoRow => Computed(total)

\* Each step that prints computes the columns from a time that has passed and
\* the volleys played in it.
LEMMA ColumnsNext == RowsInv /\ ColumnsOK /\ [Rows!Next]_rowsVars => ColumnsOK'
<1> SUFFICES ASSUME RowsInv, ColumnsOK, [Rows!Next]_rowsVars PROVE ColumnsOK'
  OBVIOUS
<1> USE DEF Rows!output
<1>1. /\ clock \in Nat /\ volleys \in Nat /\ lastTime \in 0..clock /\ lastCount \in 0..volleys
  BY RowsConstants DEF RowsInv, Rows!TypeOK
<1>2. UNCHANGED <<row, total>> => ColumnsOK'
  BY DEF ColumnsOK, Computed
<1>3. ASSUME NEW ends \in SUBSET Rows!Threads, Rows!ShowPeriodic(ends) PROVE ColumnsOK'
  <2>1. CASE UNCHANGED <<row, total>>
    BY <1>2, <2>1
  <2>2. CASE row' = Rows!Row /\ UNCHANGED total
    <3>1. clock > lastTime
      BY <1>3 DEF Rows!ShowPeriodic
    <3>2. /\ row'.lasted = clock - lastTime /\ row'.volleys = volleys - lastCount
          /\ row'.cycle = Rows!Subsec(Rows!CycleTime(row'.lasted, row'.volleys), 2)
          /\ row'.rate = Rows!Rate(row'.lasted, row'.volleys)
      BY <2>2 DEF Rows!Row, Rows!IntervalTime, Rows!IntervalCount
    <3>3. row'.lasted \in Nat \ {0} /\ row'.volleys \in Nat
      BY <1>1, <3>1, <3>2
    <3>4. Computed(row')
      BY <3>2, <3>3 DEF Computed
    <3> QED
      BY <2>2, <3>4 DEF ColumnsOK
  <2> QED
    BY <1>3, <2>1, <2>2 DEF Rows!ShowPeriodic
<1>4. CASE Rows!FinalStats
  <2>1. total' = Rows!Total /\ row' = row /\ clock > 0
    BY <1>4 DEF Rows!FinalStats
  <2>2. /\ total'.lasted = clock /\ total'.volleys = volleys
        /\ total'.cycle = Rows!Subsec(Rows!CycleTime(total'.lasted, total'.volleys), 2)
        /\ total'.rate = Rows!Rate(total'.lasted, total'.volleys)
    BY <2>1 DEF Rows!Total
  <2>3. total'.lasted \in Nat \ {0} /\ total'.volleys \in Nat
    BY <1>1, <2>1, <2>2
  <2>4. Computed(total')
    BY <2>2, <2>3 DEF Computed
  <2> QED
    BY <2>1, <2>4 DEF ColumnsOK
<1>5. CASE \/ \E d \in Steps, v \in 0..2, s \in [Rows!Threads -> 0..1] : Rows!Play(d, v, s)
           \/ \E n \in Rows!Threads : Rows!ThreadEnds(n) \/ Rows!ChildReaped(n)
           \/ Rows!ChildMarked \/ Rows!ChildStops \/ Rows!StopThreads \/ Rows!Done
           \/ UNCHANGED rowsVars
  <2>1. UNCHANGED <<row, total>>
    BY <1>5 DEF Rows!Play, Rows!ThreadEnds, Rows!ChildReaped, Rows!ChildMarked,
                Rows!ChildStops, Rows!StopThreads, Rows!Done, Rows!vars, rowsVars
  <2> QED
    BY <1>2, <2>1
<1> QED
  BY <1>3, <1>4, <1>5 DEF Rows!Next

\* Columns so computed agree with the time and the volleys.
LEMMA ComputedAgrees ==
  ASSUME NEW r, Computed(r)
  PROVE  Rows!Columns(r, r.lasted, r.volleys)
<1>1. PICK time \in Nat \ {0}, played \in Nat : time = r.lasted /\ played = r.volleys
  BY DEF Computed
<1> DEFINE den == played * PerSecond
           size == Fraction(time, den)
<1>2. PerSecond \in Nat \ {0}
  BY RowsAssumption DEF RowsAssumption, Rows!ReportConstants
<1>3. Rows!CycleTime(time, played) = size
  BY DEF Rows!CycleTime, Rows!Fraction, Fraction
<1>4. r.cycle = Subsec(size, 2) /\ r.rate = den \div time
  BY <1>1, <1>3, SameSubsec DEF Computed, Rows!Rate
<1>5. den \in Nat /\ (played = 0 => den = 0) /\ (played > 0 => den > 0)
  BY <1>2
<1>6. size.num = time /\ size.den = den
  BY DEF Fraction
<1> HIDE DEF den
<1>7. played = 0 => r.cycle.text = "infinite" /\ r.rate = 0
  <2>1. 0 \div time = 0
    OBVIOUS
  <2> QED
    BY <1>4, <1>5, <1>6, <2>1 DEF Subsec
<1>8. r.rate * time <= den
  <2>1. /\ den \div time \in Nat /\ den = time * (den \div time) + (den % time)
        /\ den % time \in 0..(time - 1)
    BY <1>5, QuotientRemainder, QuotientNatural, ModRange
  <2> QED
    BY <1>4, <1>5, <2>1
<1>9. ASSUME played > 0, time < 1000 * played * PerSecond, Rows!NoCarry(size, 2)
      PROVE  Rows!ReadsAs(r.cycle, size, 2)
  <2>1. den \in Nat \ {0} /\ Below1000(time, den)
    <3>1. 1000 * played * PerSecond = 1000 * den
      BY <1>2 DEF den
    <3> QED
      BY <1>5, <1>9, <3>1 DEF Below1000
  <2>2. DoesNotCarry(size, 2)
    BY <1>9, SameSubsec
  <2>3. 2 \in {1, 2}
    OBVIOUS
  <2>4. ReadsAs(Subsec(size, 2), size, 2)
    BY <2>1, <2>2, <2>3, SubsecTrue, Zenon
  <2> QED
    BY <1>4, <2>4, SameReading
<1> HIDE DEF size
<1> QED
  BY <1>1, <1>3, <1>7, <1>8, <1>9 DEF Rows!Columns, den

-----------------------------------------------------------------------------
\* SchedTable: the walk over the two copies of /proc/self/sched

LineShapes == {"head", "dashes", "interesting", "boring", "bare", "indented", "blank"}
LineKeys == {"prefix", "empty", "program", "ping_thread", "pong_thread", "full"}
LineType == [n : Nat, key : LineKeys, seps : 0..2, value : {"whole", "part", "none"}]

\* The lines of the rows printed so far
PrintedLines == {rows[i][1].n : i \in DOMAIN rows}

\* What read_sched_proc has left in the two copies.
CopiesOK ==
    /\ layout \in Seq(LineShapes) /\ Len(layout) >= 2
    /\ layout[1] = "head" /\ layout[2] = "dashes"
    /\ len \in [Table!Threads -> 0..Len(layout)]
    /\ cut \in [Table!Threads -> {"whole", "key", "separators", "value"}]
    /\ \A t \in Table!Threads : cut[t] # "whole" => len[t] > 2

\* The tokens are lines of the copies, and the same line while both copies have
\* one.
TokensOK ==
    /\ tok \in [Table!Threads -> Nat]
    /\ \A t \in Table!Threads : tok[t] <= len[t]
    /\ Table!HasLine => tok[0] = tok[1]

\* An entry is filled at most for each line that the walk has left behind, but
\* for none of the heading's.
EntriesOK ==
    /\ line_count \in Nat
    /\ pc = "count" => line_count = 0
    /\ pc # "count" => sched_lines = Table!CountSchedLines(0)
    /\ pc = "lines" /\ Table!HasLine =>
         (line_count = 0 \/ (tok[0] > 3 /\ line_count <= tok[0] - 3))

\* The rows are the lines to be shown that the walk has left behind: all of
\* them, once one of the copies has no more lines.
PrintedOK ==
    /\ pc = "count" => rows = <<>>
    /\ pc = "lines" /\ Table!HasLine => PrintedLines = {m \in Table!Shown : m < tok[0]}
    /\ pc = "lines" /\ ~Table!HasLine => PrintedLines = Table!Shown
    /\ pc = "done" => PrintedLines = Table!Shown

\* A row has the same line twice, later rows have later lines, and only the
\* last line of a copy can be cut.
OrderOK ==
    /\ rows \in Seq(LineType \X LineType)
    /\ \A i \in DOMAIN rows :
         /\ rows[i][1].n = rows[i][2].n
         /\ rows[i][1].n <= len[0] /\ rows[i][1].n <= len[1]
         /\ rows[i][1].value # "whole" => rows[i][1].n = len[0]
         /\ rows[i][2].value # "whole" => rows[i][1].n = len[1]
    /\ \A i, j \in DOMAIN rows : i < j => rows[i][1].n < rows[j][1].n

TableData ==
    /\ pc \in {"count", "lines", "done"}
    /\ CopiesOK /\ TokensOK /\ EntriesOK /\ PrintedOK /\ OrderOK

TableInv == TableIdle \/ TableData

\* A relation on the numbers that is well-founded and has every y < x gives
\* every set of numbers that is not empty a least one.
LEMMA LeastExists ==
  ASSUME NEW R, IsWellFoundedOn(R, Nat), \A x, y \in Nat : y < x => <<y, x>> \in R,
         NEW S, S \subseteq Nat, S # {}
  PROVE  \E x \in S : \A y \in S : x <= y
<1>1. PICK x \in S : \A y \in S : ~(<<y, x>> \in R)
  BY WFMin
<1>2. ASSUME NEW y \in S
      PROVE  x <= y
  <2>1. x \in Nat /\ y \in Nat
    OBVIOUS
  <2>2. y < x => <<y, x>> \in R
    BY <2>1, Zenon
  <2>3. ~(y < x)
    BY <1>1, <2>2, Zenon
  <2> QED
    BY <2>1, <2>3
<1> QED
  BY <1>2

\* A set of numbers that is not empty has a least one, which Min chooses.
LEMMA MinIsLeast ==
  ASSUME NEW S, S \subseteq Nat, S # {}
  PROVE  Table!Min(S) \in S /\ \A y \in S : Table!Min(S) <= y
<1>1. \A x, y \in Nat : y < x => <<y, x>> \in OpToRel(<, Nat)
  BY DEF OpToRel
<1>2. \E x \in S : \A y \in S : x <= y
  BY <1>1, NatLessThanWellFounded, LeastExists
<1> QED
  BY <1>2 DEF Table!Min

\* strtok_r returns the next line that has characters, if there is one.
LEMMA NextLineIs ==
  ASSUME NEW t \in Table!Threads, NEW n \in Nat, len[t] \in Nat
  PROVE  LET m == Table!NextLine(t, n)
         IN  \/ m = 0 /\ \A k \in (n + 1)..len[t] : layout[k] = "blank"
             \/ /\ m \in (n + 1)..len[t] /\ layout[m] # "blank"
                /\ \A k \in (n + 1)..(m - 1) : layout[k] = "blank"
<1> DEFINE rest == {m \in (n + 1)..len[t] : layout[m] # "blank"}
<1>1. Table!NextLine(t, n) = IF rest = {} THEN 0 ELSE Table!Min(rest)
  BY DEF Table!NextLine
<1>2. rest \subseteq Nat
  OBVIOUS
<1>3. CASE rest = {}
  BY <1>1, <1>3
<1>4. CASE rest # {}
  <2> DEFINE m == Table!Min(rest)
  <2>1. m \in rest /\ \A y \in rest : m <= y
    BY <1>2, <1>4, MinIsLeast
  <2>2. Table!NextLine(t, n) = m
    BY <1>1, <1>4
  <2> HIDE DEF m
  <2>3. \A k \in (n + 1)..(m - 1) : layout[k] = "blank"
    BY <2>1
  <2> QED
    BY <2>1, <2>2, <2>3
<1> QED
  BY <1>3, <1>4

\* Two copies of one file, left at the same line, go on to the same line.
LEMMA NextLineSame ==
  ASSUME CopiesOK, NEW n \in Nat,
         Table!NextLine(0, n) # 0, Table!NextLine(1, n) # 0
  PROVE  Table!NextLine(0, n) = Table!NextLine(1, n)
<1>1. len[0] \in Nat /\ len[1] \in Nat /\ 0 \in Table!Threads /\ 1 \in Table!Threads
  BY DEF CopiesOK, Table!Threads
<1> DEFINE a == Table!NextLine(0, n)
           b == Table!NextLine(1, n)
<1>2. /\ a \in (n + 1)..len[0] /\ layout[a] # "blank"
      /\ \A k \in (n + 1)..(a - 1) : layout[k] = "blank"
  BY <1>1, NextLineIs
<1>3. /\ b \in (n + 1)..len[1] /\ layout[b] # "blank"
      /\ \A k \in (n + 1)..(b - 1) : layout[k] = "blank"
  BY <1>1, NextLineIs
<1> HIDE DEF a, b
<1>4. a \in Int /\ b \in Int /\ ~(a < b) /\ ~(b < a)
  BY <1>1, <1>2, <1>3
<1> QED
  BY <1>4 DEF a, b

\* A token is the line it stands for, and only the last line of a copy is cut.
LEMMA TokenIs ==
  ASSUME CopiesOK, TokensOK, NEW t \in Table!Threads
  PROVE  /\ Table!Token(t) \in LineType /\ Table!Token(t).n = tok[t]
         /\ Table!Token(t).value # "whole" => tok[t] = len[t]
<1> DEFINE c == IF tok[t] = len[t] THEN cut[t] ELSE "whole"
           l == Table!Line(t, tok[t], c)
<1>1. Table!Token(t) = l
  BY DEF Table!Token
<1>2. tok[t] \in Nat
  BY DEF TokensOK
<1>3. c # "whole" => tok[t] = len[t]
  OBVIOUS
<1> HIDE DEF c
<1>4. l.n = tok[t] /\ (l.value # "whole" => c # "whole")
  BY DEF Table!Line
<1>5. l.n = tok[t] /\ l.seps \in 0..2 /\ l.key \in LineKeys /\ l.value \in {"whole", "part", "none"}
  BY DEF Table!Line, LineKeys
<1>6. l \in LineType
  BY <1>2, <1>5 DEF LineType, Table!Line
<1> QED
  BY <1>1, <1>3, <1>4, <1>5, <1>6

\* split_sched_lines finds no value in the lines of the heading, and finds one
\* in an interesting line exactly where both copies have one.
LEMMA SplitMeans ==
  ASSUME CopiesOK, TokensOK, Table!HasLine
  PROVE  /\ tok[0] <= 2 => ~Table!SplitSchedLines(Table!Token(0), Table!Token(1))
         /\ (/\ Table!SplitSchedLines(Table!Token(0), Table!Token(1))
             /\ Table!InterestingSchedStat(Table!Token(0))) <=> tok[0] \in Table!Shown
<1>1. 0 \in Table!Threads /\ 1 \in Table!Threads /\ Table!Threads = {0, 1}
  BY DEF Table!Threads
<1>2. PICK n : n = tok[0] /\ n = tok[1]
  BY DEF TokensOK
<1>3. n \in Nat /\ n # 0 /\ n <= len[0] /\ n <= len[1]
  BY <1>1, <1>2 DEF TokensOK, Table!HasLine
<1>4. len[0] \in 0..Len(layout) /\ len[1] \in 0..Len(layout) /\ Len(layout) \in Nat
  BY <1>1 DEF CopiesOK
<1>5. n \in DOMAIN layout
  BY <1>3, <1>4 DEF CopiesOK
<1> DEFINE c == [t \in {0, 1} |-> IF n = len[t] THEN cut[t] ELSE "whole"]
           a == Table!Token(0)
           b == Table!Token(1)
<1>6. a = Table!Line(0, n, c[0]) /\ b = Table!Line(1, n, c[1])
  BY <1>2 DEF Table!Token
<1>7. n \in Table!Shown <=> layout[n] = "interesting" /\ c[0] # "key" /\ c[1] # "key"
  BY <1>1, <1>3, <1>4, <1>5 DEF Table!Shown
<1> HIDE DEF c
<1>8. a.n = n /\ b.n = n
  BY <1>6 DEF Table!Line
<1>9. ASSUME n <= 2
      PROVE  ~Table!SplitSchedLines(a, b)
  <2>1. layout[n] \in {"head", "dashes"}
    BY <1>3, <1>9 DEF CopiesOK
  <2>2. a.seps # 2
    BY <1>6, <2>1 DEF Table!Line
  <2> QED
    BY <2>2 DEF Table!SplitSchedLines
<1>10. ASSUME layout[n] = "interesting"
       PROVE  Table!SplitSchedLines(a, b) <=> c[0] # "key" /\ c[1] # "key"
  <2>1. /\ a.seps = (IF c[0] = "key" THEN 0 ELSE 2) /\ b.seps = (IF c[1] = "key" THEN 0 ELSE 2)
        /\ c[0] # "key" => a.key = "full"
        /\ c[1] # "key" => b.key = "full"
    BY <1>6, <1>10 DEF Table!Line
  <2> QED
    BY <1>8, <2>1 DEF Table!SplitSchedLines
<1>11. Table!InterestingSchedStat(a) <=> layout[n] = "interesting"
  BY <1>8 DEF Table!InterestingSchedStat
<1> HIDE DEF a, b
<1> QED
  BY <1>2, <1>7, <1>9, <1>10, <1>11 DEF a, b

\* The copies that read_sched_proc leaves.
LEMMA TableInit == Table!Init => TableData
<1> SUFFICES ASSUME Table!Init
             PROVE  TableData
  OBVIOUS
<1>1. PICK body : /\ layout = Table!Heading \o body
                  /\ \E n \in 0..MaxBody : body \in [1..n -> Table!Shapes]
  BY DEF Table!Init, Table!Layouts
<1>2. body \in Seq(LineShapes)
  BY <1>1 DEF Table!Shapes, LineShapes
<1>3. Table!Heading \in Seq(LineShapes) /\ Len(Table!Heading) = 2
      /\ Table!Heading[1] = "head" /\ Table!Heading[2] = "dashes"
  BY DEF Table!Heading, LineShapes
<1>4. layout \in Seq(LineShapes) /\ Len(layout) >= 2 /\ layout[1] = "head" /\ layout[2] = "dashes"
  <2>1. \A h, b \in Seq(LineShapes) : Len(h) = 2 =>
          /\ h \o b \in Seq(LineShapes) /\ Len(h \o b) >= 2
          /\ (h \o b)[1] = h[1] /\ (h \o b)[2] = h[2]
    <3>1. TAKE h, b \in Seq(LineShapes)
    <3>2. HAVE Len(h) = 2
    <3>3. /\ h \o b \in Seq(LineShapes) /\ Len(h \o b) = Len(h) + Len(b)
          /\ \A i \in 1..(Len(h) + Len(b)) :
               (h \o b)[i] = IF i <= Len(h) THEN h[i] ELSE b[i - Len(h)]
      BY ConcatProperties
    <3>4. Len(b) \in Nat
      OBVIOUS
    <3> QED
      BY <3>2, <3>3, <3>4
  <2> QED
    BY <1>1, <1>2, <1>3, <2>1
<1>5. CopiesOK
  BY <1>4 DEF Table!Init, CopiesOK
<1>6. TokensOK
  BY <1>5 DEF Table!Init, TokensOK, CopiesOK, Table!HasLine, Table!Threads
<1>7. EntriesOK /\ PrintedOK /\ OrderOK
  BY DEF Table!Init, EntriesOK, PrintedOK, OrderOK
<1> QED
  BY <1>5, <1>6, <1>7 DEF TableData, Table!Init

\* The tokens after line n: the lines to be shown that they leave behind are
\* those up to n, since only lines without characters are skipped; and these
\* are all when one of the copies has no more lines.
LEMMA LeftBehind ==
  ASSUME CopiesOK, NEW n \in Nat
  PROVE  LET a == Table!NextLine(0, n)
             b == Table!NextLine(1, n)
         IN  /\ a # 0 /\ b # 0 =>
                  {m \in Table!Shown : m < a} = {m \in Table!Shown : m <= n}
             /\ a = 0 \/ b = 0 => Table!Shown = {m \in Table!Shown : m <= n}
<1> DEFINE a == Table!NextLine(0, n)
           b == Table!NextLine(1, n)
<1>1. len[0] \in Nat /\ len[1] \in Nat /\ 0 \in Table!Threads /\ 1 \in Table!Threads
  BY DEF CopiesOK, Table!Threads
<1>2. \/ a = 0 /\ \A k \in (n + 1)..len[0] : layout[k] = "blank"
      \/ /\ a \in (n + 1)..len[0] /\ layout[a] # "blank"
         /\ \A k \in (n + 1)..(a - 1) : layout[k] = "blank"
  BY <1>1, NextLineIs
<1>3. \/ b = 0 /\ \A k \in (n + 1)..len[1] : layout[k] = "blank"
      \/ /\ b \in (n + 1)..len[1] /\ layout[b] # "blank"
         /\ \A k \in (n + 1)..(b - 1) : layout[k] = "blank"
  BY <1>1, NextLineIs
<1>4. \A m \in Table!Shown :
        m \in Nat /\ m <= len[0] /\ m <= len[1] /\ layout[m] # "blank"
  BY <1>1 DEF Table!Shown, CopiesOK
<1> HIDE DEF a, b
<1>5. ASSUME a # 0, NEW m \in Table!Shown
      PROVE  m < a <=> m <= n
  BY <1>1, <1>2, <1>4, <1>5
<1>6. ASSUME a = 0 \/ b = 0, NEW m \in Table!Shown
      PROVE  m <= n
  BY <1>1, <1>2, <1>3, <1>4, <1>6
<1> QED
  BY <1>5, <1>6 DEF a, b

\* The tokens after line n of two copies
NextTokens(n) == [t \in Table!Threads |-> Table!NextLine(t, n)]

\* They are lines of the copies after n, and the same line.
LEMMA NextTokensOK ==
  ASSUME CopiesOK, NEW n \in Nat, tok' = NextTokens(n), UNCHANGED <<layout, len, cut>>
  PROVE  TokensOK' /\ (Table!HasLine' => tok'[0] \in Nat /\ tok'[0] > n)
<1>1. len[0] \in Nat /\ len[1] \in Nat /\ Table!Threads = {0, 1}
  BY DEF CopiesOK, Table!Threads
<1>2. tok'[0] = Table!NextLine(0, n) /\ tok'[1] = Table!NextLine(1, n)
  BY <1>1 DEF NextTokens
<1>3. /\ tok'[0] = 0 \/ (tok'[0] \in Nat /\ tok'[0] > n /\ tok'[0] <= len[0])
      /\ tok'[1] = 0 \/ (tok'[1] \in Nat /\ tok'[1] > n /\ tok'[1] <= len[1])
  <2>1. \A t \in {0, 1} : \/ Table!NextLine(t, n) = 0
                          \/ Table!NextLine(t, n) \in (n + 1)..len[t]
    BY <1>1, NextLineIs
  <2> QED
    BY <1>1, <1>2, <2>1
<1>4. tok'[0] # 0 /\ tok'[1] # 0 => tok'[0] = tok'[1]
  BY <1>2, NextLineSame
<1>5. tok' \in [Table!Threads -> Nat]
  BY <1>1, <1>3 DEF NextTokens
<1>6. \A t \in Table!Threads : tok'[t] <= len'[t]
  BY <1>1, <1>3
<1> QED
  BY <1>3, <1>4, <1>5, <1>6 DEF TokensOK, Table!HasLine

\* The copies and what is to be shown of them stay as they are.
LEMMA CopiesStay ==
  ASSUME UNCHANGED <<layout, len, cut>>
  PROVE  /\ CopiesOK => CopiesOK'
         /\ Table!Shown' = Table!Shown
         /\ Table!CountSchedLines(0)' = Table!CountSchedLines(0)
<1>1. CopiesOK => CopiesOK'
  BY DEF CopiesOK
<1>2. Table!Shown' = Table!Shown
  BY DEF Table!Shown
<1>3. Table!CountSchedLines(0)' = Table!CountSchedLines(0)
  BY DEF Table!CountSchedLines
<1> QED
  BY <1>1, <1>2, <1>3

\* calloc and the first strtok_r of both copies
LEMMA TableAllocate == TableData /\ Table!Allocate => TableData'
<1> SUFFICES ASSUME TableData, Table!Allocate
             PROVE  TableData'
  OBVIOUS
<1>1. /\ UNCHANGED <<layout, len, cut>> /\ UNCHANGED <<line_count, rows>>
      /\ pc = "count" /\ pc' = "lines" /\ sched_lines' = Table!CountSchedLines(0)
      /\ tok' = NextTokens(0)
  BY DEF Table!Allocate, Table!inputVars, NextTokens
<1>2. CopiesOK /\ line_count = 0 /\ rows = <<>>
  BY <1>1 DEF TableData, EntriesOK, PrintedOK
<1>3. CopiesOK' /\ Table!Shown' = Table!Shown
      /\ Table!CountSchedLines(0)' = Table!CountSchedLines(0)
  BY <1>1, <1>2, CopiesStay
<1>4. TokensOK' /\ (Table!HasLine' => tok'[0] \in Nat /\ tok'[0] > 0)
  BY <1>1, <1>2, NextTokensOK
<1>5. EntriesOK'
  BY <1>1, <1>2, <1>3 DEF EntriesOK
<1>6. OrderOK'
  BY <1>1, <1>2 DEF OrderOK
<1>7. PrintedOK'
  <2>1. PrintedLines' = {}
    BY <1>1, <1>2 DEF PrintedLines
  <2>2. {m \in Table!Shown : m <= 0} = {}
    BY <1>2 DEF Table!Shown, CopiesOK
  <2>3. tok'[0] = Table!NextLine(0, 0) /\ tok'[1] = Table!NextLine(1, 0)
    BY <1>1 DEF NextTokens, Table!Threads
  <2>4. /\ Table!HasLine' => {m \in Table!Shown : m < tok'[0]} = {}
        /\ ~Table!HasLine' => Table!Shown = {}
    BY <1>2, <2>2, <2>3, LeftBehind DEF Table!HasLine
  <2> QED
    BY <1>1, <1>3, <2>1, <2>4 DEF PrintedOK
<1> QED
  BY <1>1, <1>3, <1>4, <1>5, <1>6, <1>7 DEF TableData

\* A row that is added: its line is one more line printed, after the others.
LEMMA RowAdded ==
  ASSUME OrderOK, NEW a \in LineType, NEW b \in LineType, rows' = Append(rows, <<a, b>>),
         UNCHANGED len, a.n = b.n, a.n <= len[0], a.n <= len[1],
         a.value # "whole" => a.n = len[0], b.value # "whole" => a.n = len[1],
         \A m \in PrintedLines : m < a.n
  PROVE  OrderOK' /\ PrintedLines' = PrintedLines \cup {a.n}
<1> DEFINE new == <<a, b>>
<1>1. rows \in Seq(LineType \X LineType) /\ new \in LineType \X LineType
      /\ new[1] = a /\ new[2] = b
  BY DEF OrderOK
<1> HIDE DEF new
<1>2. /\ rows' \in Seq(LineType \X LineType) /\ Len(rows) \in Nat
      /\ DOMAIN rows = 1..Len(rows) /\ DOMAIN rows' = 1..(Len(rows) + 1)
      /\ \A i \in 1..Len(rows) : rows'[i] = rows[i]
      /\ rows'[Len(rows) + 1] = new
  BY <1>1, AppendProperties DEF new
<1>3. \A i \in DOMAIN rows : rows[i][1].n \in Nat /\ rows[i][1].n < a.n
  <2>1. \A i \in DOMAIN rows : rows[i] \in LineType \X LineType
    BY <1>1
  <2>2. \A r \in LineType \X LineType : r[1].n \in Nat
    BY DEF LineType
  <2> QED
    BY <2>1, <2>2 DEF PrintedLines
<1>4. ASSUME NEW i \in DOMAIN rows'
      PROVE  i \in DOMAIN rows \/ i = Len(rows) + 1
  BY <1>2, <1>4
<1>5. ASSUME NEW i \in DOMAIN rows'
      PROVE  /\ rows'[i][1].n = rows'[i][2].n
             /\ rows'[i][1].n <= len[0] /\ rows'[i][1].n <= len[1]
             /\ rows'[i][1].value # "whole" => rows'[i][1].n = len[0]
             /\ rows'[i][2].value # "whole" => rows'[i][1].n = len[1]
  <2>1. CASE i \in DOMAIN rows
    <3>1. rows'[i] = rows[i]
      BY <1>2, <2>1
    <3> QED
      BY <2>1, <3>1 DEF OrderOK
  <2>2. CASE i = Len(rows) + 1
    <3>1. rows'[i][1] = a /\ rows'[i][2] = b
      BY <1>1, <1>2, <2>2
    <3> QED
      BY <3>1
  <2> QED
    BY <1>4, <2>1, <2>2
<1>6. ASSUME NEW i \in DOMAIN rows', NEW j \in DOMAIN rows', i < j
      PROVE  rows'[i][1].n < rows'[j][1].n
  <2>1. i \in DOMAIN rows /\ rows'[i] = rows[i]
    BY <1>2, <1>6
  <2>2. CASE j \in DOMAIN rows
    <3>1. rows'[j] = rows[j]
      BY <1>2, <2>2
    <3> QED
      BY <1>6, <2>1, <2>2, <3>1 DEF OrderOK
  <2>3. CASE j = Len(rows) + 1
    <3>1. rows'[j][1] = a
      BY <1>1, <1>2, <2>3
    <3> QED
      BY <1>3, <2>1, <3>1
  <2> QED
    BY <1>4, <2>2, <2>3
<1>7. OrderOK'
  BY <1>2, <1>5, <1>6 DEF OrderOK
<1>8. PrintedLines' = PrintedLines \cup {a.n}
  <2>1. ASSUME NEW i \in DOMAIN rows
        PROVE  i \in DOMAIN rows' /\ rows'[i][1].n = rows[i][1].n
    BY <1>2, <2>1
  <2>2. Len(rows) + 1 \in DOMAIN rows' /\ rows'[Len(rows) + 1][1].n = a.n
    BY <1>1, <1>2
  <2>3. PrintedLines' \subseteq PrintedLines \cup {a.n}
    BY <1>4, <2>1, <2>2 DEF PrintedLines
  <2>4. PrintedLines \cup {a.n} \subseteq PrintedLines'
    BY <2>1, <2>2 DEF PrintedLines
  <2> QED
    BY <2>3, <2>4
<1> QED
  BY <1>7, <1>8

\* One round of the loop
LEMMA TableParseLine == TableData /\ Table!ParseLine => TableData'
<1> SUFFICES ASSUME TableData, Table!ParseLine
             PROVE  TableData'
  OBVIOUS
<1> DEFINE n == tok[0]
           a == Table!Token(0)
           b == Table!Token(1)
           split == Table!SplitSchedLines(a, b)
           shows == split /\ Table!InterestingSchedStat(a)
<1>1. /\ UNCHANGED <<layout, len, cut>> /\ UNCHANGED <<pc, sched_lines>>
      /\ pc = "lines" /\ Table!HasLine
      /\ line_count' = IF split THEN line_count + 1 ELSE line_count
      /\ rows' = IF shows THEN Append(rows, <<a, b>>) ELSE rows
      /\ tok' = [t \in Table!Threads |-> Table!NextLine(t, tok[t])]
  BY DEF Table!ParseLine, Table!inputVars
<1>2. CopiesOK /\ TokensOK /\ EntriesOK /\ PrintedOK /\ OrderOK
  BY DEF TableData
<1>3. n \in Nat /\ n # 0 /\ tok[1] = n /\ n <= len[0] /\ n <= len[1]
  BY <1>1, <1>2 DEF TokensOK, Table!HasLine, Table!Threads
<1>4. tok' = NextTokens(n)
  <2>1. \A t \in Table!Threads : tok[t] = n
    BY <1>3 DEF Table!Threads
  <2> QED
    BY <1>1, <2>1 DEF NextTokens
<1>5. CopiesOK' /\ Table!Shown' = Table!Shown
      /\ Table!CountSchedLines(0)' = Table!CountSchedLines(0)
  BY <1>1, <1>2, CopiesStay
<1>6. TokensOK' /\ (Table!HasLine' => tok'[0] \in Nat /\ tok'[0] > n)
  BY <1>1, <1>2, <1>3, <1>4, NextTokensOK
<1>7. (n <= 2 => ~split) /\ (shows <=> n \in Table!Shown)
  BY <1>1, <1>2, SplitMeans
<1>8. /\ a \in LineType /\ a.n = n /\ (a.value # "whole" => n = len[0])
      /\ b \in LineType /\ b.n = n /\ (b.value # "whole" => n = len[1])
  BY <1>2, <1>3, TokenIs DEF Table!Threads
<1> HIDE DEF a, b, split, shows, n
<1>9. EntriesOK'
  <2>1. line_count \in Nat /\ (line_count = 0 \/ (n > 3 /\ line_count <= n - 3))
    BY <1>1, <1>2 DEF EntriesOK, n
  <2>2. line_count' \in Nat /\ sched_lines' = Table!CountSchedLines(0)'
    BY <1>1, <1>2, <1>5, <2>1 DEF EntriesOK
  <2>3. Table!HasLine' => (line_count' = 0 \/ (tok'[0] > 3 /\ line_count' <= tok'[0] - 3))
    BY <1>1, <1>3, <1>6, <1>7, <2>1
  <2> QED
    BY <1>1, <2>2, <2>3 DEF EntriesOK
<1>10. PrintedLines = {m \in Table!Shown : m < n}
  BY <1>1, <1>2 DEF PrintedOK, n
<1>11. OrderOK' /\ PrintedLines' = {m \in Table!Shown : m <= n}
  <2>1. \A m \in Table!Shown : m \in Nat
    BY <1>2 DEF Table!Shown, CopiesOK
  <2>2. CASE shows
    <3>1. rows' = Append(rows, <<a, b>>)
      BY <1>1, <2>2
    <3>2. \A m \in PrintedLines : m < a.n
      BY <1>8, <1>10
    <3>3. OrderOK' /\ PrintedLines' = PrintedLines \cup {n}
      BY <1>1, <1>2, <1>3, <1>8, <3>1, <3>2, RowAdded
    <3>4. {m \in Table!Shown : m < n} \cup {n} = {m \in Table!Shown : m <= n}
      BY <1>3, <1>7, <2>1, <2>2
    <3> QED
      BY <1>10, <3>3, <3>4
  <2>3. CASE ~shows
    <3>1. rows' = rows
      BY <1>1, <2>3
    <3>2. OrderOK' /\ PrintedLines' = PrintedLines
      BY <1>1, <1>2, <3>1 DEF OrderOK, PrintedLines
    <3>3. {m \in Table!Shown : m < n} = {m \in Table!Shown : m <= n}
      BY <1>3, <1>7, <2>1, <2>3
    <3> QED
      BY <1>10, <3>2, <3>3
  <2> QED
    BY <2>2, <2>3
<1>12. PrintedOK'
  <2>1. tok'[0] = Table!NextLine(0, n) /\ tok'[1] = Table!NextLine(1, n)
    BY <1>4 DEF NextTokens, Table!Threads
  <2>2. /\ Table!HasLine' => {m \in Table!Shown : m < tok'[0]} = {m \in Table!Shown : m <= n}
        /\ ~Table!HasLine' => Table!Shown = {m \in Table!Shown : m <= n}
    BY <1>2, <1>3, <2>1, LeftBehind DEF Table!HasLine
  <2> QED
    BY <1>1, <1>5, <1>11, <2>2 DEF PrintedOK
<1> QED
  BY <1>1, <1>5, <1>6, <1>9, <1>11, <1>12 DEF TableData

\* The steps of parse_sched_data keep the invariant of its loop.
LEMMA TableNext == TableInv /\ [Table!Next]_tableVars => TableInv'
<1> SUFFICES ASSUME TableInv, [Table!Next]_tableVars
             PROVE  TableInv'
  OBVIOUS
<1>1. CASE UNCHANGED tableVars
  <2>1. TableIdle => TableIdle'
    BY <1>1 DEF tableVars, TableIdle
  <2>2. TableData => TableData'
    <3> HAVE TableData
    <3>1. CopiesOK' /\ Table!Shown' = Table!Shown
          /\ Table!CountSchedLines(0)' = Table!CountSchedLines(0)
      BY <1>1, CopiesStay DEF tableVars, TableData
    <3>2. TokensOK' /\ Table!HasLine' = Table!HasLine /\ PrintedLines' = PrintedLines
      BY <1>1 DEF tableVars, TableData, TokensOK, Table!HasLine, PrintedLines
    <3>3. EntriesOK' /\ PrintedOK'
      BY <1>1, <3>1, <3>2 DEF tableVars, TableData, EntriesOK, PrintedOK
    <3>4. OrderOK'
      BY <1>1 DEF tableVars, TableData, OrderOK
    <3> QED
      BY <1>1, <3>1, <3>2, <3>3, <3>4 DEF tableVars, TableData
  <2> QED
    BY <2>1, <2>2 DEF TableInv
<1>2. CASE Table!Next /\ pc = "idle"
  BY <1>2 DEF Table!Next, Table!Allocate, Table!ParseLine, Table!Finish, Table!Done
<1>3. CASE Table!Next /\ pc # "idle"
  <2>1. TableData
    BY <1>3 DEF TableInv, TableIdle
  <2>2. CASE Table!Allocate
    BY <2>1, <2>2, TableAllocate DEF TableInv
  <2>3. CASE Table!ParseLine
    BY <2>1, <2>3, TableParseLine DEF TableInv
  <2>4. CASE Table!Finish
    <3>1. /\ UNCHANGED <<layout, len, cut>> /\ UNCHANGED <<sched_lines, tok, line_count, rows>>
          /\ pc = "lines" /\ ~Table!HasLine /\ pc' = "done"
      BY <2>4 DEF Table!Finish, Table!inputVars
    <3>2. CopiesOK' /\ Table!Shown' = Table!Shown
          /\ Table!CountSchedLines(0)' = Table!CountSchedLines(0)
      BY <2>1, <3>1, CopiesStay DEF TableData
    <3>3. TokensOK' /\ OrderOK'
      BY <2>1, <3>1 DEF TableData, TokensOK, OrderOK, Table!HasLine
    <3>4. EntriesOK'
      BY <2>1, <3>1, <3>2 DEF TableData, EntriesOK
    <3>5. PrintedOK'
      BY <2>1, <3>1, <3>2 DEF TableData, PrintedOK, PrintedLines
    <3> QED
      BY <3>1, <3>2, <3>3, <3>4, <3>5 DEF TableInv, TableData
  <2>5. CASE Table!Done
    BY <1>1, <2>5 DEF Table!Done, Table!vars, Table!inputVars, tableVars
  <2> QED
    BY <1>3, <2>2, <2>3, <2>4, <2>5 DEF Table!Next
<1> QED
  BY <1>1, <1>2, <1>3

\* What the invariant says of the table and of the rows printed.
LEMMA TableInvMeans == TableInv => TableFits /\ RowsComplete
<1>1. ASSUME TableIdle
      PROVE  TableFits /\ RowsComplete
  BY <1>1 DEF TableIdle, TableFits, RowsComplete, Table!TableFits, Table!RowsComplete
<1>2. ASSUME TableData
      PROVE  TableFits
  <2> SUFFICES ASSUME pc = "lines", Table!HasLine
               PROVE  line_count < sched_lines
    BY DEF TableFits, Table!TableFits
  <2>1. len[0] \in Nat /\ tok[0] \in Nat /\ tok[0] # 0 /\ tok[0] <= len[0]
        /\ (cut[0] # "whole" => len[0] > 2)
    BY <1>2 DEF TableData, CopiesOK, TokensOK, Table!HasLine, Table!Threads
  <2>2. sched_lines = Table!CountSchedLines(0) /\ line_count \in Nat
        /\ (line_count = 0 \/ (tok[0] > 3 /\ line_count <= tok[0] - 3))
    BY <1>2 DEF TableData, EntriesOK
  <2> QED
    BY <2>1, <2>2 DEF Table!CountSchedLines
<1>3. ASSUME TableData
      PROVE  RowsComplete
  <2>1. pc = "done" => PrintedLines = Table!Shown
    BY <1>3 DEF TableData, PrintedOK
  <2>2. OrderOK
    BY <1>3 DEF TableData
  <2>3. \A i \in DOMAIN rows : rows[i][1].n \in Nat
    <3>1. \A i \in DOMAIN rows : rows[i] \in LineType \X LineType
      BY <2>2 DEF OrderOK
    <3>2. \A r \in LineType \X LineType : r[1].n \in Nat
      BY DEF LineType
    <3> QED
      BY <3>1, <3>2
  <2>4. len[0] \in Nat /\ len[1] \in Nat
    BY <1>3 DEF TableData, CopiesOK, Table!Threads
  <2>5. ASSUME NEW i \in DOMAIN rows, NEW j \in DOMAIN rows, i < j
        PROVE  /\ rows[i][1].n < rows[j][1].n
               /\ rows[i][1].value = "whole" /\ rows[i][2].value = "whole"
    <3>1. rows[i][1].n < rows[j][1].n
      BY <2>2, <2>5 DEF OrderOK
    <3>2. rows[j][1].n <= len[0] /\ rows[j][1].n <= len[1]
      BY <2>2 DEF OrderOK
    <3>3. rows[i][1].n # len[0] /\ rows[i][1].n # len[1]
      BY <2>3, <2>4, <3>1, <3>2
    <3> QED
      BY <2>2, <3>1, <3>3 DEF OrderOK
  <2>6. \A i \in DOMAIN rows : rows[i][1].n = rows[i][2].n
    BY <2>2 DEF OrderOK
  <2> QED
    BY <2>1, <2>5, <2>6 DEF RowsComplete, Table!RowsComplete, PrintedLines
<1> QED
  BY <1>1, <1>2, <1>3 DEF TableInv

-----------------------------------------------------------------------------
\* The four parts together

StatisticsInv == CountInv /\ RowsInv /\ ColumnsOK /\ TableInv /\ HelpersInput

\* The invariant of the counter, the rows, the table and the helpers, in whichever
\* part of the statistics a behaviour is.
THEOREM StatisticsInvariant == PartSpec => []StatisticsInv
<1>1. PartInit => StatisticsInv
  BY CountInit, RowsInit, TableInit DEF PartInit, StatisticsInv, TableInv, HelpersInput,
                                       ColumnsOK, Rows!Init
<1>2. StatisticsInv /\ [PartNext]_<<part, vars, rowsVars, tableVars, in>> => StatisticsInv'
  <2> SUFFICES ASSUME StatisticsInv, [PartNext]_<<part, vars, rowsVars, tableVars, in>>
               PROVE  StatisticsInv'
    OBVIOUS
  <2>1. [Next]_vars /\ [Rows!Next]_rowsVars /\ [Table!Next]_tableVars /\ UNCHANGED in
    BY DEF PartNext, Helpers!Next
  <2>2. HelpersInput'
    BY <2>1 DEF StatisticsInv, HelpersInput, Helpers!Init, Helpers!ClockValues
  <2> QED
    BY <2>1, <2>2, CountNext, RowsNext, ColumnsNext, TableNext DEF StatisticsInv
<1> QED
  BY <1>1, <1>2, PTL DEF PartSpec

\* The variables of the counter and its samples keep their types: the count
\* and its differences are numbers of an unsigned long long.
THEOREM CountTypeOK == PartSpec => []TypeOK
<1>1. StatisticsInv => TypeOK
  BY DEF StatisticsInv, CountInv
<1> QED
  BY <1>1, StatisticsInvariant, PTL

\* With one writer no increment of ping_count is lost; in race2 none is added
\* that was not done.
THEOREM NoLostIncrementHolds == PartSpec => []NoLostIncrement
<1>1. StatisticsInv => NoLostIncrement
  BY DEF StatisticsInv, CountInv
<1> QED
  BY <1>1, StatisticsInvariant, PTL

\* The intervals that gather_periodic_stats computes and show_periodic_stats
\* shows add up to the count that store_last_stats remembers, wrapped or not.
THEOREM IntervalsAddUpHolds == PartSpec => []IntervalsAddUp
<1>1. StatisticsInv => IntervalsAddUp
  BY DEF StatisticsInv, CountInv
<1> QED
  BY <1>1, StatisticsInvariant, PTL

\* The rows cover the run without a gap or an overlap, also across a sample
\* that a stop request made the program throw away, and no context switch is in
\* two rows or in two columns, whoever reaps which thread.
THEOREM RowsAddUpHolds == PartSpec => []RowsAddUp
<1>1. StatisticsInv => RowsAddUp
  BY DEF StatisticsInv, RowsInv, RowsSum, UsageOK, Accounted, RowsAddUp, Rows!RowsAddUp,
         Rows!OwnSwitches, Rows!OthersSwitches, Rows!Threads
<1> QED
  BY <1>1, StatisticsInvariant, PTL

\* No more than stats_headers_frequency rows follow a header.
THEOREM HeaderInTimeHolds == PartSpec => []HeaderInTime
<1>1. StatisticsInv => HeaderInTime
  BY DEF StatisticsInv, RowsInv
<1> QED
  BY <1>1, StatisticsInvariant, PTL

\* The cycle time and the rate that are printed agree with the volleys and the
\* time they are computed from, no volleys included.
THEOREM ColumnsAgreeHolds == PartSpec => []ColumnsAgree
<1>1. StatisticsInv => ColumnsAgree
  BY ComputedAgrees DEF StatisticsInv, ColumnsOK, ColumnsAgree, Rows!ColumnsAgree
<1> QED
  BY <1>1, StatisticsInvariant, PTL

\* parse_sched_data writes no entry after the end of its table, which has as
\* many as ping's copy has newlines, however long the file is and wherever the
\* copies were cut.
THEOREM TableFitsHolds == PartSpec => []TableFits
<1>1. StatisticsInv => TableFits
  BY TableInvMeans DEF StatisticsInv
<1> QED
  BY <1>1, StatisticsInvariant, PTL

\* parse_sched_data prints the interesting lines both copies have a value of,
\* all of them and in order, ping's value beside pong's for the same line; a
\* value that was cut only in the last row.
THEOREM RowsCompleteHolds == PartSpec => []RowsComplete
<1>1. StatisticsInv => RowsComplete
  BY TableInvMeans DEF StatisticsInv
<1> QED
  BY <1>1, StatisticsInvariant, PTL

\* elapsed_time, do_sleep's absolute time and page_align_size are exact.
THEOREM HelpersExactHolds == PartSpec => []HelpersExact
<1>1. StatisticsInv => HelpersExact
  BY HelpersInputExact DEF StatisticsInv
<1> QED
  BY <1>1, StatisticsInvariant, PTL

\* f_to_fp rounds once, to the nearest, and subsec_string's text is true to its
\* last digit, for all numbers below 1000 s whose denominators leave them at
\* 1 fs or more: subsec_string has no smaller unit and prints what is below as
\* 0.
THEOREM TextTrueHolds ==
  ASSUME FromOneFs
  PROVE  PartSpec => []TextTrue
<1>1. StatisticsInv => TextTrue
  BY TextInputTrue DEF StatisticsInv
<1> QED
  BY <1>1, StatisticsInvariant, PTL
=============================================================================
