--------------------------------- MODULE Units ---------------------------------
(***************************************************************************)
(* The arithmetic behind the times the program reads, waits for and        *)
(* prints (common.c, units.c), as operators, and what each of them is for. *)
(* A long double is a fraction [num, den]; den = 0 is infinity, what a     *)
(* division by a count of zero gives.                                      *)
(***************************************************************************)
EXTENDS Integers

CONSTANTS
    Second,     \* bound: parts of a second (10^9 for a timespec, 10^6 for a timeval)
    PageSize,   \* bound: 4096 or 2 MiB
    WordSize    \* bound: 2^32, one more than the largest unsigned int

ASSUME UnitsAssumption ==
    /\ Second \in Nat \ {0}
    /\ PageSize \in Nat \ {0} /\ WordSize \in Nat /\ WordSize % PageSize = 0

Fraction(n, d) == [num |-> n, den |-> d]

-----------------------------------------------------------------------------
\* Clock values: records [sec, part] with part < Second

\* elapsed_time and elapsed_time_timeval, which borrow a second
Elapsed(from, to) ==
    IF to.part - from.part < 0
    THEN [sec |-> to.sec - from.sec - 1, part |-> Second + to.part - from.part]
    ELSE [sec |-> to.sec - from.sec, part |-> to.part - from.part]

MutantWakeTime(now, sec, part) ==
    LET sum == now.part + part
    IN  IF sum > Second THEN [sec |-> now.sec + sec + 1, part |-> sum - Second]
                        ELSE [sec |-> now.sec + sec, part |-> sum]

\* do_sleep's absolute time, which carries one
WakeTime(now, sec, part) ==
    LET sum == now.part + part
    IN  IF sum >= Second THEN [sec |-> now.sec + sec + 1, part |-> sum - Second]
                         ELSE [sec |-> now.sec + sec, part |-> sum]

-----------------------------------------------------------------------------
\* Sizes

\* page_align_size, in unsigned int
PageAligned(len) ==
    IF len % PageSize = 0 THEN len
    ELSE (((len \div PageSize) + 1) * PageSize) % WordSize

-----------------------------------------------------------------------------
\* Numbers as text

Abs(n) == IF n < 0 THEN -n ELSE n

\* llroundl: half away from zero, of the magnitude
Round(n, d) == (2 * n + d) \div (2 * d)

\* f_to_fp: the integer part and the decimals of a number, rounded once
FixedPoint(prec, f) ==
    LET scaled == Round(Abs(f.num) * 10^prec, f.den)
    IN  [i |-> scaled \div 10^prec, dec |-> scaled % 10^prec]

UnitNames == <<"s", "ms", "us", "ns", "ps", "fs">>

\* The loop of subsec_string: a thousand times more and one unit on, until
\* the number is at least 1 or the units are used up.
Scaled(size) ==
    LET step[k \in 0..6] ==
            IF k = 0 THEN [num |-> size.num, unit |-> 0]
            ELSE LET prev == step[k - 1]
                 IN  IF prev.num < size.den
                     THEN [num |-> 1000 * prev.num, unit |-> prev.unit + 1] ELSE prev
    IN  IF size.num <= 0 \/ step[6].unit >= 6 THEN [num |-> 0, unit |-> 0] ELSE step[6]

MutantDigits(x, i) ==
    (IF i >= 1000 THEN 100 * ((i \div 100) % 10) ELSE 0)
        + (IF x.num >= 10 * x.den THEN 10 * ((i \div 10) % 10) ELSE 0) + (i % 10)

\* The digits before the point: i is the rounded integer part, x the number.
Digits(x, i) ==
    (IF i >= 100 THEN 100 * ((i \div 100) % 10) ELSE 0)
        + (IF x.num >= 10 * x.den THEN 10 * ((i \div 10) % 10) ELSE 0) + (i % 10)

\* subsec_string: what its text reads as.  The decimals are cut off, not
\* rounded.
Subsec(size, dec) ==
    IF size.den = 0 THEN [text |-> "infinite", int |-> 0, frac |-> 0, unit |-> 0]
    ELSE LET s == Scaled(size)
             x == Fraction(s.num, size.den)
         IN  [text |-> "number", int |-> Digits(x, FixedPoint(dec, x).i),
              frac |-> ((x.num % x.den) * 10^dec) \div x.den, unit |-> s.unit]

\* n times 1000^k, for the units
Thousandfold(n, k) ==
    LET f[j \in 0..6] == IF j = 0 THEN n ELSE 1000 * f[j - 1] IN  f[k]

\* The text t reads as a number less than one last digit away from size.
ReadsAs(t, size, dec) ==
    LET exact == Thousandfold(size.num, t.unit) * 10^dec
        read == (t.int * 10^dec + t.frac) * size.den
    IN  t.text = "number" /\ exact - read < size.den /\ read - exact < size.den
================================================================================
