------------------------------- MODULE MCUnits -------------------------------
(***************************************************************************)
(* The operators of Units over all inputs of a bounded range: a state is   *)
(* one input.                                                              *)
(***************************************************************************)
EXTENDS Units

CONSTANTS
    MaxSec,    \* bound: seconds of a clock value
    MaxLen,    \* bound: sizes to align
    MaxNum,    \* bound: numerators of the numbers printed
    Dens       \* denominators of the numbers printed

VARIABLE in

ClockValues == [sec : 0..MaxSec, part : 0..(Second - 1)]

Init ==
    \/ in \in [op : {"time"}, from : ClockValues, to : ClockValues]
    \/ in \in [op : {"size"}, len : 0..MaxLen]
    \/ in \in [op : {"text"}, size : [num : -2..MaxNum, den : Dens], dec : {1, 2}]

Next == UNCHANGED in

Spec == Init /\ [][Next]_in

-----------------------------------------------------------------------------

Ticks(t) == t.sec * Second + t.part
Normal(t) == t.part \in 0..(Second - 1)

\* elapsed_time(start, stop) is a proper clock value and start plus it is stop,
\* over a borrow and for a stop before start.  do_sleep hands clock_nanosleep a
\* proper time (part below a second, else EINVAL and a loop that does not
\* sleep), exactly the interval from now.  page_align_size gives whole pages,
\* enough and no page too many, for every size that has such a number of pages
\* in an unsigned int.
HelpersExact ==
    /\ in.op = "time" =>
         LET e == Elapsed(in.from, in.to)
             w == WakeTime(in.from, in.to.sec, in.to.part)
         IN  /\ Normal(e) /\ Ticks(in.from) + Ticks(e) = Ticks(in.to)
             /\ Normal(w) /\ Ticks(w) = Ticks(in.from) + Ticks(in.to)
    /\ in.op = "size" /\ in.len <= WordSize - PageSize =>
         LET size == PageAligned(in.len)
         IN  size % PageSize = 0 /\ in.len <= size /\ size < in.len + PageSize

\* The two integers of f_to_fp are, put together, the nearest multiple of
\* 10^-dec, and the decimals fit their digits.
Nearest(size, dec) ==
    LET fp == FixedPoint(dec, size)
        error == Abs((fp.i * 10^dec + fp.dec) * size.den - Abs(size.num) * 10^dec)
    IN  2 * error <= size.den /\ fp.dec < 10^dec

\* Rounding the number to dec decimals does not change its integer part.
NoCarry(size, dec) ==
    LET s == Scaled(size)
    IN  FixedPoint(dec, Fraction(s.num, size.den)).i = s.num \div size.den

\* subsec_string prints a positive time below 1000 s to within its last digit
\* in the unit that leaves one to three digits before the point, unless
\* rounding carries into the integer part, whose digits come from the rounded
\* and whose decimals from the unrounded number; and infinity as such.  f_to_fp
\* rounds once, to the nearest.
TextTrue ==
    in.op = "text" =>
        LET size == in.size
            t == Subsec(size, in.dec)
        IN  /\ size.den > 0 => Nearest(size, in.dec)
            /\ size.den = 0 => t.text = "infinite"
            /\ size.den > 0 /\ size.num > 0 /\ size.num < 1000 * size.den
                /\ NoCarry(size, in.dec) => ReadsAs(t, size, in.dec) /\ t.int \in 1..999
            /\ size.den > 0 /\ size.num <= 0 => t = [text |-> "number", int |-> 0,
                                                    frac |-> 0, unit |-> 0]
=============================================================================
