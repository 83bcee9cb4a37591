------------------------------- MODULE MCSetup -------------------------------
(***************************************************************************)
(* Values of the constants for the runs of Setup.                          *)
(***************************************************************************)
EXTENDS Setup

Str(f, t, s) == [first |-> f, then |-> t, second |-> s]

\* "2", "7", "8" (out of range), "0,7", "1,8", "x", "3x"
Strings == {Str(2, "end", -1), Str(7, "end", -1), Str(8, "end", -1), Str(0, "comma", 7),
            Str(1, "comma", 8), Str(-1, "junk", -1), Str(3, "junk", -1)}

\* The sequence numbers of the eight methods, not in the order of the numbers.
LinkOrder == <<5, 3, 4, 10, 9, 8, 7, 6>>
=============================================================================
