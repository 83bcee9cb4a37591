----------------------------- MODULE SchedTable ------------------------------
(***************************************************************************)
(* The table that ends the final statistics (stats_final.c): each thread   *)
(* left a copy of its /proc/self/sched in the run data, cut off after      *)
(* PROC_PID_SCHED_SIZE bytes wherever that falls.  parse_sched_data walks  *)
(* both copies line by line, fills a table that is as long as ping's copy  *)
(* has newlines, and prints the lines it finds interesting.  A line is     *)
(* what split_sched_lines can tell about it: its key, how many separators  *)
(* follow the key (2: two or more, so that a value is found after them)    *)
(* and how much of the value there is.                                     *)
(***************************************************************************)
EXTENDS Integers, Sequences, FiniteSetsExt

CONSTANT MaxBody   \* bound: lines after the two of the heading

Threads == {0, 1}

VARIABLES
    layout,      \* the lines of the kernel's file, by their shape
    named,       \* named[t]: rename_thread has worked
    len,         \* len[t]: how many lines are in thread t's copy
    cut,         \* cut[t]: what is left of the last of them
    pc,          \* the next statement of parse_sched_data
    sched_lines, \* how many entries the table has
    tok,         \* tok[t]: the line strtok_r has returned last, 0 for NULL
    line_count,  \* the entry of the table that is filled next
    rows         \* what has been printed, as pairs of lines

inputVars == <<layout, named, len, cut>>
vars == <<inputVars, pc, sched_lines, tok, line_count, rows>>

Heading == <<"head", "dashes">>
Shapes == {"interesting", "boring", "bare", "indented", "blank"}
Layouts == {Heading \o body : body \in UNION {[1..n -> Shapes] : n \in 0..MaxBody}}

\* The kernel's line n in the copy of thread t, when c is left of it (all, no
\* more than the key and one separator, the separators too, some of the value):
\* one separator follows the name in the heading and the keys of bare lines,
\* none the dashes; an indented line has an empty key.
Line(t, n, c) ==
    LET shape == layout[n]
    IN  [n     |-> n,
         key   |-> CASE c = "key"          -> "prefix"
                     [] shape = "indented" -> "empty"
                     [] shape = "head"     -> IF ~named[t] THEN "program"
                                              ELSE IF t = 0 THEN "ping_thread" ELSE "pong_thread"
                     [] OTHER              -> "full",
         seps  |-> CASE c = "key" \/ shape = "dashes" -> 0
                     [] shape \in {"head", "bare"} -> 1
                     [] OTHER -> 2,
         value |-> CASE c = "whole" -> "whole" [] c = "value" -> "part" [] OTHER -> "none"]

\* What strtok_r returns of thread t's copy after line n: a line without
\* characters is skipped.
NextLine(t, n) ==
    LET rest == {m \in (n + 1)..len[t] : layout[m] # "blank"}
    IN  IF rest = {} THEN 0 ELSE Min(rest)

\* The line that thread t's token is
Token(t) == Line(t, tok[t], IF tok[t] = len[t] THEN cut[t] ELSE "whole")

MutantCountSchedLines(t) == (IF cut[t] = "whole" THEN len[t] ELSE len[t] - 1) - 2

\* count_sched_lines: a line that was cut has no newline.
CountSchedLines(t) == IF cut[t] = "whole" THEN len[t] ELSE len[t] - 1

\* What read_sched_proc leaves: nothing where the file could not be opened or
\* read, else the file up to some byte after the heading.  Both threads run
\* under one kernel and one policy, so the files have the same lines.
Init ==
    /\ layout \in Layouts
    /\ named \in [Threads -> BOOLEAN]
    /\ len \in [Threads -> {0} \cup 2..Len(layout)]
    /\ cut \in [Threads -> {"whole", "key", "separators", "value"}]
    /\ \A t \in Threads : cut[t] # "whole" => len[t] > 2 /\ layout[len[t]] # "blank"
    /\ pc = "count" /\ sched_lines = 0 /\ line_count = 0 /\ rows = <<>>
    /\ tok = [t \in Threads |-> 0]

\* calloc, and the first strtok_r of both copies
Allocate ==
    /\ pc = "count"
    /\ sched_lines' = CountSchedLines(0)
    /\ tok' = [t \in Threads |-> NextLine(t, 0)]
    /\ pc' = "lines"
    /\ UNCHANGED <<inputVars, line_count, rows>>

HasLine == tok[0] # 0 /\ tok[1] # 0

\* split_sched_lines; two lines have the same key when it is the key of the
\* same line of the file.
SplitSchedLines(a, b) ==
    /\ a.key # "empty" /\ b.key # "empty"
    /\ a.key = b.key /\ a.n = b.n
    /\ a.seps = 2 /\ b.seps = 2

InterestingSchedStat(l) == layout[l.n] = "interesting"

MutantParseLine ==
    /\ pc = "lines" /\ HasLine
    /\ LET a == Token(0)
           b == Token(1)
       IN  /\ line_count' = IF SplitSchedLines(a, b) THEN line_count + 1 ELSE line_count
           /\ rows' = IF SplitSchedLines(a, b) /\ InterestingSchedStat(a)
                      THEN Append(rows, <<a, b>>) ELSE rows
           /\ pc' = IF SplitSchedLines(a, b) \/ a.n <= 2 THEN pc ELSE "done"
    /\ tok' = [t \in Threads |-> NextLine(t, tok[t])]
    /\ UNCHANGED <<inputVars, sched_lines>>

\* One round of the loop, with the strtok_r at its end
ParseLine ==
    /\ pc = "lines" /\ HasLine
    /\ LET a == Token(0)
           b == Token(1)
       IN  /\ line_count' = IF SplitSchedLines(a, b) THEN line_count + 1 ELSE line_count
           /\ rows' = IF SplitSchedLines(a, b) /\ InterestingSchedStat(a)
                      THEN Append(rows, <<a, b>>) ELSE rows
    /\ tok' = [t \in Threads |-> NextLine(t, tok[t])]
    /\ UNCHANGED <<inputVars, pc, sched_lines>>

\* One of the copies has no more lines: free
Finish ==
    /\ pc = "lines" /\ ~HasLine
    /\ pc' = "done"
    /\ UNCHANGED <<inputVars, sched_lines, tok, line_count, rows>>

Done == pc = "done" /\ UNCHANGED vars

Next == Allocate \/ ParseLine \/ Finish \/ Done

Spec == Init /\ [][Next]_vars

-----------------------------------------------------------------------------
\* Properties

\* split_sched_lines writes to the entry line_count before it is known whether
\* the lines give a row (stats_final.c:144), and a copy that was cut has one
\* line more than it has newlines: still no entry after the end of the table is
\* written, because the two lines of the heading never fill one.
TableFits == pc = "lines" /\ HasLine => line_count < sched_lines

\* The lines of which both copies have a value, of those found interesting
Shown ==
    LET Has(t, n) == n <= len[t] /\ (n = len[t] => cut[t] # "key")
    IN  {n \in DOMAIN layout : layout[n] = "interesting" /\ \A t \in Threads : Has(t, n)}

\* What is printed are the lines found interesting of which both copies have a
\* value, in the order of the file, the value of ping beside that of pong for
\* the same line; whatever the lines between are like, and wherever the copies
\* end.  A value that was cut can only be in the last row.
RowsComplete ==
    /\ pc = "done" => {rows[i][1].n : i \in DOMAIN rows} = Shown
    /\ \A i \in DOMAIN rows : rows[i][1].n = rows[i][2].n
    /\ \A i, j \in DOMAIN rows : i < j =>
         /\ rows[i][1].n < rows[j][1].n
         /\ rows[i][1].value = "whole" /\ rows[i][2].value = "whole"
=============================================================================
