----------------------------- MODULE MCStatistics -----------------------------
(***************************************************************************)
(* The statistics, from the counter to the printed number, in four parts   *)
(* that the variable part tells apart: "counter" is CountRace, "rows" is   *)
(* Report, "table" is SchedTable and "helpers" is MCUnits.  Each behaviour *)
(* is one of one part; the variables of the others stay as they are, in    *)
(* states in which the properties of those parts say nothing.              *)
(***************************************************************************)
EXTENDS CountRace, Units

CONSTANTS PerSecond, Steps, Frequency, MaxTime, MaxCount,   \* Report
          MaxBody,                                          \* SchedTable
          MaxSec, MaxLen, MaxNum, Dens                      \* MCUnits

VARIABLES
    part,
    clock, volleys, used, thread, dead, chld, stop, lastTime, lastCount, usage,
    lastUsage, headers, row, sums, bare, total,                              \* Report
    layout, named, len, cut, pc, sched_lines, tok, line_count, rows,  \* SchedTable
    in                                                            \* MCUnits

rowsVars == <<clock, volleys, used, thread, dead, chld, stop, lastTime, lastCount, usage,
              lastUsage, headers, row, sums, bare, total>>
tableVars == <<layout, named, len, cut, pc, sched_lines, tok, line_count, rows>>

Rows == INSTANCE Report WITH count <- volleys
Table == INSTANCE SchedTable
Helpers == INSTANCE MCUnits

ASSUME RowsAssumption == Rows!ReportConstants

TableIdle ==
    /\ layout = <<>> /\ named = <<>> /\ len = <<>> /\ cut = <<>> /\ pc = "idle"
    /\ sched_lines = 0 /\ tok = <<>> /\ line_count = 0 /\ rows = <<>>

PartInit ==
    /\ part \in {"counter", "rows", "table", "helpers"}
    /\ Init /\ (part # "counter" => mode = "race1")
    /\ Rows!Init
    /\ IF part = "table" THEN Table!Init ELSE TableIdle
    /\ IF part = "helpers" THEN Helpers!Init ELSE in = [op |-> "none"]

PartNext ==
    /\ \/ part = "counter" /\ Next /\ UNCHANGED <<rowsVars, tableVars, in>>
       \/ part = "rows" /\ Rows!Next /\ UNCHANGED <<vars, tableVars, in>>
       \/ part = "table" /\ Table!Next /\ UNCHANGED <<vars, rowsVars, in>>
       \/ part = "helpers" /\ Helpers!Next /\ UNCHANGED <<vars, rowsVars, tableVars>>
    /\ UNCHANGED part

PartSpec == PartInit /\ [][PartNext]_<<part, vars, rowsVars, tableVars, in>>

-----------------------------------------------------------------------------
\* Properties of the parts; CountRace's own are here by EXTENDS.

\* stats_periodic.c:87, stats_final.c:191: the cycle time and the rate printed
\* agree with the volleys and the time they are computed from, 0 included.
ColumnsAgree == Rows!ColumnsAgree

\* store_last_stats: the rows shown cover the run without a gap or an overlap,
\* and no context switch in two rows or in two columns.
RowsAddUp == Rows!RowsAddUp

\* "how frequently should the stats header lines be output": not more than
\* stats_headers_frequency rows follow a header.
HeaderInTime == Rows!HeaderInTime

\* parse_sched_data writes no entry after the end of its table.
TableFits == Table!TableFits

\* parse_sched_data prints the interesting lines both copies have a value of,
\* ping's beside pong's for the same line.
RowsComplete == Table!RowsComplete

\* elapsed_time, do_sleep's absolute time and page_align_size are exact.
HelpersExact == Helpers!HelpersExact

\* f_to_fp rounds once, and subsec_string's text is true to its last digit.
TextTrue == Helpers!TextTrue
===============================================================================
