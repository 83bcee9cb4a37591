\* Counters of four bits and up to four increments per thread; rows after 0.4
\* or 1.2 seconds, up to 2; files of up to three lines after the heading, cut
\* anywhere; seconds of 5 parts, pages of 8, numbers up to 12000.
SPECIFICATION PartSpec
CONSTANTS
    Modes = {"race1", "race2", "nop", "nop_unrolled", "yield_nop"}
    Width = 4
    MaxDone = 4
    PerSecond = 5
    Steps = {2, 6}
    Frequency = 2
    MaxTime = 10
    MaxCount = 3
    MaxBody = 3
    Second = 5
    PageSize = 8
    WordSize = 64
    MaxSec = 3
    MaxLen = 63
    MaxNum = 12000
    Dens = {0, 1, 7, 1000}
INVARIANTS
    TypeOK
    NoLostIncrement
    IntervalsAddUp
    ColumnsAgree
    RowsAddUp
    HeaderInTime
    TableFits
    RowsComplete
    HelpersExact
    TextTrue
