-------------------------------- MODULE Setup --------------------------------
(***************************************************************************)
(* From program start to start_threads: the constructors of ADD_COMM_MODE  *)
(* fill the table of communication modes (comms.c), main checks it, takes  *)
(* the defaults, reads the command line (setup.c) and hands the string of  *)
(* -o to the mode chosen (of the modes, spin and nop have options).        *)
(* The strings of the command line are already cut into the parts the code *)
(* tells apart.                                                            *)
(***************************************************************************)
EXTENDS Integers, FiniteSets, Sequences, SequencesExt

CONSTANTS
    Names,       \* the modes linked into the program, "spin" and "nop" among them
    Increment,   \* COMM_MODE_LIST_INCREMENT
    Section,     \* the sync methods of spin in the order the linker put them,
                 \* each named by its sequence number
    Varieties,   \* nop_variety_count
    OptStrings,  \* the strings the user may give with -o
    MaxArgs      \* bound: how many arguments there are

\* A string for -o: the number it begins with (-1: none, or a negative one),
\* what follows it, and the number after a comma.
OptString == [first : Int, then : {"end", "comma", "junk"}, second : Int]
NoOptString == [first |-> -1, then |-> "none", second |-> -1]

ASSUME SetupAssumption ==
    /\ {"spin", "nop"} \subseteq Names /\ "none" \notin Names /\ IsFiniteSet(Names)
    /\ Increment \in Nat \ {0} /\ Varieties \in Nat \ {0} /\ MaxArgs \in Nat
    /\ Section \in Seq(Nat) /\ Section # <<>> /\ IsInjective(Section)
    /\ OptStrings \subseteq OptString

VARIABLES
    phase,      \* "constructors", "options", "setup", "started", "refused"
    table,      \* comm_mode_info: the slots allocated so far
    count,      \* comm_mode_count
    config,     \* config: the members the arguments set
    optString,  \* comm_option_string
    methods,    \* mem_sync_method_ping and _pong
    infos,      \* mem_sync_method_ping_info and _pong_info, 0 for none
    variety,    \* nop_variety
    args,       \* how many arguments have been read
    asked       \* the mode the user asked for last

optVars == <<methods, infos, variety>>
vars == <<phase, table, count, config, optString, optVars, args, asked>>

Zero == [name |-> "", ops |-> "", initialized |-> FALSE]

\* setup_defaults; the mode that was linked first is the default.  The
\* interval is in seconds, 0 disables the timer.
Defaults == [mode |-> 0, thread |-> "clone", runtime |-> 10,
             interval |-> 1, summary |-> FALSE, latency |-> -1, sched |-> "fifo",
             affinity |-> FALSE]

Init ==
    /\ phase = "constructors"
    /\ table = [i \in {} |-> Zero] /\ count = 0
    /\ config = Defaults /\ optString = NoOptString
    /\ methods = [ping |-> -1, pong |-> -1] /\ infos = [ping |-> 0, pong |-> 0]
    /\ variety = -1
    /\ args = 0
    /\ asked = "none"

-----------------------------------------------------------------------------
\* The registry

MutantGrown ==
    IF count % Increment = 0 THEN [i \in 0..(count + Increment - 1) |-> Zero] ELSE table

\* comm_mode_add's realloc and memset: Increment zeroed slots more
Grown ==
    IF count % Increment = 0
    THEN [i \in 0..(count + Increment - 1) |-> IF i < count THEN table[i] ELSE Zero]
    ELSE table

\* The first slot with the name (comm_mode_do_initialization, parse_comm_mode)
Slots(t, n, name) == {i \in 0..(n - 1) : t[i].name = name}
First(S) == CHOOSE i \in S : \A j \in S : i <= j

\* comm_mode_add, then comm_mode_do_initialization
Construct(name) ==
    /\ phase = "constructors"
    /\ \A i \in 0..(count - 1) : table[i].name # name
    /\ LET added == [Grown EXCEPT ![count].name = name, ![count].initialized = FALSE]
           i == First(Slots(added, count + 1, name))
       IN  table' = [added EXCEPT ![i].ops = name, ![i].initialized = TRUE]
    /\ count' = count + 1
    /\ UNCHANGED <<phase, config, optString, optVars, args, asked>>

\* realloc fails, or errno was not zero before: exit_fail in the constructor
ConstructFails ==
    /\ phase = "constructors" /\ count < Cardinality(Names) /\ count % Increment = 0
    /\ phase' = "refused"
    /\ UNCHANGED <<table, count, config, optString, optVars, args, asked>>

\* main: comm_mode_verify_all, setup_defaults
EnterMain ==
    /\ phase = "constructors" /\ count = Cardinality(Names)
    /\ IF \A i \in 0..(count - 1) : table[i].initialized
       THEN phase' = "options" ELSE phase' = "refused"
    /\ config' = Defaults
    /\ UNCHANGED <<table, count, optString, optVars, args, asked>>

-----------------------------------------------------------------------------
\* parse_opts

MutantParseCommMode(name) ==
    IF Slots(table, count, name) = {} THEN config.mode ELSE First(Slots(table, count, name))

\* An unknown mode falls back to the default.
ParseCommMode(name) ==
    IF Slots(table, count, name) = {} THEN 0 ELSE First(Slots(table, count, name))

\* One more argument of the command line
Reads == phase = "options" /\ args < MaxArgs /\ args' = args + 1

OptMode(name) ==
    /\ Reads
    /\ config' = [config EXCEPT !.mode = ParseCommMode(name)]
    /\ asked' = name
    /\ UNCHANGED <<phase, table, count, optString, optVars>>

MutantOptThread(val) ==
    /\ Reads
    /\ config' = [config EXCEPT !.thread = val]
    /\ UNCHANGED <<phase, table, count, optString, optVars, asked>>

\* parse_thread_mode: an unknown one changes nothing
OptThread(val) ==
    /\ Reads
    /\ config' = CASE val \in {"fork", "pthread"} -> [config EXCEPT !.thread = val]
                   [] val \in {"clone", "thread"} -> [config EXCEPT !.thread = "clone"]
                   [] OTHER -> config
    /\ UNCHANGED <<phase, table, count, optString, optVars, asked>>

OptRuntime(val) ==
    /\ Reads
    /\ config' = [config EXCEPT !.runtime = val]
    /\ UNCHANGED <<phase, table, count, optString, optVars, asked>>

\* llrintl rounds less than half a microsecond ("tiny") to nothing at all;
\* an interval of zero sets only the summary flag.
OptUpdate(val) ==
    /\ Reads
    /\ config' = CASE val = "negative" -> [config EXCEPT !.interval = Defaults.interval]
                   [] val = "zero"     -> [config EXCEPT !.summary = TRUE]
                   [] val = "tiny"     -> [config EXCEPT !.interval = 0]
                   [] OTHER            -> [config EXCEPT !.interval = 2]
    /\ UNCHANGED <<phase, table, count, optString, optVars, asked>>

OptLatency(val) ==
    /\ Reads
    /\ config' = [config EXCEPT !.latency = IF val < -1 THEN -1 ELSE val]
    /\ UNCHANGED <<phase, table, count, optString, optVars, asked>>

\* parse_sched: policy and priority, or nothing
OptSched(val) ==
    /\ Reads
    /\ config' = IF val \in {"fifo", "rr"} THEN [config EXCEPT !.sched = val] ELSE config
    /\ UNCHANGED <<phase, table, count, optString, optVars, asked>>

OptSecretSauce ==
    /\ Reads
    /\ config' = [config EXCEPT !.latency = 0]
    /\ UNCHANGED <<phase, table, count, optString, optVars, asked>>

\* The string is kept until all arguments are read.
OptOption(str) ==
    /\ Reads
    /\ optString' = str
    /\ UNCHANGED <<phase, table, count, config, optVars, asked>>

\* What getopt_long does not know, --stats, --nostats and --priority of
\* usage() included: usage(), exit(EXIT_FAILURE)
OptOther ==
    /\ Reads
    /\ phase' = "refused"
    /\ UNCHANGED <<table, count, config, optString, optVars, asked>>

-----------------------------------------------------------------------------
\* The end of parse_opts, and do_comm_setup

MutantMemsyncInfo == Section

\* setup_memsync_info: the methods sorted by their sequence number, which
\* also is the numbering that usage() shows.
MemsyncInfo == SortSeq(Section, <)

Methods == Len(Section)
MutantInRange(v) == v \in 0..Methods

InRange(v) == v \in 0..(Methods - 1)

\* An index outside the table reads something else.
Info(m) == IF m + 1 \in DOMAIN MemsyncInfo THEN MemsyncInfo[m + 1] ELSE 0

\* comm_spin_parse_options.  After a comma, what is not a number counts as 0.
SpinParse(str) ==
    IF ~InRange(str.first) \/ (str.then = "comma" /\ ~InRange(str.second))
    THEN phase' = "refused" /\ UNCHANGED optVars
    ELSE /\ phase' = "setup"
         /\ methods' = [ping |-> str.first,
                        pong |-> CASE str.then = "end"   -> str.first
                                   [] str.then = "comma" -> str.second
                                   [] OTHER              -> methods.pong]
         /\ infos' = [ping |-> Info(methods'.ping), pong |-> Info(methods'.pong)]
         /\ UNCHANGED variety

\* comm_nop_parse_options: what follows the number is ignored.
NopParse(str) ==
    /\ IF str.first \in 0..(Varieties - 1)
       THEN phase' = "setup" /\ variety' = str.first
       ELSE phase' = "refused" /\ UNCHANGED variety
    /\ UNCHANGED <<methods, infos>>

MutantParseCommOption ==
    /\ phase = "options"
    /\ IF optString # NoOptString THEN SpinParse(optString)
       ELSE phase' = "setup" /\ UNCHANGED optVars
    /\ \E cpus \in 0..3 : config' = [config EXCEPT !.affinity = cpus = 2]
    /\ UNCHANGED <<table, count, optString, args, asked>>

\* comm_parse_options of the mode chosen (comm_parse_no_options says that it
\* has none), then the CPU numbers, if they are exactly two
ParseCommOption ==
    /\ phase = "options"
    /\ LET ops == table[config.mode].ops
       IN  \/ optString # NoOptString /\ ops = "spin" /\ SpinParse(optString)
           \/ optString # NoOptString /\ ops = "nop" /\ NopParse(optString)
           \/ /\ optString = NoOptString \/ ops \notin {"spin", "nop"}
              /\ phase' = "setup" /\ UNCHANGED optVars
    /\ \E cpus \in 0..3 : config' = [config EXCEPT !.affinity = cpus = 2]
    /\ UNCHANGED <<table, count, optString, args, asked>>

\* make_spin_pair: without -o both threads use method 0.
MakeSpinPair ==
    /\ IF methods.ping = -1
       THEN methods' = [ping |-> 0, pong |-> 0] /\ infos' = [ping |-> Info(0), pong |-> Info(0)]
       ELSE UNCHANGED <<methods, infos>>
    /\ UNCHANGED variety

\* make_nop_pair: without -o variety 0
MakeNopPair ==
    /\ variety' = IF variety = -1 THEN 0 ELSE variety
    /\ UNCHANGED <<methods, infos>>

\* do_comm_setup: the operations of the mode chosen, then its make_pair
CommSetup ==
    /\ phase = "setup"
    /\ \/ table[config.mode].ops = "spin" /\ MakeSpinPair
       \/ table[config.mode].ops = "nop" /\ MakeNopPair
       \/ table[config.mode].ops \notin {"spin", "nop"} /\ UNCHANGED optVars
    /\ phase' = "started"
    /\ UNCHANGED <<table, count, config, optString, args, asked>>

\* start_threads and the rest of the run
Started == phase \in {"started", "refused"} /\ UNCHANGED vars

ParseOpt ==
    \/ \E name \in Names \cup {"unknown"} : OptMode(name)
    \/ \E val \in {"fork", "pthread", "clone", "thread", "unknown"} : OptThread(val)
    \/ \E val \in {0, 5} : OptRuntime(val)
    \/ \E val \in {"negative", "zero", "tiny", "some"} : OptUpdate(val)
    \/ \E val \in {-2, -1, 0, 7} : OptLatency(val)
    \/ \E val \in {"fifo", "rr", "unknown"} : OptSched(val)
    \/ OptSecretSauce
    \/ \E str \in OptStrings : OptOption(str)
    \/ OptOther

Next ==
    \/ \E name \in Names : Construct(name)
    \/ ConstructFails \/ EnterMain \/ ParseOpt \/ ParseCommOption \/ CommSetup \/ Started

Spec == Init /\ [][Next]_vars

-----------------------------------------------------------------------------
\* Properties

\* The values the variables take.
TypeOK ==
    /\ phase \in {"constructors", "options", "setup", "started", "refused"}
    /\ count \in 0..Cardinality(Names) /\ args \in 0..MaxArgs
    /\ DOMAIN table \subseteq 0..(count + Increment)
    /\ config.mode \in Nat /\ config.interval \in 0..2
    /\ config.thread \in {"fork", "pthread", "clone"} /\ config.sched \in {"fifo", "rr"}
    /\ optString \in OptStrings \cup {NoOptString}
    /\ methods \in [ping : Int, pong : Int] /\ infos \in [ping : Nat, pong : Nat]
    /\ variety \in -1..(Varieties - 1)

\* The table of modes (comms.c:67-146): the next constructor finds room for
\* its slot after growing, the slots in use carry the operations of their own
\* name, and the rest is zero.
TableSound ==
    /\ count > 0 => \A i \in 0..(count - 1) :
          /\ i \in DOMAIN table
          /\ table[i].ops = table[i].name /\ table[i].initialized
    /\ \A i \in DOMAIN table : i >= count => table[i] = Zero
    /\ {table[i].name : i \in 0..(count - 1)} \subseteq Names

\* What the run uses: whatever arguments came in whatever order, the mode
\* exists, and it is the one asked for last, or the first one.
RunsModeAsked ==
    phase = "started" =>
        /\ config.mode \in 0..(count - 1)
        /\ asked \in Names => table[config.mode].name = asked
        /\ asked \notin Names => config.mode = 0

\* The sync methods spin will call are entries of its table (spin.c:325-326
\* index it with them), also when -o precedes -m or is meant for another mode.
\* A number with something other than a comma after it ("3x") is accepted but
\* sets only ping's method: then nothing holds of pong's.
MethodsInTable ==
    phase = "started" /\ table[config.mode].ops = "spin" =>
        /\ methods.ping \in 0..(Methods - 1)
        /\ optString.then # "junk" => methods.pong \in 0..(Methods - 1)

\* The numbers usage() lists the sync methods under are the ones -o takes, in
\* whatever order the linker laid out the table (spin.c:211, 253): the method a
\* thread runs has as many methods before it as the number given for it.  The
\* variety of nop is the number given, or 0.
RunsMethodListed ==
    /\ /\ phase = "started" /\ table[config.mode].ops = "spin"
       /\ optString.then \in {"end", "comma"}
       => LET Before(info) == Cardinality({i \in DOMAIN Section : Section[i] < info})
          IN  /\ Before(infos.ping) = optString.first
              /\ Before(infos.pong) = IF optString.then = "end" THEN optString.first
                                                                ELSE optString.second
    /\ phase = "started" /\ table[config.mode].ops = "nop" =>
          variety = IF optString = NoOptString THEN 0 ELSE optString.first

\* An option meant for another mode changes nothing: the sync methods are set
\* only when spin is run, the variety only when nop is.
OptionForMode ==
    phase = "started" =>
        /\ table[config.mode].ops # "spin" => methods = [ping |-> -1, pong |-> -1]
        /\ table[config.mode].ops # "nop" => variety = -1
=============================================================================
