# A TLA+ development of test_process_pingpong

`test_process_pingpong` measures how fast two processes can hand control to
each other. A *monitor* process spawns two *threads* (processes made with
`fork`, `clone` or `pthread_create`), *ping* and *pong*. They play a ball back
and forth through one of some twenty communication modes. A timer signal makes
the monitor print statistics, and a stop signal, a time limit or the death of
a thread ends the run. This directory models that program, checks the models
with TLC and proves part of what is checked with TLAPS. File and line numbers
refer to `src/`.

## 1. The system

| part | state it keeps | operations | talks to |
|---|---|---|---|
| mode registry, command line (`comms.c`, `setup.c`, `sched.c`) | the growing table `comm_mode_info`, `config` | constructors `comm_mode_add`/`comm_mode_do_initialization`, `comm_mode_verify_all`, `parse_opts`, `do_comm_setup` | fills `config` before any thread exists |
| run control block (`test_process_pingpong.h`) | `run_data`, shared memory: `ready`, `start`, `stop`, pids, times, `ping_count` | plain stores and loads, no locks | monitor and threads |
| thread startup (`threads_startup.c`) | pids in `run_data` | `init_threads`, `do_fork`, `do_clone`, `do_pthread` | monitor |
| monitor (`threads_monitor.c`, `signals.c`) | `visited`, `in_interrupt`, signal dispositions, the interval timer | `do_monitor_work`, handlers `stop_handler` (SIGINT), `monitor_interrupt` (SIGALRM), `child_handler` (SIGCHLD) | signals the threads, waits for them |
| threads (`threads_children.c`) | place in `do_thread_work`, their `/proc` scheduling data | `do_thread_work`, `interrupt_thread` | `run_data`, stop signal, SIGCHLD |
| statistics (`stats_periodic.c`, `stats_final.c`) | last counter, last time, last resource usage, the threads' copies of `/proc/self/sched` | `gather_periodic_stats`, `show_periodic_stats`, `store_last_stats`, `output_final_stats`, `parse_sched_data` | run inside the monitor's handlers; `wait4` on the threads |
| helpers (`common.c`, `units.c`) | none | `elapsed_time`, `do_sleep`, `page_align_size`, `f_to_fp`, `subsec_string` | called by all |
| communication modes (`comms/*.c`) | pipes, sockets, queues, semaphores, a futex word, a shared word, signals | `comm_ping`, `comm_pong`, `comm_begin`, `comm_pre`, `comm_cleanup` | the two threads, through kernel or memory |

What is hard about it:

* Three signal handlers interrupt the monitor's main program *and each other*,
  each blocking only its own signal; `stop_handler` is also called as a
  function from main and from `monitor_interrupt`.
* SIGCHLD does not queue, and two places reap children (`child_handler` and the
  `wait4` that reads resource usage for the statistics).
* The threads install their own signal handlers while the monitor may already
  be stopping them.
* Handshakes through plain shared variables (`ready`, `start`, `stop`), and
  volleys through store buffers, a non-volatile flag, a futex whose wake may
  come too early, kernel objects that outlive a killed run.
* In pthread mode all three are threads of one process: a signal meant for one
  runs its handler in any of them, and one thread's `exit` is everybody's.
* Numeric edges: runtime 0, interval 0, a counter that wraps, an interval
  without a volley, a file cut in the middle of a line, digits that round over.

`PROJECT.json` lists these as hazards, each at its line.

What makes each part correct:

* monitor: at most one stop sequence; no report while a thread may still use
  the transport or the counters; no thread recorded dead that is alive; the run
  lasts its time, and it ends;
* threads: whatever the moment of the stop signal, the report finds their data;
* modes: one ball, one count per round trip, nobody waits for ever;
* counter: no increment and no interval is lost;
* statistics: the rows cover the run, their columns agree with what happened,
  the table of scheduling data fits its memory and pairs the right lines;
* registry and options: the mode asked for is run, with the options meant for
  it, under the numbers the usage text lists.

## 2. The modules

### Lifecycle: `RunState`, `Children`, `Monitor`, `Lifecycle`

`RunState` declares `run_data`, the kernel's view (pending signals,
dispositions, timer, process table) and the monitor's call stack: `stack` is
the sequence of interrupted contexts (`main`, `INT`, `ALRM`, `CHLD`) and
`pc[c]` the next statement of each. `Children` has one action per shared
statement of `do_thread_work` and of `interrupt_thread`; `Monitor` one per
statement of `do_fork`/`do_clone`, `do_monitor_work` and the three handlers
between which a signal or another process can make a difference; for example
the test of `visited` and its increment are two actions. `Lifecycle` adds the
kernel (`Deliver`, in Linux's order, lowest signal number first; `Tick`), the
clock (`Advance`, in statistics intervals) and the user (`SendSigint`,
`Crash`). The volleys are abstract here: a playing thread waits for its
signal, since none of the loops returns.

Abstractions: pids are `n + 1`, and 0 and -1 keep the meaning the code gives
them; time is counted in statistics intervals; `sigaction`, `setitimer`
succeed; formatted output is left out.

`Run` is the abstract specification of a run as its user sees it: starting,
running, stopping, reported, over. Nobody plays before both threads are ready
and the run has started, the report comes once and over dead threads, and
success is reported only after it. `Lifecycle` maps its state to it (`Phase`,
`ThreadState`, instance `Promise`); `KeepsPromise` says that it implements
`Run` and is checked in fork mode.

`MCScenarios` puts four instances of `Lifecycle` side by side, which differ in
their constants; the variable `which`, chosen at the start, says which of them
is played. In the fourth, `short`, a `clone` may fail, and the monitor then
goes round the loop of `threads_monitor.c:206` (`AnyWait`). Fairness is that of `Lifecycle` for the instance played, and its
properties are `Lifecycle`'s, with `ReportComplete` (`QuietReport` and
`SchedComplete`) and `RunEnds` where they depend on the instance.

### `PthreadRun`

The same program with `-t pthread` needs another model of the kernel, since
`do_pthread` starts the threads inside the monitor's process: one pid (`getpid`
returns the monitor's), one set of pending signals and dispositions, one
`visited` and `in_interrupt`, no SIGCHLD. `frames[l]` is the stack of
interrupted contexts of each of the threads `main`, `ping` and `pong`, and
`Deliver(s, l)` runs the handler of a process-wide signal in any thread that
does not block it (`MainFirst`: Linux's preference for the main thread). A
handler's step is therefore parameterised by the thread it runs in:
`stop_handler` may run in pong, `interrupt_thread` for ping in the monitor.

### Communication: `PingPong`, `CommState`, five transports, `CommModes`

`PingPong` is the abstract specification: the ball is with ping, on its way to
pong, with pong, or on its way back, and `count` counts the serves; something
from outside may call the game off. `CommState` holds what all modes share.

| module | modes | what is modelled |
|---|---|---|
| `FdComm` | pipe, namedpipe, socketpair, udp, tcp, mq, eventfd, inotify | `make_pairs` and how each `make_pair` connects the four ends; queues with their capacities; an eventfd read takes the whole counter, inotify events merge; lost datagrams; EINTR in inotify; messages a killed run left in an mq |
| `SemComm` | sem, busysem | the two semaphores, the ball thrown in by `comm_begin`, posts left by killed runs |
| `FutexComm` | futex | the one word behind two pointers, FUTEX_WAIT's atomic test, FUTEX_WAKE that repeats until it woke somebody, both loops ending on `stop` |
| `FlagComm` | spin, yield | the shared word under x86 store buffers, every pair of sync methods |
| `SignalComm` | signal | handler installation, ready/start, `send_sig`, `signal_catcher`, the flag, read in the loop or (`Hoisted`) once before it |

`CommModes` chooses one mode per run, as `do_comm_setup` does, and states the
properties of all of them. Each transport maps its state to `PingPong`'s
`ball` and `count` (operator `Ball`, instance `PP`).

### `CountRace`

The counter as the statistics see it: an increment is a load and a store;
`gather_periodic_stats`, the abandoned sample when `stop` is set, and
`store_last_stats`, in unsigned arithmetic. race1, nop and yield_nop have one
writer (as has every mode that plays), race2 two; the unrolled variety of nop
loads once and then only stores.

### `Units`, `Report`, `SchedTable`

`Units` has the time and number helpers as operators. A long double is a
fraction, infinity has the denominator 0; `Subsec` gives what the text of
`subsec_string` reads as, digit rule by digit rule, not the characters, and
`ReadsAs` says that such a text is true to its last digit.
`MCUnits` makes each bounded input a state and states what each helper is for.

`Report` extends it: one step per call of `show_periodic_stats` and
`output_final_stats`, with the values they compute, print and store for the
next row; volleys, context switches, deaths and stop requests come in between.
`child_handler` has three steps (`waitpid`, `pid = -1`, `stop = true`), since
SIGALRM may bring a row between any two of them: the `wait4` of a thread marked
with -1 then reaps the other one. A thread may also end between the two `wait4`
calls of one row. The remaining interleavings inside these calls, which change
no number, are in `Monitor`.

`SchedTable` is `parse_sched_data`: two copies of a file with the same lines,
each cut at any byte after the heading (a line is its key, the separators after
it and how much there is of its value), walked pair by pair; `tok[t]` is the
line `strtok_r` returned last for thread t, and `NextLine` the one it returns
next.

`MCStatistics` checks `CountRace`, `Report`, `SchedTable` and `MCUnits` in one
run: the variable `part` says whose behaviour it is, and the variables of the
other three stay in a state of which their properties say nothing.

### `Setup`

Constructors (any order, table growing by `Increment`, allocation failing),
`comm_mode_verify_all`, every sequence of arguments, `comm_parse_options` of
the mode chosen (spin's methods, sorted out of the linker's order `Section`;
nop's variety), `make_spin_pair`, `make_nop_pair`. The strings of the command
line are given already cut into what the code tells apart.

## 3. The runs

All expected to pass unless it says otherwise. Passing runs check deadlock
except `crash`, where the program may really stop (section 6).

| run | question | result |
|---|---|---|
| `scenarios` | runs nobody kills: `fork` (statistics timer, a SIGINT at any statement of the monitor, fork may fail), `ctrlc` (no timer, ^C up to twice, to the monitor and the threads in any order), `clone` (the threads store their own pids), `short` (clone mode without timer, clone may fail, a SIGINT at any statement of the monitor) | `OneStopper`, `StatsQuiet`, `RunsFullTime`, `NoStaleSignal`, `NoThreadNoRun` and, outside `short`, `ReportComplete` and under fairness `RunEnds` hold (102 000 states) |
| `crash` | fork may fail, both threads killed at any place, one ^C, timer at any moment, even before `timeout_time` is set | `QuietReport`, `DeadAreDead` hold (1.2 million states), and `KeepsPromise`: `Lifecycle` implements `Run` |
| `modes` | every communication mode with all disturbances | each implements `PingPong` with its liveness (`KeepsPlaying`); `OneBall`, `BallsKept`, `NoLostWakeup`, `WokenAlone`, `CountVisible`, `NoSignalLost`, `NeverStuck` hold |
| `pthread` | pthread mode with the statistics timer, or without it and with a SIGINT at any statement; signals handled in any thread, `pthread_create` and `set_affinity` may fail, `comm_cleanup` unmaps the word others play on | `RunsFullTime`, `StopNotFatal` and, under fairness, `ReadyRunEnds` hold (94 000 states) |
| `statistics` | the counter with one or two writers and the sampler; every history of volleys, context switches, deaths and stop requests between the rows, a row at any point of `child_handler`; every file of up to three lines after the heading, both copies cut anywhere or missing; the helpers over all inputs of a range | `NoLostIncrement`, `IntervalsAddUp`; `ColumnsAgree`, `RowsAddUp`, `HeaderInTime`; `TableFits`, `RowsComplete`; `HelpersExact`, `TextTrue` hold (1.3 million states) |
| `options` | three modes, every command line of up to three arguments | `TableSound`, `RunsModeAsked`, `MethodsInTable`, `RunsMethodListed`, `OptionForMode` hold |
| `continuous` | `-r 0`: "0 to run continuously" (`setup.c:57`) | **violated**: the timeout equals the start time and the first statistics interval ends the run (`threads_monitor.c:131`) |
| `pipe_cleanup` | a run that ends normally prints its totals (`setup.c:58`) | **violated**: `comm_cleanup` of pipe and namedpipe calls `exit` (`comms/pipe.c:73`) before `output_final_stats` |
| `clone_sigint` | only dead threads are recorded dead (`threads_monitor.c:181`) | **violated** in clone mode: a pid not stored yet is 0 and compares equal to waitpid's 0 |
| `thread_dies` | the run ends by its timeout (`test_process_pingpong.h:241`) | **violated** when a playing thread is killed: the statistics' `wait4` takes its exit status, and `stop_handler` waits for ever |
| `signal_hoisted` | "each thread sleeps until receiving a wakeup signal" (`signal.c:126`) | **violated** if the compiler reads the non-volatile flag once before the empty loop |
| `pthread_stats` | a run that ends normally prints its totals (`setup.c:58`) | **violated** in pthread mode: the first thread that handles its stop signal exits for all (`threads_children.c:108`) |

Bounds, and why they are enough:

* `Runtime` 2 intervals: a tick before, at and after the time limit; 1 in
  `crash`, 0 in `continuous`.
* `MaxSigint` 2 in `ctrlc`: the guard of `stop_handler` is about a second call;
  1 in `fork`, where the second call comes from the timer, nested through
  SIGALRM, and from main; 1 in `short`, before or after the `clone` that fails. `MaxCrash` 2: both threads.
* `Capacity` 2: no queue ever needs more than one place unless disturbed;
  with two, an overflow by a second ball would show. `Wrap` 8, `Width` 4: the
  counter wraps (in `modes`), and runs long enough to run backwards.
* `MaxStale` 2: more leftovers than threads on a semaphore.
* `Increment` 2 with three modes: the table grows with and without content.
  Three arguments: a mode, its option, and one that might disturb them.
* `pthread`: `Runtime` 2 as above; one SIGINT, since a second one that another
  thread takes between test and increment of `visited` gets past the guard
  (section 6), and only without the timer (`SigintTimer`), so that nothing but
  the SIGINT can end the run.
* Rows: the clock has five units in a second and steps of 0.4 s and 1.2 s, so
  that times are below and above a second and cycle times have decimals that
  do not end; two seconds (`MaxTime` 10) have room for five rows, one before,
  between and after the statements of `child_handler`; three volleys give intervals with none, one and two.
* Helpers: numerators and denominators small enough to enumerate, but across
  10, 100 and 1000 and down to the last unit; clock values across the carry.
* `MaxBody` 3: a line before, at and after the one that differs.

Fairness. In `Lifecycle` the scheduler lets each thread run and the kernel
delivers pending signals (weak fairness); the monitor's contexts get strong
fairness one by one: a tick interrupts the code below it again and again, but
the interval (at least microseconds, by default a second) is meant to be longer than
`monitor_interrupt` takes, so the interrupted code runs in between. Without
that a timer faster than its handler starves the monitor. Nothing is assumed
of the user: SIGINT, crashes and failing forks may or may not come. In
`CommModes` both threads run (not given for modes that busy-wait with both
threads under SCHED_FIFO on one CPU), buffered stores reach memory, signals are
delivered and `comm_begin` is called; losses, interruptions and the stop
request have no fairness. `PthreadRun` has the same fairness as `Lifecycle`,
per thread: weak for each thread's next step, strong for the code below a
tick, weak for delivery, timer and clock.

Each property has a mutant, a plausible slip in the code (a dropped guard, a
wait for one thread instead of both, a flag that is not reset, queues crossed,
the serve stored before the count, the counter read again instead of the
sample), which makes TLC
report it violated.

## 4. What is proved

For every value of the constants that satisfies the modules' assumptions: any
runtime, any number of SIGINTs and kills, any capacity, width, frequency, table
size. A hypothesis a theorem adds is in its own column; each one has a reason
in the code, given below the tables.

The run (`LifecycleProofs`, `ReportProofs`, `RunProofs`, `ScenarioProofs`):

| theorem | says | hypothesis |
|---|---|---|
| `TypeCorrect` | `Spec => []TypeOK` | |
| `StopInvariant` | the inductive invariant `StopInv` | |
| `OneStopperHolds` | at most one call of `stop_handler` is past its guard | |
| `StatsQuietHolds` | no statistics run above a stopping `stop_handler` | |
| `QuietReportHolds` | the report is made only over reaped threads | fork mode |
| `DeadAreDeadHolds` | only dead threads are recorded dead | fork mode |
| `RunInvariant` | the inductive invariant `RunInv` | |
| `RunsFullTimeHolds` | the timer ends no run before its time | `PromptStart` |
| `NoThreadNoRunHolds` | a thread that could not be made is never taken for dead, and the run that lacks it is not started, reported or successful | |
| `NoStaleSignalHolds` | `stop_threads` signals no pid that has been reaped | nobody else kills a thread |
| `SchedCompleteHolds` | the report has the data of both threads, if they were started and nobody else killed them | fork mode |
| `CloneReportHolds` | the report is quiet and complete with `clone` too | clone mode, no SIGINT, the CPUs exist, nobody kills a thread that is not playing yet |
| `ReportCompleteHolds` | `ReportComplete` in the scenarios `fork`, `ctrlc` and `clone` of `MCScenarios` | the constants the scenarios share: fork mode outside the scenario `clone`, the CPUs exist, nobody kills a thread that is not playing yet |
| `KeepsPromiseHolds` | `Lifecycle` implements `Run` | fork mode, `comm_cleanup` returns |

The communication modes (`CommProofs`):

| theorem | says |
|---|---|
| `CommInvariant`, `CommTypeOK` | each transport's inductive invariant; `Spec => []TypeOK` |
| `OneBallHolds` | descriptors: one byte, message or event at a time |
| `BallsKeptHolds` | semaphores: no post is lost or added |
| `NoLostWakeupHolds`, `WokenAloneHolds` | futex: nobody sleeps with nobody to wake him; a wake hands the ball over |
| `CountVisibleHolds` | spin, yield: the count is in memory when pong sees the serve |
| `NoSignalLostHolds` | signal: the flag swallows no signal, none comes before its handler |
| `ModesPlayPingPong` | `Spec => PP!Spec`: every mode implements `PingPong`, its liveness apart |

pthread mode (`PthreadProofs`): `PthreadInvariant`, `PthreadTypeOK`,
`PthreadRunsFullTime` (a run nobody interrupts that did not fail at its start
lasts its time) and `StopNotFatalHolds` (the process is never killed by the
stop signals it sends itself once the threads are started), without further
hypotheses, for stacks of any depth.

Statistics (`StatisticsProofs`, about `MCStatistics`): `StatisticsInvariant`,
`CountTypeOK`, `NoLostIncrementHolds`, `IntervalsAddUpHolds`, `RowsAddUpHolds`,
`HeaderInTimeHolds`, `ColumnsAgreeHolds`; `TableFitsHolds` and
`RowsCompleteHolds`, for files of any length; `HelpersExactHolds` and, given
`FromOneFs`, `TextTrueHolds`; and for all inputs, not only those a
run enumerates: `ElapsedExact`, `WakeTimeExact`, `PageAlignedExact` (up to the
last size whose pages fit an unsigned int), `FixedPointNearest`
(`f_to_fp` rounds once and to the nearest) and `SubsecTrue` (the text of
`subsec_string` is true to its last digit for every positive time below 1000 s
whose rounding does not carry).

Setup (`SetupProofs`): `SetupInvariant`, `TableSoundHolds`,
`RunsModeAskedHolds`, `MethodsInTableHolds`, `OptionForModeHolds`; and, given
`QsortSorts`, `SetupTypeOK` and `RunsMethodListedHolds`.

The hypotheses. *Fork mode*: in clone mode the conclusion is false once a
SIGINT comes early, as `clone_sigint` shows. *Clone mode, no SIGINT, the CPUs exist, nobody kills a
thread that is not playing yet* (`CloneCase`): with one of these, a SIGCHLD or
a stop can come before both pids are stored; `ReportCompleteHolds` has the same
for the constants its scenarios have in common. `PromptStart`: section 6, first item. *Nobody else kills
a thread* (`SigintScope = "monitor"`, `MaxCrash = 0`, `BadCpu = {}`): otherwise
`NoStaleSignal` is false (section 6). *`comm_cleanup` returns*: `pipe_cleanup`
shows what happens when it does not. `QsortSorts` says of the C library's
`qsort` that it permutes the methods into ascending order; the prover has no
definition of `SortSeq`, and TLC evaluates it in the run. `FromOneFs`: the
denominators enumerated are at most 10^15, so that no number is below a
femtosecond, the last of `subsec_string`'s units; what is smaller prints as 0.
The proof of `Setup` also
brought an assumption to light: no mode may be called "none", which is what
the model remembers when `-m` was not given.

The arguments:

*OneStopper* is not inductive: that a nested call cannot get past the guard
after the outer one has tested it depends on the discipline of the stack.
`StopInv` adds: each context is within the code of its own function (`CodeOK`);
the stack has no context twice, starts with main, and the contexts on it are
exactly those not idle (`StackOK`); a context past the guard implies that
`visited` is set, that no context above it is past the test, and, from
`stop_timer` on, that SIGALRM has no handler and none runs above it
(`StopperOK`). The proof first
shows that every action is, seen from the stack, a jump, a push or a pop
(`Shape`), and then that each of these keeps `StopInv`.

*QuietReport* in fork mode rests on `ReapInv`: by the time SIGCHLD has a
handler both pids are recorded, so that waitpid's 0 matches none of them; a pid
that does match belongs to a thread just reaped. In clone mode the first half
is false, which is what `clone_sigint` shows. There `CloneInv` says instead
that until both threads are ready nothing happens that could make a difference:
no timer runs, no stop signal is sent, no thread has ended and none can
(`Dormant`). Each thread stores its pid before it says that it is ready, so
when a thread can first be reaped both pids are recorded, and from then on the
argument is that of fork mode (`MarkOK`).

*NoThreadNoRun* holds in clone mode too, where nothing notices the failure: the
pid of the missing thread stays 0, and what protects it is that waitpid never
returns 0 here. `LackInv` says why: a SIGCHLD comes only after the other thread has died, so that `waitpid` finds
that one or no child at all; main spawns only while SIGCHLD is still discarded.
`ready` of the missing thread stays false, which keeps main from `start`, and
its pid never becomes -1, which keeps `stop_handler` from the report.

*ReportComplete* is about three specifications with different constants.
`ScenarioProofs` instantiates `RunProofs` with each scenario's constants, shows
that these satisfy the assumptions, and cites what `RunProofs` proves of one
step: `ForkInv` for `fork` and `ctrlc`, `ClonedInv` for `clone`.

`RunInv` adds the order of main's statements: `start` comes after both `ready`
(`StartOK`), a thread is unborn until it is spawned (`SpawnOK`), whoever set
`visited` stays in `stop_handler` and alone signals and prints (`VisitOK`), no
`stop_handler` is active while SIGINT still has its default action (`IntOK`),
and no sample is ahead of the clock (`TimeOK`). *NoStaleSignal* and
*SchedComplete* need one invariant more each: a thread is reaped only after
`stop_threads` signalled it, and one that was ready leaves its data before it
ends. `KeepsPromise` follows step by step: each action changes
`Phase` as a step of `Run` does, or not at all, and the conditions of those
steps are `QuietReport` and `StartOK`.

`CommInv` is, for the mode that is run, an invariant that lists for each place
of the ball what the kernel object or the shared word holds and how far the two
threads may have come. A step of `CommModes` is a step of that transport
(`ModeStep`), and each such step moves the ball as `PingPong` does or not at
all. In `FlagInv` the store buffers are part of the place: a serve is in ping's
buffer behind its count, so that it cannot become visible first.

`PthreadInv` speaks of all contexts on all three stacks, since any of them may
be interrupted by any handler: a stack has the thread's own code at the bottom
and handlers above, each within its own code (`ShapeOK`); handlers are
installed and threads started in order, by the places of the bottoms alone
(`OrderOK`); if any context anywhere has begun to stop the run, its time is up
or a SIGINT was sent (`FullOK`). Whichever way a stack changes (`Goto`,
`Return`, `Deliver`, `Create`) is described once, by what it does to the
bottoms and to the set of labels in use.

`CountInv` relates the counter to what each writer has loaded and not stored
yet; `RowsInv` adds to the sums where each thread's usage can be (`Accounted`):
nowhere until it is reaped, then in its own column or, when the other was marked
dead already, in the other's, while its own has none; and that the rows since the last header are counted in the period of the
headers. `TableInv` is the invariant of `parse_sched_data`'s loop and takes the
place of an induction over the files: both copies have been read up to the same
line, the rows are those of `Shown` up to there, and each line read has filled
at most one entry, the two of the heading none. That `subsec_string` is true needs
its scaling, a recursive function over the units: the proof gives, for each
number, the values that function must have, and shows that they satisfy its
equation. `SetupInv` says that the table has been grown a whole number of times
and just enough, and what each phase has already decided.

Only model-checked is what is temporal under fairness, which the prover does
not reach: `RunEnds`, `ReadyRunEnds`, `NeverStuck` and the liveness part of
`KeepsPlaying`. Every invariant of a passing run has its theorem, as have
`KeepsPromise`, which is about fork mode in the run as in the theorem, and the
safety part of `KeepsPlaying` (`ModesPlayPingPong`).

## 5. What is not modelled

* benaphore, sendmmsg and spin_unrolled, which the Makefile does not build.
* futex_test, which does not play (section 6).
* Output: the layout of tables and messages, `safe_write`'s checks of its own
  buffer. The CPU-time columns are computed like the context switches, from the
  same `rusage` (their formula, `stats_periodic.c:170`, divides only the
  microseconds by the interval's length). `output_final_stats` computes more
  than it prints; only what it prints is modelled.
* What `split_sched_lines` finds one byte behind the end of a line that is cut
  inside its key or before its second separator (`stats_final.c:102-105`):
  `SchedTable` takes it that this is no separator.
* The CPU speed estimate, `set_priorities`, the CPU latency device, the crash
  backtrace: nothing in the control of the program reads them. Helpers nothing
  calls (`str_to_timeval`, `log_base`, `ipowll`, `init_mlockall`).
* Failure of the system calls of `make_pair` (the program ends before a thread
  exists), of `sigaction` and `setitimer` (the timer's end the program, the
  others are unchecked), and of `mmap` in `map_shared_area` (unchecked).
* The locks inside the C library's `printf`, which the handlers call, and a
  clock that is set back during a run.

## 6. Observations without a run of their own

The first ones follow from the actions as modelled; the constants that show
them are in parentheses.

* The timer is armed (`threads_monitor.c:210`) before `timeout_time` is set
  (217). A tick in between compares with 0 and stops the run at once.
  `RunsFullTime` therefore assumes `PromptStart`; with `PromptStart = FALSE` it
  fails.
* After the statistics' `wait4` has reaped a killed thread, its pid stays in
  `thread_info` and `stop_threads` signals it (`NoStaleSignal` fails with
  `CrashAt = {"play"}`, `MaxCrash = 1`).
* A thread that dies before it is ready (a CPU that does not exist,
  `BadCpu = {0}`) leaves the monitor in the loop of `threads_monitor.c:206`.
* `setup_stop_handler` sets `stop = false` (113) after `child_handler` was
  installed: a request made in between is forgotten (`CrashAt` any place).
* If the second `fork` fails before the first child has called `prctl`, the
  child stays behind waiting for `start` (`SpawnFails`).
* A failed `clone` goes unnoticed: line 88 of `threads_startup.c` tests `pid`,
  the result is in `tid`. The monitor waits at `threads_monitor.c:206` for ever
  (scenario `short`), and after a SIGINT in `stop_handler`; `NoThreadNoRun` says
  what it never does.
* A SIGALRM between lines 172 and 173 of `threads_monitor.c` (177 and 178) calls
  `wait4` with the pid -1. If the other thread has ended too, its context
  switches appear in this thread's column of the "per-thread per-interval csw"
  (`stats_common.h:36`), and its own column has none (`OthersSwitches` in
  `RowsAddUp`).
* A message left in the mq by a killed run puts two balls into play
  (`harm = "disturbed"`): the game goes on, but its counts are no round trips.
* In race2 increments overwrite each other, the counter can run backwards and
  the unsigned interval then wraps: this half of `IntervalsAddUp` is stated for
  one writer.
* In pthread mode a SIGINT before the threads have stored the pid sends no stop
  signal at all, and `stop_handler` waits for ever; `ReadyRunEnds` is
  therefore about threads that are ready. A failed
  `pthread_create` for pong goes unnoticed (`threads_startup.c:110`) and leaves
  the monitor waiting for `ready[1]`.
* Two SIGINTs in pthread mode can be handled by two threads at once, between
  the test of `visited` and its increment (`MaxSigint = 2`); the same goes for
  `in_interrupt`, which `Tick` excludes.
* In pthread mode `/proc/self/sched` is the monitor's for both threads.
* `subsec_string` takes the integer digits from the rounded and the decimals
  from the unrounded number: 0.96 s with one decimal is scaled to ms first, but
  9.96 s reads "0.9 s" and 1.96 s reads "2.9 s". `TextTrue` and `ColumnsAgree`
  exclude the numbers whose rounding carries.
* A copy of `/proc/self/sched` is cut at 3000 bytes, and the value in the last
  row of the table may be cut with it (`RowsComplete` says that only the last
  row can be).
* The context switches of a row come from `wait4(WNOHANG)`, which fills in the
  usage only of a thread it reaps (`stats_periodic.c:41`; `Gathered`): the
  "per-thread per-interval csw" (`stats_common.h:36`) of living threads is
  always 0. `RowsAddUp` holds all the same.
* `subsec_string` prints at most three digits before the point (`units.c:71`;
  `Digits`): a run of 1200 s has an "Elapsed time" of 200.0 s. `TextTrue` and
  `ColumnsAgree` are about times below 1000 s.
* `-u 0`, "0 for no intermediate stats" (`setup.c:56`), sets only
  `stats_summary`, which nothing reads (`OptUpdate`): the timer is armed with
  the interval there was. A value below half a microsecond does disarm it.
* `-o 3x` with spin says "Pong falling back to use ... as with ping"
  (`spin.c:316`) and assigns nothing: pong's method stays -1 (`SpinParse`), and
  line 326 takes the entry before the table.

The others come from reading the code:

* Varieties 1 and 2 of nop do what the listing (`nop.c:41-45`) says of the
  other.
* `-s`, `--stats`, `--nostats` and `--priority`, which `usage()` lists
  (`setup.c:58-59`, `82`), are not in the tables given to `getopt_long`.
* futex_test: the word stays 0, ping waits for the value 1
  (`futex_test.c:75`), FUTEX_WAIT returns at once with EAGAIN, and the loop goes
  on until a return value of 1 that never comes; pong does not leave its first
  loop. Ping counts once.

## 7. Plan

Done: the lifecycle in fork, clone and pthread mode with its abstract
specification, all communication modes the Makefile builds, counter, reports,
helpers, setup; the proofs of section 4, which cover every safety property of
the passing runs.

Left is what the provers do not reach, the liveness properties under fairness,
and what section 5 names.
