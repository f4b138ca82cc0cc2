# Verification of MemoryBenchmarkWindows

TLA+ models of the memory benchmark kept in this repository, the TLC
configurations that check them on small instances, and TLAPS proofs of the
most important results for every value of the constants.

The repository holds one program in several generations. The models are about

* `memory_performance_framework/cpp` – the current console benchmark (C++);
* `mpeshell/src/mpeshell` – the Java shell that runs a console benchmark as a
  child process, watches its report and draws it;
* `mpe/cpp` – the earlier console benchmark, whose binaries the shell unpacks:
  its thread pool, its memory scenario and its parser of the command line.

`memory_performance_framework/asm` is an assembler GUI with an engine of its own,
`legacy/` holds older projects, and the other directories hold binaries and
sample reports.

## 1. Inventory

| component | state | operations | interacts with |
|---|---|---|---|
| **Worker pool** `ThreadsBuilder.cpp` | list of `THREAD_CONTROL_ENTRY`, list of rx handles, one rx and one tx event per worker | build, run, update, restart, release, delete; `threadEntry` in every worker | shares the entries with the workers, without a lock; events in both directions |
| **Memory session** `BenchmarkMemory.cpp` | options, `INPUT_CONSTANTS`, `INPUT_VARIABLES`, repeats, block size, statistics | `execute()` | calls the pool and the domains; `MainTask` deletes both afterwards |
| **Memory domains** `DomainsBuilder.cpp` | node list, simple entry | detect, allocate (simple, per node, exchanged), free | `buildThreadsList` cuts the areas into regions |
| **Command line** `CommandLine.cpp` | `COMMAND_LINE_PARMS` | reset, parse, correct | read by every scenario |
| **Detectors** `ProcessorDetector`, `TopologyDetector`, `MemoryDetector`, `PagingDetector` | bitmaps, cache sizes, page sizes, rights | constructors, `measureTSC`, `findMaxMethod…` | read by the session |
| **Main** `MainTask.cpp`, `Main.cpp` | pointers to all objects | choose and run a scenario, delete objects | owns all of the above |
| **Other scenarios** `SysInfo`, `Timers`, `BenchmarkSorting`, `UserHelp` | none of interest | straight-line reports | – |
| **Task monitor** (Java) `TaskMonitor` | unpacked binaries, child process | unpack, execute, interrupt, delete | `ActionRun`, `ActionInit`, console mode |
| **Directory monitor** (Java) `DirectoryMonitor`, `ReportFileListener`, `ReportToGuiListener` | `alive`, the monitor thread, lines read so far | start, stop, watch loop | the child writes the file, the listener appends to the tables and the drawing |
| **Run action** (Java) `ActionRun` | session thread, buttons | start, stop, close session | event dispatch thread and worker thread |
| **Option boxes** (Java) `MpeGuiList`, `DescriptCombo` | fourteen combo boxes and their descriptors | pick an item, Defaults, Run | their handlers set each other off; the command line of the earlier benchmark comes out of them |
| **Drawing, statistics, reports** (Java) | lists of values | scaling, sorting, median | fed by the listener |
| **Assembler GUI** `asm/ncrb32`, `asm/ncrb64` | its own threads list | its own thread manager | not used by the console program |

What is hard in this code:

* the pool has no lock: two manual-reset events per worker are the whole
  protocol, the main thread resets one, the worker the other, and workers that
  are released early run while the main thread is still releasing the others;
* every system call may fail half-way through a loop over the workers, waits
  time out after a minute, and error paths return with workers still alive;
* the number of workers, the lists' lengths, the limit of
  `WaitForMultipleObjects` and the number of NUMA nodes are independent limits;
* the session's arithmetic on sizes and repeats has to agree with what the
  workers were told, through up to four updates per row;
* between the command line and the first row, options of the user, numbers of the
  platform and results of queries meet in divisions, conversions and array lengths;
* the Java shell reads a file another process is still writing, from one thread,
  while two others may stop it, and paints a model that a third is changing;
* the option boxes depend on each other by handlers that change boxes and run inside
  each other, and their tables must agree with those of another program.

`PROJECT.json` lists the hazards, each at its line, with the properties that
would catch it.

The components of `PROJECT.json` and what makes each correct:

| component | what must hold |
|---|---|
| Worker pool | a round that succeeds was executed by every worker, once, with the parameters last published; no signal or permission is stale or lost; entries are not read while they are written nor after they are freed; every wait ends |
| Memory session | a printed row was measured as it claims; WALK only follows a chain of its size; work stays within the memory, and the memory outlives it; the session ends |
| Memory domains | the detected list is the set of nodes; areas are dealt one to one; regions are disjoint and backed; the list records exactly the allocated areas, and each is freed once |
| Command line | a line is accepted if every argument is understood, the last value of an option counts, and numbers beyond an `int` are cut |
| Detectors | a query writes inside its buffer, which is freed once; summaries describe a topology the system had; exactly the executable methods are offered |
| Main task | a default method and detected sizes give a session that can run; a crash is led to by the command line or follows a failed call |
| Earlier console benchmark | its rounds are complete although its pools may not be; it ends; no thread is terminated in its work or runs on in freed memory |
| Report watch | what is shown is the report, each line once and in order; one monitor thread at a time, and it ends |
| Drawing | the curve has the rows of the session and no others; the picture that stays shows the whole curve under its scale |
| Option boxes | no act of the user leaves boxes that contradict each other or loses an option; the benchmark understands what the boxes show |
| Run, Stop, exit | one benchmark at a time; Run comes back; Stop stops; binaries stay while the window is open; afterwards the shell's own are gone |

## 2. Plan

Written so far, in this order, the most important behaviour first:

1. `ThreadsBuilder` (the pool) and `MeasurementRounds` (its contract), with the
   refinement between them as a property.
2. `ThreadsBuilderProofs`: types, the inductive invariant, four safety results.
3. `BenchmarkMemory` on top of `ThreadsBuilder`: the session as the pool's real
   client; `MCBenchmarkMemory` has its option settings.
4. `DomainsBuilder`: memory areas and regions.
5. `ReportWatch` and `ShellSession`: the Java shell.
6. `TopologyDetector`, and `Startup` on top of it: from the command line to the
   first row; `MCStartup` has the platforms and command lines.
7. `EarlierMemory` on top of `BenchmarkMemory`: the earlier program's pool and
   session, with the same contract of rounds.
8. `Drawing` on top of `ReportWatch`.
9. `OptionBoxes`, with the users of `MCOptionBoxes`.
10. The proofs of every safety property the runs check, but for one of `OptionBoxes`:
    `ThreadsBuilderProofs` (also that the pool implements `MeasurementRounds`),
    `BenchmarkMemoryProofs`, `EarlierMemoryProofs`, `DomainsBuilderProofs`,
    `ReportWatchProofs` (also the drawing), `ShellSessionProofs`, `StartupProofs`
    (also the topology detector) and `OptionBoxesProofs`. Section 5 says how.

Not done, and worth doing next:

1. *That every act of the user ends* and that the exception of `OptionsRestored` is the
   only one: a bound on the statements that an act sets off.
2. *The assembler thread manager* (`asm/ncrb64/threads_manager`) as another
   implementation of `MeasurementRounds`: its worker resets its start event
   before it signals, not after it was woken.

## 3. The models and the code

### ThreadsBuilder – the pool

One main thread and `N` workers. `stage` and `call` say which operation of the
class the main thread is in, `k` at which entry of its loop. Each loop is
modelled one entry per step, since workers that were released early run while
the loop goes on; only `Build` is one step, because its threads are created
suspended.

| code | model |
|---|---|
| `THREAD_CONTROL_ENTRY` | `entry[t]`: the job (method, size, repeats) and `terminate` |
| `rxEventHandle`, `txEventHandle` | `rx[t]`, `tx[t]` |
| `buildThreadsList` | `Build` |
| `runThreads` | `CallRun`, `ResumeWorker` for each entry, `Await` |
| `updateThreadsList` | `CallUpdate`, `UpdateEntry` for each entry |
| `restartThreads` | `CallRestart`, `ResetRx` for each, `SetTx` for each, `Await` if it waits |
| `releaseThreadsList` | `CallRelease`, `JoinWorker` for each entry |
| `~ThreadsBuilder` | `Delete` |
| `threadEntry` | `Test`, `ReadEntry`, `Work`, `SignalRx`, `WaitTx`, `ResetTx`; after the list is freed, `ReadFreed` |

`Failures` is the set of calls that may fail; a failing call returns from the
operation where the code does. `HeldUp` says when the main thread is in a wait that only a
timeout or a failure could end; the fairness of the sessions stops there. The history variables `issued`, `asked`, `ran`
and `done` count the rounds and are read by properties only.

### MeasurementRounds – the contract

What a benchmark needs of a pool, without events, loops or program counters: a
round hands a job to every worker, each executes it once, and the round
completes after all have. `Contract` in `ThreadsBuilder` is the refinement
mapping: `RoundPhase` from `stage`, `call` and `status`, and the workers that
still owe a round from `ran` and `issued`.

### BenchmarkMemory – the session

Extends `ThreadsBuilder`: `Script` is `execute()` cut at its calls of the pool,
and takes the place of `Client`. `want` is the session's `INPUT_VARIABLES`,
`repeats1` the variable `opRepeats1` of the row's arithmetic, `chain[t]` what
BUILD left in a worker's block. Sizes are in instructions; the numbers of repeats
are names (`Initial`, `Calibrated`, `Adaptive(size)`), since no row depends on
their value but every row depends on which of them was used.

### DomainsBuilder – memory

The constructor's loop over node numbers, the allocation with its failures, the
exchange for `numa=remote`, the double loop of `buildThreadsList` that deals
regions, and the release. The program is sequential there, so it is a state
machine with loop indices `i` and `j`. After an error the program returns without
the release (`pc = "returned"`): `FreesExactly` says what stays allocated then, namely what
the list records.

### TopologyDetector – the lists of the system

The constructor is two loops, one for each of two functions of Windows: call,
and if the list does not fit, free the buffer and allocate one of the length the
call has set. `QueryFills`, `QueryGrows`, `QueryFails` and `QueryAbsent` are the
outcomes of one call. The topology may change between calls (`MachineChanges`),
so a list may outgrow the buffer that was just allocated for it. `Decode` then
reads each buffer if its length is not 0, whatever happened before: a buffer
that was never written decodes to any element of `Garbage`, or, for the extended
function whose entries carry their own length, hangs or runs out of the buffer.
Lengths count entries; an entry (`Entries`) is what the decoder looks at. `Decoded` is
its loop over the entries, `Counted` one turn of it.

### Startup – from the command line to the first row

`pc` follows `maintask` for `test=memory`; the other scenarios go to `delete`.
`ParseArgument` is one turn of the parser's loop. `Keys` and `Options` are the
tables of `CommandLine.cpp`; values are already split from their names. A number goes
through `atoi` (`AsciiToInt`), whose result beyond an `int` C leaves open and the Windows
libraries set to the largest one. An argument of more than 80 characters overruns its buffer,
because the check of its length tests another variable (`CommandLine.cpp:185`): what is
behind the buffer decides whether the parser goes on or the program crashes, so the model
has both. `mapCpu` and `mapOs` are the tables of `ProcessorDetector.cpp`,
`BuildBitmap` the loop over them and `Patched` one turn of it. `Method`, `ObjectSize`, `Refused`, `Repeats`
and `Threads` are the decisions of `execute()` before it allocates; `CountRows`,
`Calibrate` and `Measure` have its divisions. `Round` is what a call of the pool
can come to with the numbers it is given: `BenchmarkMemory` models how. It crashes also on
a method that is not `Executable`: what an instruction needs of the processor and of the
enabled states is the only part of this module that is not in the code.

`IntModulus` and `ThreadModulus` are 2^32 and 2^16 scaled down, because reaching
the real ones needs sizes beyond TLC's integers; every other number is the code's.
Out of this model is the loader's detail: without its three libraries `maintask`
ends.

### EarlierMemory – the earlier program

Reuses the session and the pool's actions and replaces those that differ: a pool
whose build failed is run nevertheless (`EarlierBuild`, `EarlierResume`,
`EarlierAwait`), and threads are ended by `TerminateThread` (`KillWorker`). Of a pool
whose build failed at the events of a thread, that thread is there and its entry is blank
(`blind`): once it is resumed, the null pointer of its functions ends the process (`Crash`).
`EarlierRounds` is the instance of `MeasurementRounds` for it.

### ReportWatch – the report in the shell

Three actors: the child, which appends parts of lines; the benchmark thread
(`runBenchmark`); and one `DirectoryMonitor` thread per session. `alive`, `flst`
and `dlst` are shared as in the code. The watch key is one boolean: events that
wait in it are handled like one, because the handler reads the whole file. Reading
the file is one step; the listener shows one line per step. A last line without
its end is read as it is, and it is not shown again when it has become whole.

### Drawing – the picture

Extends `ReportWatch` by `DrawModel` and the repainting. Three threads change or
read the model without a lock: the event dispatch thread resets it when Run is
pressed and paints it, the benchmark thread sets it up, and the monitor thread
adds a point after each row, fits the scale, and asks for a repaint. `paint()` is
two steps, since it reads the scale well before the points. It reads the number of
points and the array in one step (their lines are adjacent, and the array is
replaced only while there are no points). The change to a smaller delta of the
scale is left out, and so is a scale of 0, which `paint()` divides by: it would
need a report whose rows are all 0. `Followed` bounds the delays with which the
drawing is followed; in the other behaviours only the watch is.

### ShellSession – Run, Stop and exit

The event dispatch thread (`edt`), a thread for each press of Run (`session`),
the children, and TaskMonitor's files on disk (`disk`) and in its fields
(`refs`). A second TaskMonitor, of the `ActionInit` that asks for the system information
before the window is shown, has unpacked the same files into a directory of its own
(`spare`); nothing deletes them. `closeOp` and `runStop` are written by the benchmark threads and read
by the event dispatch thread.

In this module the watch part of `runBenchmark` is a stretch that comes to an end,
which is `StopReturns` of `ReportWatch`. `ReportWatch` in turn runs sessions one
after another, which is `OneChild` of `ShellSession`.

### OptionBoxes – the options of the shell

`boxes` holds the fourteen combo boxes with what their descriptors remember. A step
is one act of the user with every event it sets off, since all of it happens on the
event dispatch thread before the next act. A handler becomes a list of statements, put
before those that are still to be done where its box was changed, and `Done` executes
them to the end: `Execute` has the statements, `React` the `switch` of `changesMonitor`,
and a box that is changed fires and brings the statements of its own handler. What Swing adds
to this – when a box fires, that it does not fire while it is firing, that an item
outside the list is an exception – is external. What the boxes do after
an exception is not followed. `Done` executes `Most` rounds of `Most` statements, 20 of 20,
and an act that is not done by then counts as failed; the run shows that none is
(`OptionsRestored` would be violated). The code has no such bound. It makes `Done` a
function the provers can reason about.

`PressRun` is what the benchmark thread does before the child starts: the boxes are
disabled and `CommandLine` is composed. `Parsed`, `Accepted` and `Parameters` are the
parser of `mpe/cpp`, in the program of one of the two widths. Both sides have
their own table of names, taken each from its source. `CustomScale` and `AxisMode` are
what the drawing is told; the scales for the caches come from the system information
and are left out, as are the texts and colours of the items.

### Delays

The two Java modules have a constant `DelaySets`. The code relies on some things
being fast: that a thread has started before a child, that an event arrives within
100 ms, that the buttons are grey before the next click. Each element of
`DelaySets` is a set of such things that are *not* so in a behaviour, and each
property says under which of them it holds. The code sleeps and polls but never
checks these orders. The models show what happens without them:

* `"start"`: a monitor thread that starts after the stop sets `alive` again and
  never ends (`DirectoryMonitor.java:36`), and it handles the next session's events too;
* `"press"`: a second press of Run comes before the first has disabled the
  buttons and starts a second benchmark on the same report (`MpeGuiList.java:481`);
* `"alive"`: a child that is over before it is seen alive is waited for without end
  (`TaskMonitor.java:213`);
* `"lock"`: `deleteBinaries` sets its fields to null even when a file cannot be
  deleted, and the second pass reports success (`TaskMonitor.java:156`);
* `"close"`: between the listener and the frame a session ends, and the frame
  exits without the files having been deleted (`MpeGui.java:410`).

## 4. The runs

| run | module, cfg | what it shows | distinct states |
|---|---|---|---|
| `pool_failures` | `ThreadsBuilder`, `…Failures` | with every call failing or timing out: rounds that succeed are complete, no signal or permission is stale or lost, entries are race-free, and the pool implements the contract | 19 600 |
| `session` | `MCBenchmarkMemory`, `BenchmarkMemory` | with any call failing or none: rows are true, WALK follows BUILD, work stays in the memory, which outlives it; the session uses the pool legally and ends, with every row unless a call failed, and without the help of a timeout | 93 583 |
| `domains` | `DomainsBuilder` | detection, exchange, layout and release for every set of nodes, and what an error return leaves allocated | 2 756 |
| `watch` | `Drawing` | the shown lines are the report and the curve its rows; the last picture is whole; one monitor, which ends | 257 165 |
| `shell` | `ShellSession` | one benchmark at a time, Run comes back, and an exit that leaves no child and exactly the files of `ActionInit` | 590 810 |
| `startup` | `MCStartup`, `Startup` | the parser, the bitmaps, the topology and the settings of a session are right; a crash or hang is led to by the command line or follows a failed call; `maintask` ends | 616 944 |
| `options` | `MCOptionBoxes`, `OptionBoxes` | the boxes agree with each other after every act of the user, the earlier benchmark understands them, and they are restored after a change of Action, except for a custom block | 16 568 |
| `earlier` | `MCEarlierMemory`, `EarlierMemory` | the earlier program: its rounds keep the contract, no thread is cut in its work or left in freed memory; it ends, with every row unless a call failed | 51 558 |
| `calibration_failure` | `MCBenchmarkMemory`, `…Calibration` | finding, see below | – |
| `descending_sizes` | `MCBenchmarkMemory`, `…Descending` | finding | – |
| `domain_ratio` | `DomainsBuilder`, `…Ratio` | finding | – |
| `early_stop` | `ShellSession`, `…Stop` | finding | – |

`PROJECT.json` has a mutant for each property of the first eight runs: a plausible
mistake in one definition, kept as an operator in the module (its comment begins
with "Mutant"), under which the property is violated.

**Bounds.** *Pool:* three workers, so that one can lag, one be on time and one be
ahead; three rounds (`MaxRounds`), so that a signal can be stale by one round and
a permission can be lost in a later one; two jobs, so that an old job differs from
a new one. The proofs cover every number. *Session:* two workers; block lists of
one to three rows, one of which does not reach `end` (1, 4, step 2); `MaxRounds`
is never reached. *Domains:* three node numbers give gaps and exchanges of two and
three; one to four threads give ratios that divide and that do not. *Watch:* two
sessions with one monitor object; three parts in two lines, so that a line can be
read before it is whole; `ExtraWait` is 1 instead of 10. Two rows of
different values make a scale that only the first one sets, and an array for one point drops the
second. *Startup:* two topologies of different lengths and one change, so that each
list can outgrow its buffer once and the two functions can answer differently; one is a
hybrid whose first-level caches differ; five processors from none of the features to all, with the two
halves of AVX512 support apart; 31 command lines with each option, each order of
a repeated option, values at 0, the limit of the list, the width of the number of
threads, of the arrays and of an `int` (4096 for 2^32, so that 2047 is the largest),
arguments that are too long, and methods that not every processor has enabled. The list of threads has 8 entries instead of 256 and a
wait takes 4 handles instead of 64. *Earlier:* two workers, one to three rows.
*Options:* the boxes are picked from by
twelve users, of whom one uses two or three items of every box that depends on another, and the others
every item of one box, so that every word and number goes through the parser while the
product of all boxes stays small; `numa`, `page`, `ht` and `threads` depend on no box but Action.
*Shell:* two presses of
Run; two passes of deletion instead of 50, enough for the second to find the fields
null; the set of files of `ActionInit` is complete (`SpareCounts = {5}`), since nothing in the
shell depends on it. The delay sets are those in which a property is claimed and a
hazard is met.

**Fairness.** Weak fairness only. The main thread and each worker are runnable
threads the operating system schedules; a worker that waits on an event is enabled
when the event is set and stays so, since only it resets it. The Java threads
likewise; in `Drawing` the event dispatch thread paints when it was asked to, and
a press of Run that was made leads to its session. `Startup` is one thread, which
runs until it ends: the topology changes a bounded number of times
(`MaxChanges`), without which the loop of queries need not end. A child process comes to its end, by finishing or by being killed. No
fairness is put on the user, on the client of the pool that chooses to ask for
another round, or on failures. `session` and `earlier` put the session's script
under the main thread's fairness, because it has no choices to wait for, but not its steps
out of a wait whose signals are missing (`~HeldUp`, `~EarlierHeldUp`): in `SessionEnds` and
`EarlierEnds` a lost signal hangs, as it would for the minute of `THREAD_TIMEOUT`, and is
not rescued by the timeout. Only their last conjuncts, which claim that a session ends
whatever fails, have the timeouts come.

**Deadlock** is checked in every run: each module has an explicit stuttering
action for the states in which the program has ended.

## 5. Proofs

Every safety property of the passing runs is a theorem, for every value of the constants,
except `OptionsRestored` of `OptionBoxes`. Each proof module extends the module it is about.

| module | obligations | assumes | proves |
|---|---|---|---|
| `ThreadsBuilderProofs` | 738 | `PoolAssumption` | `RoundComplete`, `SignalsAreNew`, `NoLostContinue`, `NoEntryRace`, `ImplementsRounds` |
| `BenchmarkMemoryProofs` | 990 | also `BenchmarksAssumption`, `JobsAssumption`, `RoundsAssumption` | `RowsAreMeasured`, `WalkFollowsBuild`, `MemoryOutlivesWork`, `WorkInsideBlock`, `PoolUsedLegally` |
| `EarlierMemoryProofs` | 860 | the same | `CutsNoWork`, `NothingRunsInFreed`, `EarlierRounds` |
| `DomainsBuilderProofs` | 1403 | `DomainsAssumption` | `NodesAreDetected`, `AreasMatchOption`, `RegionsAreOwn`, `FreesExactly` |
| `ReportWatchProofs` | 2406 | `WatchAssumption`, `DrawingAssumption` | `OneMonitor`, `ShownInOrder`, `ReportComplete`, `CurveIsReport`, `FrameIsCurrent` |
| `ShellSessionProofs` | 705 | `ShellAssumption` | `OneChild`, `OpenKeepsFiles`, `ExitLeavesSpare` |
| `StartupProofs` | 2540 | `TopologyAssumption`, `LinesAssumption`, `PlatformAssumption` | of the topology detector `BufferFits`, `BuffersOwned`, `DecodesWritten`, `SummaryIsTrue`; of the start `BuffersSafe`, `ParseIsExact`, `MethodsAreExact`, `PlanIsLegal`, `CrashIsAskedFor` |
| `OptionBoxesProofs` | 5195 | nothing but the type of the constant | `BoxesAgree`, `OptionsUnderstood` |

**What is assumed of the constants.** `PoolAssumption`: at least one worker, a non-empty set
of jobs, a limit and a bound in `Nat`, any set of failing calls. The session's: settings are
settings, its jobs are among the pool's, and the bound on rounds is above what a session
asks for, so that it cuts no behaviour. `WatchAssumption` has at least one poll after the
stop (`ExtraWait`, 10 in the code): with none the monitor would stop before it has read the
last event. `DrawingAssumption`: arrays of at least one point, a positive base and step of
the scale. `TopologyAssumption`: lists are not empty. `LinesAssumption`: a command line is a
list of arguments, long or not, and the numbers in it are written in digits. `PlatformAssumption`: no cache is smaller
than 512 bytes; the standard function lists the cores of one group of processors, so at most
64, and twice as many threads fit into the list of 256 entries; an `int` holds 512; a
measured time is positive.

Four theorems have a hypothesis. `RegionsAreDisjoint` and `AreasAreFreed` suppose
`NumaAllocation`, that `VirtualAllocExNuma` was found, which every Windows since Vista has;
without the function both properties are false, since the nodes' areas stay null pointers.
`PictureIsCurrent` supposes that no followed behaviour has a monitor thread that starts
late. That is needed: with `Followed = {{"start"}}`, `MaxSessions = 3` and `Parts = 1` TLC
finds a late monitor that adds a point between the two resets of a press of Run, which
violates it. `WorkFitsBlock` supposes `start <= end`, which the run `descending_sizes` shows
to be needed.

### The pool

`PoolTypeCorrect` is inductive by itself. The four safety properties are not: that a round
is complete when `Await` returns depends on where each worker was when the round began.
`PoolInv` says, for each place of the main thread, what a worker may be doing:

* between rounds every worker is `Parked`: blocked, its rx event set, its tx event not, all
  rounds executed;
* before its release in a round it is `Fresh` (first round, still suspended) or `Owing`
  (blocked, one round behind);
* after its release it is `Busy` (rx not set, one round behind), `Signalling` (work done, rx
  not yet set), or already `Parked` again.

For the worker that is released, `Busy` says that its tx event is not set once it is past
`ResetTx`. This is why the worker's own reset cannot erase the next permission: the main
thread can only give one after it has seen rx, which comes after. `InRoundStep` proves it
for the steps of a worker, `MainLoopKeepsInv` and `ClientKeepsInv` for those of the main
thread. After a failed call nothing is said of the workers, and nothing needs to be for
these four: the client may only delete the pool then.

The refinement (`PoolImplementsRounds`) needs more. A step of a worker that was left behind
by a failed round still has to be a step of the contract, so `RefinementInv` adds where such
workers can be: in their round, owing it, or never started (`FailedInv`); told to terminate,
so that none gets to work again (`StoppedInv`); and, once the list is deleted, at work only
if they still owed that round (`DeletedInv`). Then each action is mapped on its own:
`CallRun` and `CallRestart` begin a round, `Work` is a worker's execution of it, `Await`
completes it, any call that fails gives it up, the last wake-up and `Delete` retire the
pool, and the other steps of the loops and of the workers stutter.

### The session

`BenchSpec` replaces the pool's client by `execute()`, so what is proved of the pool holds
only as long as the script keeps to the pool's order of operations. It does not always: the
calibration passes over a failed round (`ignored`), and after a failed round the method is
put back while workers may still read the entries. `Sound` says that neither has happened,
and `BenchInv` has `Sound => RefinementInv`. `ScriptInv` relates the place in the script to
the stage and the call of the pool, to the job last published, to the block and to the
number of rounds asked for. With both, `StepsAreLegal` maps every step of the script to one
of `PoolNext`, which is `PoolUsedLegally`. `ChainInv` follows the chain in each worker's
block through BUILD, the change of the method and WALK: it fits what the entry says, what
the worker has read and what it is about to do. `SizesInv` bounds all sizes by
`maxSizeBytes` and is inductive only with `start <= end`.

### The earlier program

Up to its release, a session whose pool was built completely takes only steps of `BenchNext`
(`AlikeMoves`), so that `ScriptInv` and `RefinementInv` can be used again. What is new is in
three other parts of `EarlierInv`: the pool that was built in part gets one round, which is
given up (`IncompleteInv`); the release terminates only threads that wait, unless a failed
round was ignored (`CutInv`), and whoever it leaves behind when it fails half-way is blocked
for good (`ReleasedInv`).

### The memory domains

`DetectionInv` is the loop invariant of the detection: the entries listed so far are the
nodes below the index. `AreasInv` says what each loop has done up to its index: areas
allocated in order (`AllocateInv`); the exchange as a chain in which every entry up to the
index has its successor's area and the entry at the index the first one's (`ExchangeInv`);
regions dealt (`ThreadsInv`); areas freed (`FreeInv`). Through all of it no two entries have
the same area (`DealInv`). `RecordInv` adds that the list records exactly the areas that are
allocated (`RecordAllocated`, `RecordExchanged`, `RecordReleased` for the steps that change
both), which also holds where the program gives up: `AreasAreFreed` follows from both.

### The report watch and the drawing

`WatchInv` has the types and the monitor's local variables for all behaviours, and the rest
only for those in which no monitor thread starts late: whose turn it is (`TurnInv`: only the
current session's monitor is alive), whose report it reads (`ReadInv`), what its listeners
have counted and shown (`ShownInv`) and what an event still stands for
(`CompleteInv`: a line that was not shown yet is in the file of an event that waits, is
being handled, or will come before the monitor has made its last poll). `DrawingWatches`
shows that every step of the drawing is a step of the watch or leaves it alone, so the
theorems about the watch hold with the drawing and without it. `DrawInv` adds the press of
Run on its way (`OpeningInv`), the point that is being added (`AddingInv`), the curve as the
rows among the lines shown (`CurveInv`), the scale, which covers every point but the one
being added (`ScaleInv`), and the frame, which is the model's picture unless a repaint waits
or goes on (`FrameInv`).

### The shell

`ShellInv` has the types for all behaviours; without a second press before the buttons are
grey, `TimelyInv`: at most one benchmark thread is under way, the buttons and the close
operation show how far it is, a child lives within the waits of its own session, and the
files are there as long as the window is open; and, when also no file is locked and no session
ends inside a closing of the window, `LeavingInv`: the deletion takes place when no child is
left, and its first pass clears the disk. The set of `ActionInit` is touched by no step, so
`ExitLeavesOneSet` can say exactly what is left of both.

### The topology detector

`BufferFits` speaks of the loop that is running, and does not survive the step to the next
loop; `DecodesWritten` speaks of the time after both. `TopologyInv` adds to them what holds
of each buffer in every place: as long as its loop has not been left, its length is no more
than its room (0 before the first call); afterwards, unless a call failed, it was written,
has the length of what was written and fits; and the number of its blocks follows from its
pointer. The only hard step is `QueryGrows`, which replaces the buffer or loses it.

`SummaryIsTrue` compares the decoder's loop with `SummaryOf`, which counts without one. The
installed provers cannot instantiate the library's induction theorems, whose parameter is a
predicate; over a *set* of numbers induction follows from the well-founded order of `Nat`
(`NatMin`, `SetInduction`), and the set of the `k` after which the loop has the summary of
the first `k` entries is all of them (`DecodingSummarizes`, with `SummaryStep` for one
entry). `DecodedIsLoop` shows that the recursive function is the loop.

### The start

`StartStep` shows that every step of `maintask` is one of the detector's or leaves it alone.
What is proved of the detector alone thereby holds of the whole start.

* `ParseInv`: after `n` arguments every option has the value of the last of them that names
  it (`ParsedFirst`), all `n` were understood, and the rest of the line is what waits.
* `MethodsInv`: `BitmapIsLoop` turns the loop over a table into a sequence of sets, which
  `CpuBitmap` and `OsBitmap` follow row by row: `AVX512` and `FMA512` are patched several
  times. `BitmapsMeet` compares the result with the requirements of
  each class, in each of eleven cases.
* `PlanInv`: for each setting, whether the user, the topology or the program itself has made
  it (`PlanFrom`). From it `SizesFrom` bounds the sizes, and `Fifteen` shows that (2s - s/8)
  / (s/8) is 15 for every s >= 512, with both divisions rounded down. `CrashIsAskedFor`
  needs all of these invariants at once (`SettingsInv`): which crash can happen in a round
  depends on the method, the number of threads and the sizes.

`ParseIsExact` uses the parser's own `Accepted`, but not what it stores: a number must be the
one that is written (`Fits` says when) or the largest `int`, and a word the one at the
stored position of its table (`StoredIs`, `KeyValue`).

### The option boxes

A handler changes a box, whose handler changes others, and the properties hold only when all
of them have returned. The proof is about the states between two statements. `Good` says
of such a state:

* the list of statements is in order: a box that is emptied is filled next (`Refills`); what
  comes before the end of a handler belongs to that handler or to one it called (`Nested`,
  with `Within` for what each handler may bring); boxes are switched and sizes filled only
  within the handlers that do that (`Caused`); Defaults enables a box only when it is
  available or will have been switched (`EnableOrder`);
* what the properties say holds, or is still to be done: a box has the number of
  its items or is being filled (`Counted`), is available as Action says or is still to
  be switched (`Switched`), remembers what it shows or its handler runs (`Remembered`); a
  size without a custom block, or both kinds of repeats, are about to be corrected (`Agreeing`);
* a box is `firing` exactly when the end of its handler is in the list.

A change of a box whose handler runs is ignored, so what it should have set off must follow
from the handler that runs: `Remembered` and `Agreeing` need `Nested` for that. Each kind of statement has a lemma that it keeps `Good` (`SelectingKeeps`, `SwitchKeeps`,
`RememberingKeeps` …), `TurnKeeps` combines them, `DoneKeeps` follows the rounds. The
lists that Pick, Defaults and the start begin with are good (`ActStarts`, `DefaultsSettle`,
`ConstructionStarts`), and with an empty list `Good` says `BoxesAgree` (`SettledAgrees`).
`BoxesInv` keeps it across a run, whose start disables every box.

`OptionsUnderstood` follows for boxes that show values of theirs (`Selected`): `LineShows`
turns the union of the options into one option for each box shown, whose names differ
(`NamesDiffer`), so each is found (`ParameterSaid`) and read as it is meant
(`OptionParsed`, which compares the two tables of 37 methods word by word, and for the
sizes undoes the rounding of `printRoundSize`).

**Model-checked only:**

* liveness (`SessionEnds`, `EarlierEnds`, `MonitorEnds`, `StopReturns`, `SessionReturns`, `StartEnds`):
  fairness and `ENABLED` are out of the prover's reach;
* `OptionsRestored`: it says exactly when an act ends in an exception, for which one would
  have to prove that every act ends, and follow the twelve boxes through their handlers.

## 6. Findings

1. `calibration_failure`: the result of the calibration's WALK round is
   overwritten (`BenchmarkMemory.cpp:454`). After a timeout the session
   restarts workers that have not ended their round, and their late signals end the
   new wait.
2. `descending_sizes`: with start > end the number of rows is right but the size
   still grows from start (`BenchmarkMemory.cpp:584`), past the memory.
3. `domain_ratio`: with several NUMA domains every thread that runs belongs to the
   first (`ThreadsBuilder.cpp:182`).
4. `early_stop`: Stop pressed before `exec` has returned reaches no child or the
   last session's (`TaskMonitor.java:263`).

`session` takes start <= end, because of finding 2, and latency with calibration only
with one row.

Seen while modelling, and part of the models, without a run of their own:

* all rx handles go to one `WaitForMultipleObjects` (`ThreadsBuilder.cpp:380`),
  which takes 64, while the option allows 256 threads: 65 threads and more always
  end in an error;
* the check of the number of threads (`BenchmarkMemory.cpp:265`) reports and goes
  on, so more than 256 write past the list, and from 65536 on the number is cut
  to its low 16 bits;
* the check "supported by OS context management" (`BenchmarkMemory.cpp:95`) looks at
  `cpuBitmap` a second time: a method named by the user that the system does not
  enable is not refused, and its first instruction crashes the program.
  `CrashIsAskedFor` says so;
* the check "Option too long" never fires, since it tests the variable of the last
  search (`CommandLine.cpp:185`), and `strcpy` writes a long argument over the end of
  `cmdName`. `CrashIsAskedFor` says so;
* a number beyond an `int` is taken for the largest `int` (`CommandLine.cpp:230`, `271`), also
  for block sizes, which are kept in 64 bits. `ParseIsExact` says so;
* an error while areas are allocated or threads created leaves the areas allocated until the
  process ends (`DomainsBuilder.cpp:241`). `FreesExactly` says so;
* "called ONCE when RUN Java application session" (`TaskMonitor.java:67`, and `139` of the
  deletion): `MpeGui.java:311` makes a second `ActionRun`, which unpacks a second set that no
  exit deletes. `ExitLeavesSpare` says so;
* the earlier program runs the threads of a pool that could not be built, and a thread
  whose entry is still blank calls through a null pointer (`mpe/cpp/ThreadsBuilder.cpp:181`).
  `EarlierEnds` says so;
* when one repeat takes more than a second, or the clock could not be measured, the
  calibrated counter of repeats is 0 (`BenchmarkMemory.cpp:466`), and the kernels count
  down from it. `PlanIsLegal` says so;
* "save states for restore after return from n/a state" (`MpeGuiList.java:156`) does
  not hold for a custom block: Memory is restored before the boxes of the sizes are
  refilled and selects items they do not have yet (`MpeGuiList.java:110`). The exception leaves
  the boxes half restored. `OptionsRestored` says so;
* `memory=custom` is no word of the parser. It is sent when a custom block has a size
  on auto (`MpeGuiList.java:263`), and the benchmark refuses the line.
  `OptionsUnderstood` says so;
* `asm=` with one of the two latency walks runs over a chain nobody has built;
* a topology query that fails after its buffer was allocated leaves garbage to be
  decoded (`TopologyDetector.cpp:94`).

## 7. Not modelled

Printing and file output; affinity and priorities, which do not change what the
protocol allows; the benchmark kernels, which only read and write their block; the
memory detector, system information, timers, sorting and help, which are
straight-line reports; the statistics of both programs, a sort and a few
formulas over the rows; the system-information run and console mode of the
shell, which repeat `runBenchmark` without a user; the other
buttons of the window, which write texts and files, with the reset of the drawing
by Clear; that a stop gives up also on a monitor thread that has seen the flag and needs more than
ten seconds for its last polls; and Load, which the program keeps
disabled; the detectors of the earlier console program, earlier versions of those in
`Startup`; the assembler program (planned); the legacy projects, of
which several hold further copies of the same sources; sample reports and
binaries. Sizes are not rounded to pages, so `RegionsAreOwn` is about the area
asked for, not the padding after it.
