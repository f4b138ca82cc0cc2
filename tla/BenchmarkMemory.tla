-------------------------- MODULE BenchmarkMemory --------------------------
(***************************************************************************)
(* BenchmarkMemory::execute (memory_performance_framework/cpp): the        *)
(* scenario that drives the worker pool. It allocates the blocks, builds   *)
(* and starts the pool, calibrates the number of repeats, measures one     *)
(* block size after another, stops the workers and frees what it took.     *)
(* MainTask then deletes the pool and ends the process.                    *)
(*                                                                         *)
(* A latency measurement takes two rounds per block: BUILD writes a chain  *)
(* of pointers into the block and WALK follows it. Only WALK is timed.     *)
(* Sizes are counted in instructions (bytesPerInstruction = 1).            *)
(***************************************************************************)
EXTENDS ThreadsBuilder, Sequences

CONSTANT Benchmarks  \* the option settings: see Benchmark below

Modes == {"set", "auto", "adaptive"}
Benchmark == [start : Nat \ {0}, end : Nat, delta : Nat \ {0},
              latency : BOOLEAN, mode : Modes]

ASSUME BenchmarksAssumption == Benchmarks \subseteq Benchmark

VARIABLES
  ic,        \* INPUT_CONSTANTS, fixed from the options
  step,      \* where execute() is, between two calls of the pool
  want,      \* its INPUT_VARIABLES: method, size, repeats
  repeats1,  \* opRepeats1, the repeats used in the row's arithmetic
  block,     \* blockCount
  size,      \* blockSize
  rows,      \* history: for each printed row, what it claims and what was done
  memory,    \* the blocks of the workers
  ignored,   \* history: a failed round of the calibration was passed over
  chain      \* the size of the chain in each worker's block, 0 if none

script    == <<ic, step, want, repeats1, block, size, rows, memory, ignored>>
benchVars == <<poolVars, script, chain>>

MaxSize(b)  == IF b.start < b.end THEN b.end ELSE b.start
\* Mutant: one block too many.
BlockMaxTooFar(b) == (MaxSize(b) - b.start) \div b.delta + 1

BlockMax(b) == IF b.start <= b.end THEN (b.end - b.start) \div b.delta
                                   ELSE (b.start - b.end) \div b.delta
MainMethod(b)  == IF b.latency THEN "build" ELSE "bandwidth"
TimedMethod(b) == IF b.latency THEN "walk" ELSE "bandwidth"

\* The repeats of a job: the initial guess or option, the calibrated number, or
\* the adaptive number, which depends on the block's size.
Initial     == <<"initial", 0>>
Calibrated  == <<"calibrated", 0>>
Adaptive(n) == <<"adaptive", n>>

BlockSizes == UNION {{b.start + i * b.delta : i \in 0..BlockMax(b)} \cup {MaxSize(b)}
                       : b \in Benchmarks}
BenchmarkJobs ==
  [method  : {"bandwidth", "build", "walk"}, size : BlockSizes,
   repeats : {Initial, Calibrated} \cup {Adaptive(n) : n \in BlockSizes}]

\* The pool is asked for nothing but these jobs, and lets its client ask for the
\* rounds of a whole session: one to start, two to calibrate, two for each block.
ASSUME JobsAssumption == BenchmarkJobs \subseteq Jobs
ASSUME RoundsAssumption == \A b \in Benchmarks : 5 + 2 * BlockMax(b) <= MaxRounds

BenchInit ==
  /\ PoolInit
  /\ ic \in Benchmarks
  /\ want = [method |-> MainMethod(ic), size |-> ic.start, repeats |-> Initial]
  /\ iv.job = want
  /\ step = "allocate" /\ repeats1 = Initial
  /\ block = 0 /\ size = ic.start
  /\ rows = <<>> /\ memory = "none" /\ ignored = FALSE
  /\ chain = [t \in Thread |-> 0]

-----------------------------------------------------------------------------
(* One action per stretch of execute() that ends in a call of the pool.    *)

Goto(s) == step' = s /\ UNCHANGED <<ic, chain, ignored>>

\* iv takes the value w, and updateThreadsList hands it to the workers.
Publish(w) == want' = w /\ CallUpdate([job |-> w, terminate |-> FALSE])

AllocateMemory ==
  /\ step = "allocate"
  /\ \/ memory' = "held" /\ Goto("build")
     \/ "allocate" \in Failures /\ UNCHANGED memory /\ Goto("returned")
  /\ UNCHANGED <<poolVars, want, repeats1, block, size, rows>>

BuildPool ==
  /\ step = "build"
  /\ Build
  /\ Goto(IF status' THEN "run" ELSE "returned")
  /\ UNCHANGED <<want, repeats1, block, size, rows, memory>>

RunPool ==
  /\ step = "run"
  /\ CallRun
  /\ Goto("ran")
  /\ UNCHANGED <<want, repeats1, block, size, rows, memory>>

\* Calibration: the largest block, timed once with the initial repeats.
Calibrate ==
  /\ step = "ran" /\ status /\ ic.mode = "auto"
  /\ Publish([want EXCEPT !.size = MaxSize(ic)])
  /\ Goto("calibrate")
  /\ UNCHANGED <<repeats1, block, size, rows, memory>>

CalibrateWalk ==
  /\ step = "calibrated" /\ status /\ ic.latency
  /\ Publish([want EXCEPT !.method = "walk"])
  /\ Goto("calibrateWalk")
  /\ UNCHANGED <<repeats1, block, size, rows, memory>>

\* Mutant: the workers are not told of the calibrated repeats.
CalibrateEndUntold ==
  /\ \/ step = "calibrated" /\ status /\ ~ic.latency
     \/ step = "calibrateWalked"
  /\ Publish([want EXCEPT !.method = MainMethod(ic)])
  /\ repeats1' = Calibrated
  /\ step' = "blocks" /\ ignored' = ~status
  /\ UNCHANGED <<ic, chain>>
  /\ UNCHANGED <<block, size, rows, memory>>

\* What the WALK round of the calibration returned is not looked at.
CalibrateEnd ==
  /\ \/ step = "calibrated" /\ status /\ ~ic.latency
     \/ step = "calibrateWalked"
  /\ Publish([want EXCEPT !.method = MainMethod(ic), !.repeats = Calibrated])
  /\ repeats1' = Calibrated
  /\ step' = "blocks" /\ ignored' = ~status
  /\ UNCHANGED <<ic, chain>>
  /\ UNCHANGED <<block, size, rows, memory>>

\* The head of the loop over the block sizes, and its condition.
AtBlocks == step = "blocks" \/ (step = "ran" /\ status /\ ic.mode # "auto")

MoreBlocks == block <= BlockMax(ic)

SetAdaptive ==
  /\ AtBlocks /\ MoreBlocks /\ ic.mode = "adaptive"
  /\ Publish([want EXCEPT !.repeats = Adaptive(size)])
  /\ Goto("adapted")
  /\ UNCHANGED <<repeats1, block, size, rows, memory>>

SetSize ==
  /\ \/ AtBlocks /\ MoreBlocks /\ ic.mode # "adaptive"
     \/ step = "adapted"
  /\ Publish([want EXCEPT !.size = size])
  /\ Goto("measure")
  /\ UNCHANGED <<repeats1, block, size, rows, memory>>

Walk ==
  /\ step = "measured" /\ status /\ ic.latency
  /\ Publish([want EXCEPT !.method = "walk"])
  /\ Goto("walk")
  /\ UNCHANGED <<repeats1, block, size, rows, memory>>

\* Mutant: the saved method is not put back.
RestoreForgotten ==
  /\ step = "walked"
  /\ Publish(want)
  /\ Goto("restored")
  /\ UNCHANGED <<repeats1, block, size, rows, memory>>

\* After WALK the saved method is put back, whatever WALK returned.
Restore ==
  /\ step = "walked"
  /\ Publish([want EXCEPT !.method = MainMethod(ic)])
  /\ Goto("restored")
  /\ UNCHANGED <<repeats1, block, size, rows, memory>>

\* The four places that restart the workers and wait for them.
Restart ==
  /\ \/ step = "calibrate"     /\ Goto("calibrated")
     \/ step = "calibrateWalk" /\ Goto("calibrateWalked")
     \/ step = "measure"       /\ Goto("measured")
     \/ step = "walk"          /\ Goto("walked")
  /\ CallRestart(TRUE)
  /\ UNCHANGED <<want, repeats1, block, size, rows, memory>>

\* Prints a row: the time of the last round over size * repeats.
Record ==
  /\ \/ step = "measured" /\ status /\ ~ic.latency
     \/ step = "restored" /\ status
  /\ rows' = Append(rows,
       [size    |-> size,
        repeats |-> IF ic.mode = "adaptive" THEN Adaptive(size) ELSE repeats1,
        work    |-> done])
  /\ block' = block + 1
  /\ size' = size + ic.delta
  /\ Goto("blocks")
  /\ UNCHANGED <<poolVars, want, repeats1, memory>>

\* Mutant: an error return that frees the blocks under the workers.
ReturnErrorFrees ==
  /\ step \in {"ran", "calibrated", "measured", "restored"} /\ ~status
  /\ memory' = "freed"
  /\ Goto("returned")
  /\ UNCHANGED <<poolVars, want, repeats1, block, size, rows>>

\* The error returns: after runThreads, when the statistics arrays cannot be
\* allocated, after the calibration and after a measurement. They leave the workers
\* and their memory as they are.
ReturnError ==
  /\ \/ step \in {"ran", "calibrated", "measured", "restored"} /\ ~status
     \/ step = "ran" /\ "allocate" \in Failures
  /\ Goto("returned")
  /\ UNCHANGED <<poolVars, want, repeats1, block, size, rows, memory>>

\* Mutant: the workers are woken without being told to end.
TerminateUntold ==
  /\ AtBlocks /\ ~MoreBlocks
  /\ CallUpdate([job |-> want, terminate |-> FALSE])
  /\ Goto("terminate")
  /\ UNCHANGED <<want, repeats1, block, size, rows, memory>>

Terminate ==
  /\ AtBlocks /\ ~MoreBlocks
  /\ CallUpdate([job |-> want, terminate |-> TRUE])
  /\ Goto("terminate")
  /\ UNCHANGED <<want, repeats1, block, size, rows, memory>>

\* restartThreads(FALSE), then releaseThreadsList: neither result is looked at.
Stop ==
  /\ \/ step = "terminate" /\ CallRestart(FALSE) /\ Goto("release")
     \/ step = "release"   /\ CallRelease        /\ Goto("free")
  /\ UNCHANGED <<want, repeats1, block, size, rows, memory>>

FreeMemory ==
  /\ step = "free"
  /\ memory' = "freed"
  /\ Goto("returned")
  /\ UNCHANGED <<poolVars, want, repeats1, block, size, rows>>

\* MainTask's clean-up.
DeletePool ==
  /\ step = "returned"
  /\ Delete
  /\ Goto("ended")
  /\ UNCHANGED <<want, repeats1, block, size, rows, memory>>

Script ==
  /\ call = "ready"
  /\ \/ AllocateMemory \/ BuildPool \/ RunPool
     \/ Calibrate \/ CalibrateWalk \/ CalibrateEnd
     \/ SetAdaptive \/ SetSize \/ Walk \/ Restore \/ Restart \/ Record
     \/ ReturnError \/ Terminate \/ Stop \/ FreeMemory \/ DeletePool

\* BUILD writes a chain over the worker's block, the other methods of a session
\* only read it.
WorkOnBlock(t) ==
  /\ Work(t)
  /\ chain' = IF local[t].method = "build"
              THEN [chain EXCEPT ![t] = local[t].size] ELSE chain

WorkerStep(t) ==
  /\ \/ WorkOnBlock(t)
     \/ (Worker(t) /\ wpc[t] # "work") /\ UNCHANGED chain
  /\ UNCHANGED script

MainStep == Script \/ (MainLoop /\ UNCHANGED <<script, chain>>)

BenchNext ==
  \/ MainStep
  \/ \E t \in Thread : WorkerStep(t)
  \/ step = "ended" /\ UNCHANGED benchVars

\* Nothing but a wait ever holds the main thread or a worker up. No timeout is promised:
\* a wait whose signal never comes may last for ever.
BenchFairness ==
  /\ WF_benchVars(MainStep /\ ~HeldUp)
  /\ \A t \in Thread : WF_benchVars(WorkerStep(t))

BenchSpec == BenchInit /\ [][BenchNext]_benchVars /\ BenchFairness

-----------------------------------------------------------------------------
\* A printed row is true: every worker has executed the timed method over exactly
\* the block size and the repeats from which the row's bandwidth is computed. After
\* a failed round of the calibration has been ignored nothing is claimed.
RowsAreMeasured ==
  ~ignored => \A i \in DOMAIN rows : \A t \in Thread :
    rows[i].work[t] = [method |-> TimedMethod(ic), size |-> rows[i].size,
                       repeats |-> rows[i].repeats]

\* WALK follows only a chain that BUILD has laid over the same size of the same
\* worker's block, in the calibration and in every row, also when a round fails.
WalkFollowsBuild ==
  ~ignored => \A t \in Thread :
    (wpc[t] = "work" /\ local[t].method = "walk") => chain[t] = local[t].size

\* A worker never runs over the end of its block: the size it works with is at
\* most maxSizeBytes, from which the memory was allocated.
WorkInsideBlock ==
  \A t \in Thread : wpc[t] = "work" => local[t].size <= MaxSize(ic)

\* The blocks are freed only when no worker can use them any more: each has ended,
\* or is on its way to a test that finds its entry's terminateThread set. After a
\* session whose last join succeeded no worker reads the list of entries either once
\* MainTask has deleted the pool, whatever failed before.
MemoryOutlivesWork ==
  /\ (memory = "freed" /\ stage # "deleted" /\ ~ignored) =>
       \A t \in Thread :
         \/ wpc[t] = "exited"
         \/ wpc[t] \in {"wait", "reset", "test"} /\ entry[t].terminate
  /\ (memory = "freed" /\ status) => NoUseAfterFree

\* A call of the operating system has failed or timed out.
Troubled ==
  \/ step \in {"returned", "ended"} /\ memory # "freed"
  \/ step \in {"calibrateWalked", "release", "free"} /\ call = "ready" /\ ~status

\* The session uses the pool in the order it is made for: no round before the pool
\* is built, no update in a round, nothing after a failed round but the deletion. Two
\* places do otherwise: Restore, which is followed by the error return, and the
\* calibration, after which nothing is claimed.
PoolUsedLegally ==
  PoolInit /\ [][ignored' \/ (step = "walked" /\ ~status) \/ PoolNext]_poolVars

\* A session in which no call fails ends with all its rows printed, every worker gone
\* and the memory given back, without the help of a timeout: no wait of the pool is
\* left hanging, neither in a round nor in the final join. And if the timeouts do come,
\* as THREAD_TIMEOUT says, every session ends, whatever fails, and gives the list back.
SessionEnds ==
  /\ WF_benchVars(MainStep) => <>(step = "ended" /\ stage = "deleted")
  /\ \/ <>Troubled
     \/ <>(/\ step = "ended" /\ memory = "freed"
           /\ Len(rows) = BlockMax(ic) + 1
           /\ \A t \in Thread : wpc[t] = "exited")

=============================================================================
