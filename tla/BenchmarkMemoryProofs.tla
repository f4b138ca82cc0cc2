----------------------- MODULE BenchmarkMemoryProofs -----------------------
(***************************************************************************)
(* Proofs about BenchmarkMemory: a session with any option settings, any   *)
(* number of workers and any set of failing calls. They rest on the        *)
(* invariants of the pool, which ThreadsBuilderProofs proves of any client *)
(* that keeps to the order of its operations; most of the work is to show  *)
(* that a session does, and to say where it does not.                      *)
(***************************************************************************)
EXTENDS BenchmarkMemory, ThreadsBuilderProofs

-----------------------------------------------------------------------------
(* Where the script is, and what the pool is doing for it.                 *)

\* Between an update of the entries and the restart that follows it, or about to
\* update them again.
Published == {"calibrate", "calibrateWalk", "blocks", "adapted", "measure", "walk"}

\* In a round, or behind it.
Rounds == {"calibrated", "calibrateWalked", "measured", "walked"}

\* Before the loop over the block sizes.
Before == {"allocate", "build", "run", "ran", "calibrate", "calibrated", "calibrateWalk",
           "calibrateWalked"}

\* In the loop, with a block size that is still to be measured.
Measuring == {"adapted", "measure", "measured", "walk", "walked", "restored"}

Steps == Before \cup Published \cup Rounds \cup Measuring
           \cup {"terminate", "release", "free", "returned", "ended"}

\* The calls of the pool that each stretch of execute() may be waiting for.
CallInv ==
  /\ step \in {"allocate", "build", "run", "returned", "ended"} => call = "ready"
  /\ step = "ran" => call \in {"resume", "await", "ready"}
  /\ step \in Published \cup {"restored", "terminate"} => call \in {"update", "ready"}
  /\ step \in Rounds => call \in {"reset", "set", "await", "ready"}
  /\ step = "release" => call \in {"reset", "set", "ready"} /\ ~waitWork
  /\ step = "free" => call \in {"join", "ready"}

\* The life of the pool, stretch by stretch.
StageInv ==
  /\ step \in {"allocate", "build"} => stage = "new"
  /\ step = "run" => stage = "built" /\ status
  /\ step \in Published \cup Rounds \cup {"ran", "restored", "terminate"} => stage = "running"
  /\ step = "release" => stage = "stopped"
  /\ step = "free" => stage = IF call = "join" THEN "stopped" ELSE "released"
  /\ step = "returned" => stage # "deleted"
  /\ step = "ended" => stage = "deleted"
  /\ iv.terminate => step \in {"terminate", "release", "free", "returned", "ended"}
  /\ step = "terminate" => iv.terminate
  /\ stage = "running" => issued > 0

\* Unless the calibration has passed over a failed round, everything but the restoring
\* of the method stands behind a successful call.
StatusInv ==
  /\ step \in Before => ~ignored
  /\ ~ignored =>
       /\ step \in Published \cup {"terminate"} => status
       /\ step \in Rounds \cup {"ran"} /\ call # "ready" => status

\* What the workers are told, and the arithmetic of the row, agree with the loop.
JobInv ==
  /\ iv.job = want
  /\ want.method = IF step \in {"calibrateWalk", "calibrateWalked", "walk", "walked"}
                   THEN "walk" ELSE MainMethod(ic)
  /\ step \in {"calibrateWalk", "calibrateWalked", "walk", "walked", "restored"} => ic.latency
  /\ step \in {"calibrate", "calibrated", "calibrateWalk", "calibrateWalked"} => ic.mode = "auto"
  /\ step \in Rounds \cup {"ran"} => asked = want
  /\ step = "restored" => asked = [want EXCEPT !.method = "walk"]
  /\ step \in Measuring \ {"adapted"} => want.size = size
  /\ ic.mode # "adaptive" => want.repeats = repeats1
  /\ (ic.mode = "adaptive" /\ step \in Measuring) => want.repeats = Adaptive(size)

\* The loop over the block sizes.
BlockInv ==
  /\ block \in Nat
  /\ size = ic.start + block * ic.delta
  /\ step \in Measuring => block <= BlockMax(ic)

\* The rounds the script has asked for so far.
RoundsInv ==
  /\ step \in {"allocate", "build", "run"} => issued = 0
  /\ step \in {"ran", "calibrate"} => issued <= 1
  /\ step \in {"calibrated", "calibrateWalk"} => issued <= 2
  /\ step = "calibrateWalked" => issued <= 3
  /\ step \in {"blocks", "adapted", "measure"} => issued <= 3 + 2 * block
  /\ step \in {"measured", "walk"} => issued <= 4 + 2 * block
  /\ step \in {"walked", "restored"} => issued <= 5 + 2 * block

\* The workers end before the memory is given back. Once the join has returned TRUE
\* they have ended, whatever was ignored before.
MemoryInv ==
  /\ memory = "freed" => step \in {"returned", "ended"} /\ stage \in {"released", "deleted"}
  /\ (step = "free" /\ call = "join") => \A t \in Thread : t < k => wpc[t] = "exited"
  /\ (status /\ ((step = "free" /\ call = "ready") \/ memory = "freed")) =>
       \A t \in Thread : wpc[t] = "exited"

Row == [size : Nat, repeats : {Initial, Calibrated} \cup {Adaptive(n) : n \in BlockSizes},
        work : [Thread -> Jobs]]

ScriptInv ==
  /\ ic \in Benchmarks /\ step \in Steps /\ memory \in {"none", "held", "freed"}
  /\ want \in BenchmarkJobs /\ ignored \in BOOLEAN /\ rows \in Seq(Row)
  /\ repeats1 \in {Initial, Calibrated}
  /\ CallInv /\ StageInv /\ StatusInv /\ JobInv
  /\ BlockInv /\ RoundsInv /\ MemoryInv

\* The session has kept to the order of the pool's operations up to here. It breaks it
\* where the calibration passes over a failure, and where the method is put back after
\* a failed round while workers may still be reading the entries.
Sound ==
  /\ ~ignored
  /\ \/ status
     \/ step \notin {"restored", "returned", "ended"}
     \/ stage \notin {"running", "deleted"}

\* A chain has the size of a job, or there is none.
ChainType == chain \in [Thread -> {0} \cup {j.size : j \in Jobs}]

\* The chain in a worker's block fits whatever the worker may read or is doing.
ChainInv ==
  ~ignored => \A t \in Thread :
    /\ entry[t].job.method = "walk" => chain[t] = entry[t].job.size
    /\ wpc[t] = "work" => local[t].size = entry[t].job.size
    /\ (wpc[t] = "work" /\ local[t].method = "walk") => chain[t] = local[t].size
    /\ (ran[t] > 0 /\ done[t].method = "build") => chain[t] = done[t].size
    /\ step \in {"walk", "calibrateWalk"} => chain[t] = want.size
    /\ step = "restored" => entry[t].job.size = want.size

BenchInv ==
  /\ PoolTypeOK
  /\ ScriptInv
  /\ Sound => RefinementInv
  /\ ChainType /\ ChainInv
  /\ RowsAreMeasured

\* With start <= end no size anywhere passes maxSizeBytes.
SizesInv ==
  /\ ic.start <= ic.end /\ want.size <= MaxSize(ic)
  /\ \A t \in Thread : entry[t].job.size <= MaxSize(ic) /\ local[t].size <= MaxSize(ic)

-----------------------------------------------------------------------------
(* The settings.                                                           *)

\* A quotient does not exceed what was divided.
LEMMA DivBound ==
  ASSUME NEW x \in Nat, NEW d \in Nat \ {0}
  PROVE  /\ x \div d \in Nat
         /\ (x \div d) * d <= x
OBVIOUS

\* The loop over the block sizes is finite, and its sizes are those of the jobs.
LEMMA SettingsType ==
  ASSUME NEW b \in Benchmarks
  PROVE  /\ b.start \in Nat \ {0} /\ b.end \in Nat /\ b.delta \in Nat \ {0}
         /\ b.latency \in BOOLEAN /\ b.mode \in Modes
         /\ BlockMax(b) \in Nat /\ MaxSize(b) \in Nat
         /\ MaxSize(b) \in BlockSizes
         /\ \A i \in 0..BlockMax(b) : b.start + i * b.delta \in BlockSizes
<1>1. /\ b.start \in Nat \ {0} /\ b.end \in Nat /\ b.delta \in Nat \ {0}
      /\ b.latency \in BOOLEAN /\ b.mode \in Modes
  BY BenchmarksAssumption DEF Benchmark
<1>2. BlockMax(b) \in Nat
  <2>1. CASE b.start <= b.end
    <3>1. b.end - b.start \in Nat
      BY <1>1, <2>1
    <3> QED BY <1>1, <2>1, <3>1, DivBound DEF BlockMax
  <2>2. CASE ~(b.start <= b.end)
    <3>1. b.start - b.end \in Nat
      BY <1>1, <2>2
    <3> QED BY <1>1, <2>2, <3>1, DivBound DEF BlockMax
  <2> QED BY <2>1, <2>2
<1>3. MaxSize(b) \in Nat
  BY <1>1 DEF MaxSize
<1>4. MaxSize(b) \in BlockSizes
  BY DEF BlockSizes
<1>5. ASSUME NEW i \in 0..BlockMax(b) PROVE b.start + i * b.delta \in BlockSizes
  BY DEF BlockSizes
<1> QED BY <1>1, <1>2, <1>3, <1>4, <1>5

\* Every block size is a natural number.
LEMMA BlockSizesType == BlockSizes \subseteq Nat
<1> SUFFICES ASSUME NEW n \in BlockSizes PROVE n \in Nat
  OBVIOUS
<1>1. PICK b \in Benchmarks :
        n \in {b.start + i * b.delta : i \in 0..BlockMax(b)} \cup {MaxSize(b)}
  BY DEF BlockSizes
<1>2. ASSUME NEW i \in 0..BlockMax(b) PROVE b.start + i * b.delta \in Nat
  BY SettingsType
<1> QED BY <1>1, <1>2, SettingsType

\* With start <= end, the sizes of the loop do not pass maxSizeBytes.
LEMMA SizesFit ==
  ASSUME NEW b \in Benchmarks, b.start <= b.end, NEW i \in 0..BlockMax(b)
  PROVE  b.start + i * b.delta <= MaxSize(b)
<1>1. BlockMax(b) = (b.end - b.start) \div b.delta /\ MaxSize(b) = b.end
  BY SettingsType DEF BlockMax, MaxSize
<1>2. b.end - b.start \in Nat /\ b.delta \in Nat \ {0}
  BY SettingsType
<1>3. BlockMax(b) * b.delta <= b.end - b.start
  BY <1>1, <1>2, DivBound
<1>4. i * b.delta <= BlockMax(b) * b.delta
  BY <1>2, SettingsType
<1> QED BY <1>1, <1>2, <1>3, <1>4, SettingsType

-----------------------------------------------------------------------------
(* What the actions of the script do to the pool.                          *)

\* The stretches of execute() that change the parameters of the workers.
Publication ==
  Calibrate \/ CalibrateWalk \/ CalibrateEnd \/ SetAdaptive \/ SetSize \/ Walk \/ Restore

\* They hand over a job of the session, and never the order to end.
LEMMA PublicationUpdates ==
  ASSUME ScriptInv, Publication
  PROVE  /\ want' \in BenchmarkJobs
         /\ \E v \in Params : v.job = want' /\ ~v.terminate /\ CallUpdate(v)
<1> USE DEF ScriptInv, BlockInv
<1>1. want' \in BenchmarkJobs
  <2> USE DEF BenchmarkJobs, Publish, MainMethod
  <2>1. CASE Calibrate
    BY <2>1, SettingsType DEF Calibrate
  <2>2. CASE CalibrateWalk \/ Walk \/ Restore \/ CalibrateEnd
    BY <2>2 DEF CalibrateWalk, Walk, Restore, CalibrateEnd
  <2>3. CASE SetAdaptive \/ SetSize
    <3>1. block <= BlockMax(ic)
      BY <2>3 DEF SetAdaptive, SetSize, MoreBlocks, Measuring
    <3>2. size \in BlockSizes
      BY <3>1, SettingsType
    <3> QED BY <2>3, <3>2 DEF SetAdaptive, SetSize
  <2> QED BY <2>1, <2>2, <2>3 DEF Publication
<1>2. CallUpdate([job |-> want', terminate |-> FALSE])
  BY DEF Publication, Calibrate, CalibrateWalk, CalibrateEnd, SetAdaptive, SetSize, Walk, Restore,
         Publish, CallUpdate
<1>3. PICK v \in Params : v = [job |-> want', terminate |-> FALSE]
  BY <1>1, JobsAssumption DEF Params
<1> QED BY <1>1, <1>2, <1>3 DEF CallUpdate

\* The order to end is an update as well.
LEMMA TerminationUpdates ==
  ASSUME ScriptInv, Terminate
  PROVE  \E v \in Params : CallUpdate(v)
<1>1. PICK v \in Params : v = [job |-> want, terminate |-> TRUE]
  BY JobsAssumption DEF Params, ScriptInv
<1> QED BY <1>1 DEF Terminate, CallUpdate

\* Whatever the script does to the pool, it does through its operations.
LEMMA ScriptOperates ==
  ASSUME ScriptInv, Script
  PROVE  Operation \/ UNCHANGED poolVars
<1>1. CASE Publication
  BY <1>1, PublicationUpdates DEF Operation
<1>2. CASE Terminate
  BY <1>2, TerminationUpdates DEF Operation
<1>3. CASE Restart \/ Stop
  BY <1>3 DEF Restart, Stop, Operation
<1>4. CASE BuildPool \/ RunPool \/ DeletePool
  BY <1>4 DEF BuildPool, RunPool, DeletePool, Operation
<1>5. CASE AllocateMemory \/ Record \/ ReturnError \/ FreeMemory
  BY <1>5 DEF AllocateMemory, Record, ReturnError, FreeMemory
<1> QED BY <1>1, <1>2, <1>3, <1>4, <1>5 DEF Script, Publication

\* Every step keeps the types of the pool, also where the order of its operations is broken.
LEMMA BenchKeepsPoolType ==
  ASSUME PoolTypeOK, ScriptInv, [BenchNext]_benchVars
  PROVE  PoolTypeOK'
BY ScriptOperates, PoolTypeKept DEF BenchNext, MainStep, WorkerStep, WorkOnBlock, Worker, benchVars

\* A client of the pool may do what the script does: an update or a restart comes only
\* after a successful round, before the order to end and within the bound on the rounds,
\* except in the two places named in PoolUsedLegally.
LEMMA ScriptIsClient ==
  ASSUME PoolTypeOK, ScriptInv, Script, ~ignored', ~(step = "walked" /\ ~status)
  PROVE  Client \/ UNCHANGED poolVars
<1> USE DEF ScriptInv
<1>0. call = "ready" /\ ~ignored
  BY DEF Script, AllocateMemory, BuildPool, RunPool, Calibrate, CalibrateWalk, CalibrateEnd,
         SetAdaptive, SetSize, Walk, Restore, Restart, Record, ReturnError, Terminate, Stop,
         FreeMemory, DeletePool, Goto, StatusInv, Before
<1>1. CASE Publication
  <2>1. stage = "running" /\ status /\ ~iv.terminate
    BY <1>0, <1>1
    DEF Publication, Calibrate, CalibrateWalk, CalibrateEnd, SetAdaptive, SetSize, Walk, Restore,
        AtBlocks, StageInv, StatusInv, Published, Rounds
  <2> QED
    BY <1>0, <1>1, <2>1, PublicationUpdates DEF Client
<1>2. CASE Terminate
  <2>1. stage = "running" /\ status /\ ~iv.terminate
    BY <1>0, <1>2 DEF Terminate, AtBlocks, StageInv, StatusInv, Published
  <2> QED
    BY <1>0, <1>2, <2>1, TerminationUpdates DEF Client
<1>3. CASE Restart
  <2>1. stage = "running" /\ status /\ ~iv.terminate
    BY <1>0, <1>3 DEF Restart, StageInv, StatusInv, Published
  <2>2. issued < MaxRounds
    <3>1. BlockMax(ic) \in Nat /\ 5 + 2 * BlockMax(ic) <= MaxRounds
      BY SettingsType, RoundsAssumption
    <3>2. CASE step \in {"calibrate", "calibrateWalk"}
      BY <3>1, <3>2, PoolAssumption DEF RoundsInv, PoolTypeOK
    <3>3. CASE step \in {"measure", "walk"}
      <4>1. block \in Nat /\ block <= BlockMax(ic) /\ issued <= 4 + 2 * block
        BY <3>3 DEF BlockInv, RoundsInv, Measuring, PoolTypeOK
      <4> QED BY <3>1, <4>1, PoolAssumption DEF PoolTypeOK
    <3> QED BY <1>3, <3>2, <3>3 DEF Restart
  <2> QED
    BY <1>0, <1>3, <2>1, <2>2 DEF Restart, Client
<1>4. CASE Stop
  BY <1>0, <1>4 DEF Stop, Client, StageInv, StatusInv
<1>5. CASE RunPool
  BY <1>0, <1>5 DEF RunPool, Client, StageInv
<1>6. CASE BuildPool \/ DeletePool
  BY <1>0, <1>6 DEF BuildPool, DeletePool, Client
<1>7. CASE AllocateMemory \/ Record \/ ReturnError \/ FreeMemory
  BY <1>7 DEF AllocateMemory, Record, ReturnError, FreeMemory
<1> QED BY <1>1, <1>2, <1>3, <1>4, <1>5, <1>6, <1>7 DEF Script, Publication

\* So is every step of a session, with the same exceptions.
LEMMA StepsAreLegal ==
  ASSUME PoolTypeOK, ScriptInv, [BenchNext]_benchVars
  PROVE  ignored' \/ (step = "walked" /\ ~status) \/ [PoolNext]_poolVars
BY ScriptIsClient
DEF BenchNext, MainStep, WorkerStep, WorkOnBlock, Worker, benchVars, PoolNext

-----------------------------------------------------------------------------
(* ScriptInv is inductive: conjunct by conjunct, for the script, for the   *)
(* loops of the pool and for the workers.                                  *)

\* What a step of a loop may change outside the events, and where it may lead.
LEMMA LoopFrame ==
  ASSUME PoolTypeOK, MainLoop
  PROVE  /\ UNCHANGED <<iv, waitWork, issued, asked, local, ran, done>>
         /\ call = "join" \/ UNCHANGED stage
         /\ \/ call = "update" /\ call' \in {"update", "ready"} /\ UNCHANGED <<status, wpc>>
            \/ call = "resume" /\ call' \in {"resume", "await", "ready"}
            \/ call = "reset"  /\ call' \in {"reset", "set", "ready"} /\ UNCHANGED wpc
            \/ call = "set"    /\ call' \in {"set", IF waitWork THEN "await" ELSE "ready", "ready"}
                               /\ UNCHANGED wpc
            \/ call = "await"  /\ call' = "ready" /\ UNCHANGED wpc
            \/ call = "join"   /\ call' \in {"join", "ready"} /\ UNCHANGED <<wpc, entry>>
                               /\ stage' = IF call' = "join" THEN stage ELSE "released"
         /\ (call' # "ready" /\ status) => status'
<1> USE PoolAssumption DEF PoolTypeOK, Thread, Return, Advance, workers, history
<1>1. CASE UpdateEntry
  BY <1>1 DEF UpdateEntry
<1>2. CASE ResumeWorker
  BY <1>2 DEF ResumeWorker
<1>3. CASE ResetRx
  BY <1>3 DEF ResetRx
<1>4. CASE SetTx
  BY <1>4 DEF SetTx
<1>5. CASE Await
  BY <1>5 DEF Await
<1>6. CASE JoinWorker
  <2>1. CASE Return(FALSE) /\ stage' = "released"
    BY <1>6, <2>1 DEF JoinWorker
  <2>2. CASE /\ Advance("join", "ready")
             /\ stage' = IF k = N THEN "released" ELSE stage
             /\ status' = IF k = N THEN TRUE ELSE status
    <3>1. (call' = "join" /\ k < N) \/ (call' = "ready" /\ k = N)
      BY <2>2
    <3>2. stage' = IF call' = "join" THEN stage ELSE "released"
      BY <2>2, <3>1
    <3> QED BY <1>6, <2>2, <3>1, <3>2 DEF JoinWorker
  <2> QED BY <1>6, <2>1, <2>2 DEF JoinWorker
<1> QED BY <1>1, <1>2, <1>3, <1>4, <1>5, <1>6 DEF MainLoop

\* The steps that leave the script where it is.
LEMMA OtherSteps ==
  ASSUME PoolTypeOK, [BenchNext]_benchVars
  PROVE  \/ Script
         \/ MainLoop /\ UNCHANGED <<script, chain>>
         \/ /\ UNCHANGED <<stage, call, k, iv, waitWork, status, entry, issued, asked, script>>
            /\ \A t \in Thread : wpc[t] = "exited" => wpc'[t] = "exited"
<1>1. ASSUME NEW t \in Thread, WorkerStep(t)
      PROVE  /\ UNCHANGED <<stage, call, k, iv, waitWork, status, entry, issued, asked, script>>
             /\ \A u \in Thread : wpc[u] = "exited" => wpc'[u] = "exited"
  <2>1. Worker(t) /\ UNCHANGED script
    BY <1>1 DEF WorkerStep, WorkOnBlock, Worker
  <2> QED BY <2>1, WorkerFrame, WorkerBlocked
<1>2. CASE UNCHANGED benchVars
  BY <1>2 DEF benchVars, poolVars, main, workers, history
<1> QED BY <1>1, <1>2 DEF BenchNext, MainStep

\* A stretch of execute() begins with the call it ends in, and the next one with its return.
LEMMA CallStep ==
  ASSUME PoolTypeOK, ScriptInv, [BenchNext]_benchVars
  PROVE  CallInv'
<1> USE DEF ScriptInv, CallInv, Published, Rounds
<1>1. CASE Script
  BY <1>1
  DEF Script, AllocateMemory, BuildPool, RunPool, Calibrate, CalibrateWalk, CalibrateEnd,
      SetAdaptive, SetSize, Walk, Restore, Restart, Record, ReturnError, Terminate, Stop,
      FreeMemory, DeletePool, Goto, Publish, AtBlocks,
      Build, CallRun, CallUpdate, CallRestart, CallRelease, Delete, poolVars, main
<1>2. CASE MainLoop /\ UNCHANGED <<script, chain>>
  BY <1>2, LoopFrame DEF script
<1>3. CASE UNCHANGED <<call, waitWork, script>>
  BY <1>3 DEF script
<1> QED BY <1>1, <1>2, <1>3, OtherSteps

\* The pool's life follows the script.
LEMMA StageStep ==
  ASSUME PoolTypeOK, ScriptInv, [BenchNext]_benchVars
  PROVE  StageInv'
<1> USE DEF ScriptInv, StageInv
<1>1. CASE Script
  <2> USE DEF Published, Rounds, Goto, poolVars, main, history
  <2>1. CASE Publication
    <3>1. stage = "running" /\ ~iv.terminate
      BY <2>1 DEF Publication, Calibrate, CalibrateWalk, CalibrateEnd, SetAdaptive, SetSize,
                  Walk, Restore, AtBlocks
    <3>2. stage' = "running" /\ ~iv'.terminate /\ issued' = issued
      BY <2>1, <3>1, PublicationUpdates DEF CallUpdate
    <3>3. step' \in Published \cup {"restored"}
      BY <2>1 DEF Publication, Calibrate, CalibrateWalk, CalibrateEnd, SetAdaptive, SetSize,
                  Walk, Restore
    <3> QED BY <3>1, <3>2, <3>3
  <2>2. CASE Terminate \/ Restart \/ Stop
    BY <1>1, <2>2 DEF Script, Terminate, Restart, Stop, AtBlocks, CallUpdate, CallRestart,
                 CallRelease, PoolTypeOK
  <2>3. CASE AllocateMemory \/ BuildPool \/ RunPool \/ DeletePool
    BY <1>1, <2>3 DEF Script, AllocateMemory, BuildPool, RunPool, DeletePool, Build, CallRun,
                 Delete, PoolTypeOK
  <2>4. CASE Record \/ ReturnError \/ FreeMemory
    BY <1>1, <2>4 DEF Script, Record, ReturnError, FreeMemory
  <2> QED BY <1>1, <2>1, <2>2, <2>3, <2>4 DEF Script, Publication
<1>2. CASE MainLoop /\ UNCHANGED <<script, chain>>
  BY <1>2, LoopFrame DEF script, CallInv, Published, Rounds
<1>3. CASE UNCHANGED <<stage, call, iv, status, issued, script>>
  BY <1>3 DEF script
<1> QED BY <1>1, <1>2, <1>3, OtherSteps

\* Every error return leaves the loop; only the calibration's WALK does not ask.
LEMMA StatusStep ==
  ASSUME PoolTypeOK, ScriptInv, [BenchNext]_benchVars
  PROVE  StatusInv'
<1> USE DEF ScriptInv, StatusInv, Published, Rounds, Before
<1>1. CASE Script
  <2> USE DEF Goto, poolVars, main, AtBlocks
  <2>1. CASE Publication
    <3>1. status' = status
      BY <2>1, PublicationUpdates DEF CallUpdate
    <3>2. CASE CalibrateEnd
      BY <2>1, <3>1, <3>2 DEF CalibrateEnd
    <3>3. CASE Calibrate \/ CalibrateWalk
      BY <2>1, <3>1, <3>3 DEF Calibrate, CalibrateWalk
    <3>4. CASE SetAdaptive \/ SetSize \/ Walk \/ Restore
      BY <2>1, <3>1, <3>4 DEF SetAdaptive, SetSize, Walk, Restore
    <3> QED BY <2>1, <3>2, <3>3, <3>4 DEF Publication
  <2>2. CASE Terminate \/ Restart \/ Stop
    BY <1>1, <2>2 DEF Script, Terminate, Restart, Stop, CallUpdate, CallRestart, CallRelease
  <2>3. CASE AllocateMemory \/ BuildPool \/ RunPool \/ DeletePool
    BY <1>1, <2>3 DEF Script, AllocateMemory, BuildPool, RunPool, DeletePool, StageInv, CallRun
  <2>4. CASE Record \/ ReturnError \/ FreeMemory
    BY <1>1, <2>4 DEF Script, Record, ReturnError, FreeMemory
  <2> QED BY <1>1, <2>1, <2>2, <2>3, <2>4 DEF Script, Publication
<1>2. CASE MainLoop /\ UNCHANGED <<script, chain>>
  BY <1>2, LoopFrame DEF script, CallInv
<1>3. CASE UNCHANGED <<call, status, script>>
  BY <1>3 DEF script
<1> QED BY <1>1, <1>2, <1>3, OtherSteps

\* The parameters, the workers' copy of them and the row's arithmetic change together.
LEMMA JobStep ==
  ASSUME PoolTypeOK, ScriptInv, [BenchNext]_benchVars
  PROVE  JobInv'
<1> USE DEF ScriptInv
<1>1. CASE Script
  <2> USE DEF Goto, AtBlocks, Published, Rounds, Measuring, Before
  <2>1. CASE Publication
    <3>1. iv'.job = want' /\ asked' = asked /\ ic' = ic /\ size' = size
      BY <2>1, PublicationUpdates
      DEF CallUpdate, history, Publication, Calibrate, CalibrateWalk, CalibrateEnd, SetAdaptive,
          SetSize, Walk, Restore
    <3>2. CASE Calibrate \/ CalibrateWalk
      BY <2>1, <3>1, <3>2 DEF Calibrate, CalibrateWalk, Publish, JobInv, BenchmarkJobs
    <3>3. CASE CalibrateEnd
      BY <2>1, <3>1, <3>3 DEF CalibrateEnd, Publish, JobInv, BenchmarkJobs
    <3>4. CASE SetAdaptive \/ SetSize
      BY <2>1, <3>1, <3>4 DEF SetAdaptive, SetSize, Publish, JobInv, BenchmarkJobs
    <3>5. CASE Walk
      BY <2>1, <3>1, <3>5 DEF Walk, Publish, JobInv, BenchmarkJobs
    <3>6. CASE Restore
      <4>1. want' = [want EXCEPT !.method = MainMethod(ic)] /\ asked = want /\ want.method = "walk"
        BY <3>6 DEF Restore, Publish, JobInv
      <4>2. asked = [want' EXCEPT !.method = "walk"]
        BY <4>1 DEF BenchmarkJobs
      <4> QED
        BY <2>1, <3>1, <3>6, <4>1, <4>2 DEF Restore, JobInv, BenchmarkJobs
    <3> QED BY <2>1, <3>2, <3>3, <3>4, <3>5, <3>6 DEF Publication
  <2>2. CASE Terminate
    BY <2>2 DEF Terminate, CallUpdate, history, JobInv
  <2>3. CASE RunPool \/ Restart
    BY <2>3 DEF RunPool, Restart, CallRun, CallRestart, JobInv
  <2>4. CASE Stop
    BY <2>4 DEF Stop, CallRestart, CallRelease, history, JobInv
  <2>5. CASE AllocateMemory \/ BuildPool \/ DeletePool
    BY <2>5 DEF AllocateMemory, BuildPool, DeletePool, Build, Delete, history, poolVars, main, JobInv
  <2>6. CASE Record \/ ReturnError \/ FreeMemory
    BY <2>6 DEF Record, ReturnError, FreeMemory, poolVars, main, history, JobInv
  <2> QED BY <1>1, <2>1, <2>2, <2>3, <2>4, <2>5, <2>6 DEF Script, Publication
<1>2. CASE MainLoop /\ UNCHANGED <<script, chain>>
  BY <1>2, LoopFrame DEF script, JobInv
<1>3. CASE UNCHANGED <<iv, asked, script>>
  BY <1>3 DEF script, JobInv
<1> QED BY <1>1, <1>2, <1>3, OtherSteps

\* The size of the loop is always start plus block steps.
LEMMA BlockStep ==
  ASSUME PoolTypeOK, ScriptInv, [BenchNext]_benchVars
  PROVE  BlockInv'
<1> USE DEF ScriptInv
<1>s. ic.start \in Nat /\ ic.delta \in Nat /\ block \in Nat
  BY SettingsType DEF BlockInv
<1>1. CASE Record
  <2>1. (block + 1) * ic.delta = block * ic.delta + ic.delta
    BY <1>s
  <2> QED
    BY <1>s, <1>1, <2>1, SMTT(30) DEF Record, Goto, Measuring, BlockInv
<1>2. CASE Script /\ ~Record
  <2>1. UNCHANGED <<ic, block, size>>
    BY <1>2
    DEF Script, AllocateMemory, BuildPool, RunPool, Calibrate, CalibrateWalk, CalibrateEnd,
        SetAdaptive, SetSize, Walk, Restore, Restart, ReturnError, Terminate, Stop, FreeMemory,
        DeletePool, Goto
  <2>2. step' \in Measuring => step \in Measuring \/ MoreBlocks
    BY <1>2
    DEF Script, AllocateMemory, BuildPool, RunPool, Calibrate, CalibrateWalk, CalibrateEnd,
        SetAdaptive, SetSize, Walk, Restore, Restart, ReturnError, Terminate, Stop, FreeMemory,
        DeletePool, Goto, Measuring
  <2> QED
    BY <2>1, <2>2 DEF BlockInv, MoreBlocks
<1>3. CASE UNCHANGED script
  BY <1>3 DEF script, BlockInv
<1> QED BY <1>1, <1>2, <1>3, OtherSteps

\* At most two rounds belong to a block.
LEMMA RoundsStep ==
  ASSUME PoolTypeOK, ScriptInv, [BenchNext]_benchVars
  PROVE  RoundsInv'
<1> USE DEF ScriptInv
<1>s. issued \in Nat /\ block \in Nat
  BY DEF PoolTypeOK, BlockInv
<1>1. CASE Script
  <2> USE DEF Goto, AtBlocks, RoundsInv
  <2>1. CASE Publication
    <3>1. issued' = issued /\ block' = block
      BY <2>1, PublicationUpdates
      DEF CallUpdate, history, Publication, Calibrate, CalibrateWalk, CalibrateEnd, SetAdaptive,
          SetSize, Walk, Restore
    <3>2. CASE SetAdaptive \/ SetSize
      BY <1>s, <3>1, <3>2 DEF SetAdaptive, SetSize
    <3>3. CASE Calibrate \/ CalibrateWalk \/ CalibrateEnd \/ Walk \/ Restore
      BY <1>s, <3>1, <3>3, SMTT(30) DEF Calibrate, CalibrateWalk, CalibrateEnd, Walk, Restore
    <3> QED BY <2>1, <3>2, <3>3 DEF Publication
  <2>2. CASE Terminate
    BY <2>2 DEF Terminate, CallUpdate, history
  <2>3. CASE RunPool \/ Restart
    BY <1>s, <2>3 DEF RunPool, Restart, CallRun, CallRestart
  <2>4. CASE Stop
    BY <2>4 DEF Stop, CallRestart, CallRelease, history
  <2>5. CASE AllocateMemory \/ BuildPool \/ DeletePool
    BY <2>5 DEF AllocateMemory, BuildPool, DeletePool, Build, Delete, history, poolVars, main
  <2>6. CASE Record \/ ReturnError \/ FreeMemory
    BY <1>s, <2>6 DEF Record, ReturnError, FreeMemory, poolVars, main, history
  <2> QED BY <1>1, <2>1, <2>2, <2>3, <2>4, <2>5, <2>6 DEF Script, Publication
<1>2. CASE MainLoop /\ UNCHANGED <<script, chain>>
  BY <1>2, LoopFrame DEF script, RoundsInv
<1>3. CASE UNCHANGED <<issued, script>>
  BY <1>3 DEF script, RoundsInv
<1> QED BY <1>1, <1>2, <1>3, OtherSteps

\* The memory is freed only where the script stands behind the join.
LEMMA MemoryStep ==
  ASSUME PoolTypeOK, ScriptInv, [BenchNext]_benchVars
  PROVE  MemoryInv'
<1> USE DEF ScriptInv, MemoryInv
<1>1. CASE Script
  <2> USE DEF Goto, AtBlocks, Published, Rounds, CallInv, StageInv
  <2>1. CASE Publication
    <3>1. memory' = memory /\ memory # "freed" /\ step' \in Published \cup {"restored"}
      BY <2>1 DEF Publication, Calibrate, CalibrateWalk, CalibrateEnd, SetAdaptive, SetSize,
                  Walk, Restore
    <3> QED BY <3>1
  <2>2. CASE Terminate \/ Restart \/ RunPool
    BY <2>2 DEF Terminate, Restart, RunPool
  <2>3. CASE Stop
    BY <1>1, <2>3, PoolAssumption DEF Script, Stop, CallRestart, CallRelease, workers, Thread
  <2>4. CASE AllocateMemory \/ BuildPool \/ Record \/ ReturnError
    BY <1>1, <2>4 DEF Script, AllocateMemory, BuildPool, Record, ReturnError
  <2>5. CASE FreeMemory
    BY <1>1, <2>5 DEF Script, FreeMemory, poolVars, main, workers
  <2>6. CASE DeletePool
    BY <1>1, <2>6 DEF Script, DeletePool, Delete, workers
  <2> QED BY <1>1, <2>1, <2>2, <2>3, <2>4, <2>5, <2>6 DEF Script, Publication
<1>2. CASE MainLoop /\ UNCHANGED <<script, chain>>
  <2>1. CASE JoinWorker
    <3>1. step = "free" /\ step' = "free" /\ memory' = memory /\ memory # "freed" /\ wpc' = wpc
      BY <1>2, <2>1 DEF JoinWorker, script, CallInv, Published, Rounds, Steps, Before, Measuring, workers
    <3>2. CASE Return(FALSE)
      BY <3>1, <3>2 DEF Return
    <3>3. CASE wpc[k] = "exited" /\ Advance("join", "ready")
      <4>1. call = "join" /\ k \in Thread
        BY <2>1 DEF JoinWorker, PoolTypeOK
      <4>2. ASSUME NEW t \in Thread, t < k' \/ call' = "ready" PROVE wpc[t] = "exited"
        BY <3>1, <3>3, <4>1, <4>2, AdvanceSplit
      <4>3. call' \in {"join", "ready"}
        BY <3>3 DEF Advance
      <4> QED BY <3>1, <4>2, <4>3
    <3> QED BY <2>1, <3>2, <3>3 DEF JoinWorker
  <2>2. CASE ~JoinWorker
    <3>1. call # "join" /\ call # "ready"
      BY <1>2, <2>2 DEF MainLoop, UpdateEntry, ResumeWorker, ResetRx, SetTx, Await
    <3>2. step \notin {"free", "returned", "ended"} /\ memory # "freed"
      BY <3>1 DEF CallInv
    <3> QED BY <1>2, <3>2 DEF script
  <2> QED BY <2>1, <2>2
<1>3. CASE /\ UNCHANGED <<stage, call, k, status, script>>
           /\ \A t \in Thread : wpc[t] = "exited" => wpc'[t] = "exited"
  BY <1>3 DEF script
<1> QED BY <1>1, <1>2, <1>3, OtherSteps

\* A row is appended with the size and repeats of the loop.
LEMMA RowType ==
  ASSUME PoolTypeOK, ScriptInv, Record
  PROVE  [size |-> size,
          repeats |-> IF ic.mode = "adaptive" THEN Adaptive(size) ELSE repeats1,
          work |-> done] \in Row
<1>1. size \in BlockSizes /\ size \in Nat
  BY SettingsType, BlockSizesType DEF ScriptInv, BlockInv, Record, Measuring
<1> QED BY <1>1 DEF Row, PoolTypeOK, ScriptInv

\* Before the first step everything is where the options put it.
LEMMA ScriptInvInit == BenchInit => ScriptInv
<1> SUFFICES ASSUME BenchInit PROVE ScriptInv
  OBVIOUS
<1> USE DEF BenchInit, PoolInit
<1>1. want \in BenchmarkJobs
  <2>1. 0 \in 0..BlockMax(ic) /\ ic.start + 0 * ic.delta = ic.start
    BY SettingsType
  <2>2. ic.start \in BlockSizes
    BY <2>1, SettingsType
  <2> QED BY <2>2 DEF BenchmarkJobs, MainMethod
<1>2. CallInv /\ StageInv /\ StatusInv
  BY DEF CallInv, StageInv, StatusInv, Published, Rounds, Before
<1>3. JobInv
  BY DEF JobInv, Rounds, Measuring
<1>4. BlockInv
  BY SettingsType DEF BlockInv, Measuring
<1>5. RoundsInv /\ MemoryInv
  BY DEF RoundsInv, MemoryInv
<1>6. rows \in Seq(Row)
  OBVIOUS
<1> QED BY <1>1, <1>2, <1>3, <1>4, <1>5, <1>6 DEF ScriptInv, Steps, Before

\* ScriptInv is inductive, given the types of the pool.
LEMMA ScriptInvStep ==
  ASSUME PoolTypeOK, ScriptInv, [BenchNext]_benchVars
  PROVE  ScriptInv'
<1>1. /\ ic' \in Benchmarks /\ step' \in Steps /\ memory' \in {"none", "held", "freed"}
      /\ want' \in BenchmarkJobs /\ ignored' \in BOOLEAN /\ rows' \in Seq(Row)
      /\ repeats1' \in {Initial, Calibrated}
  <2> USE DEF ScriptInv, Goto
  <2>1. CASE Publication
    <3>1. want' \in BenchmarkJobs
      BY <2>1, PublicationUpdates
    <3> QED
      BY <2>1, <3>1 DEF Publication, Calibrate, CalibrateWalk, CalibrateEnd, SetAdaptive, SetSize,
                 Walk, Restore, Steps, Before, Published, Measuring, PoolTypeOK
  <2>2. CASE Record
    BY <2>2, RowType DEF Record, Steps, Published
  <2>3. CASE Terminate \/ Restart \/ RunPool \/ Stop
    BY <2>3 DEF Terminate, Restart, RunPool, Stop, Steps, Before, Rounds
  <2>4. CASE AllocateMemory \/ BuildPool \/ ReturnError \/ FreeMemory \/ DeletePool
    BY <2>4 DEF AllocateMemory, BuildPool, ReturnError, FreeMemory, DeletePool, Steps, Before
  <2>5. CASE UNCHANGED script
    BY <2>5 DEF script
  <2> QED
    BY <2>1, <2>2, <2>3, <2>4, <2>5, OtherSteps DEF Script, Publication
<1> QED
  BY <1>1, CallStep, StageStep, StatusStep, JobStep, BlockStep, RoundsStep, MemoryStep DEF ScriptInv

-----------------------------------------------------------------------------
(* What the invariant of the pool gives the session.                       *)

\* A sound session was sound before, and took a step that a client of the pool takes.
LEMMA SoundStep ==
  ASSUME PoolTypeOK, ScriptInv, [BenchNext]_benchVars, Sound'
  PROVE  Sound /\ [PoolNext]_poolVars
<1> USE DEF ScriptInv
<1>1. CASE Script
  <2>0. ~ignored /\ ~ignored'
    BY <1>1 DEF Sound, Script, AllocateMemory, BuildPool, RunPool, Calibrate, CalibrateWalk,
         CalibrateEnd, SetAdaptive, SetSize, Walk, Restore, Restart, Record, ReturnError,
         Terminate, Stop, FreeMemory, DeletePool, Goto, StatusInv, Before
  <2>1. CASE Restore /\ ~status
    <3>1. stage' = "running" /\ ~status' /\ step' = "restored"
      BY <2>1 DEF Restore, Publish, CallUpdate, Goto, StageInv, Rounds
    <3> QED BY <3>1 DEF Sound
  <2>2. CASE ~(step = "walked" /\ ~status)
    <3>1. [PoolNext]_poolVars
      BY <2>0, <2>2, StepsAreLegal
    <3>2. CASE step = "restored" /\ ~status
      <4>1. ReturnError /\ stage = "running"
        BY <1>1, <3>2 DEF StageInv, Script, AllocateMemory, BuildPool, RunPool, Calibrate,
             CalibrateWalk, CalibrateEnd, SetAdaptive, SetSize, AtBlocks, Walk, Restore, Restart,
             Record, Terminate, Stop, FreeMemory, DeletePool
      <4>2. stage' = "running" /\ ~status' /\ step' = "returned"
        BY <3>2, <4>1 DEF ReturnError, Goto, poolVars, main
      <4> QED BY <4>2 DEF Sound
    <3>3. CASE step = "returned" /\ ~status
      <4>1. DeletePool
        BY <1>1, <3>3 DEF Script, AllocateMemory, BuildPool, RunPool, Calibrate,
             CalibrateWalk, CalibrateEnd, SetAdaptive, SetSize, AtBlocks, Walk, Restore, Restart,
             Record, ReturnError, Terminate, Stop, FreeMemory
      <4>2. stage' = "deleted" /\ ~status' /\ step' = "ended"
        BY <3>3, <4>1 DEF DeletePool, Delete, Goto
      <4> QED BY <4>2 DEF Sound
    <3>4. step # "ended"
      BY <1>1 DEF Script, AllocateMemory, BuildPool, RunPool, Calibrate, CalibrateWalk,
         CalibrateEnd, SetAdaptive, SetSize, AtBlocks, Walk, Restore, Restart, Record,
         ReturnError, Terminate, Stop, FreeMemory, DeletePool
    <3> QED BY <2>0, <3>1, <3>2, <3>3, <3>4 DEF Sound
  <2>3. CASE step = "walked" /\ ~status /\ ~Restore
    BY <1>1, <2>3 DEF Script, AllocateMemory, BuildPool, RunPool, Calibrate, CalibrateWalk,
         CalibrateEnd, SetAdaptive, SetSize, AtBlocks, Walk, Restart, Record, ReturnError,
         Terminate, Stop, FreeMemory, DeletePool
  <2> QED BY <2>1, <2>2, <2>3
<1>2. CASE MainLoop /\ UNCHANGED <<script, chain>>
  <2>1. [PoolNext]_poolVars
    BY <1>2 DEF PoolNext
  <2>2. Sound
    BY <1>2, LoopFrame DEF script, Sound, CallInv, Published
  <2> QED BY <2>1, <2>2
<1>3. CASE UNCHANGED <<stage, status, script>> /\ ~Script
  <2>1. Sound
    BY <1>3 DEF script, Sound
  <2>2. [PoolNext]_poolVars
    BY <1>3 DEF BenchNext, MainStep, WorkerStep, WorkOnBlock, Worker, benchVars, PoolNext
  <2> QED BY <2>1, <2>2
<1> QED BY <1>1, <1>2, <1>3, OtherSteps

\* Behind a successful call, a sound session knows where its workers are and that
\* the entries hold what was last published.
LEMMA SoundReady ==
  ASSUME Sound, RefinementInv, stage = "running", status, call \in {"update", "ready"}
  PROVE  /\ \A t \in Thread : Parked(t)
         /\ call = "ready" => \A t \in Thread : entry[t] = iv
BY DEF RefinementInv, PoolInv, WorkerInv, EntriesInv

\* Rows are printed only of what was measured.
LEMMA RowsStep ==
  ASSUME PoolTypeOK, ScriptInv, Sound => RefinementInv, RowsAreMeasured, [BenchNext]_benchVars
  PROVE  RowsAreMeasured'
<1> USE DEF ScriptInv
<1>1. CASE Record /\ call = "ready"
  <2> SUFFICES ASSUME ~ignored, NEW i \in DOMAIN rows', NEW t \in Thread
               PROVE  rows'[i].work[t] = [method |-> TimedMethod(ic), size |-> rows'[i].size,
                                          repeats |-> rows'[i].repeats]
    BY <1>1, SMTT(30) DEF Record, Goto, RowsAreMeasured, TimedMethod
  <2> DEFINE row == [size |-> size,
                     repeats |-> IF ic.mode = "adaptive" THEN Adaptive(size) ELSE repeats1,
                     work |-> done]
  <2>1. rows' = Append(rows, row) /\ row \in Row /\ status
    BY <1>1, RowType DEF Record
  <2>2. CASE i \in DOMAIN rows
    BY <2>1, <2>2 DEF RowsAreMeasured
  <2>3. CASE i = Len(rows) + 1
    <3>1. stage = "running" /\ Sound
      BY <1>1, <2>1 DEF Record, StageInv, Rounds, Sound
    <3>2. done[t] = asked
      BY <1>1, <2>1, <3>1, SoundReady DEF Parked
    <3>3. asked = [method |-> TimedMethod(ic), size |-> size, repeats |-> row.repeats]
      <4>1. want.size = size /\ want.repeats = row.repeats
        BY <1>1 DEF Record, JobInv, Measuring
      <4>2. asked.method = TimedMethod(ic) /\ asked = [want EXCEPT !.method = TimedMethod(ic)]
        <5>1. CASE step = "measured" /\ ~ic.latency
          BY <5>1 DEF JobInv, Rounds, TimedMethod, MainMethod, BenchmarkJobs
        <5>2. CASE step = "restored"
          BY <5>2 DEF JobInv, TimedMethod, BenchmarkJobs
        <5> QED BY <1>1, <5>1, <5>2 DEF Record
      <4> QED BY <4>1, <4>2 DEF BenchmarkJobs
    <3>4. rows'[i] = row
      BY <2>1, <2>3
    <3> QED BY <3>2, <3>3, <3>4
  <2> QED BY <2>1, <2>2, <2>3
<1>2. CASE UNCHANGED <<ic, rows, ignored>>
  BY <1>2 DEF RowsAreMeasured, TimedMethod
<1>3. CASE CalibrateEnd
  BY <1>3 DEF CalibrateEnd, RowsAreMeasured, TimedMethod, StatusInv, Before
<1> QED
  BY <1>1, <1>2, <1>3, OtherSteps
  DEF Script, AllocateMemory, BuildPool, RunPool, Calibrate, CalibrateWalk,
      SetAdaptive, SetSize, Walk, Restore, Restart, ReturnError, Terminate, Stop, FreeMemory,
      DeletePool, Goto, script

\* Publishing WALK, the script stands behind a BUILD of every worker over its size.
LEMMA WalkIsPublishedBehindBuild ==
  ASSUME PoolTypeOK, ScriptInv, Sound => RefinementInv, ChainInv,
         call = "ready", CalibrateWalk \/ Walk, ~ignored, NEW t \in Thread
  PROVE  chain[t] = want.size /\ want'.size = want.size /\ chain' = chain
<1> USE DEF ScriptInv
<1>1. step \in {"calibrated", "measured"} /\ status /\ ic.latency
      /\ want' = [want EXCEPT !.method = "walk"] /\ chain' = chain
  BY DEF CalibrateWalk, Walk, Publish, Goto
<1>2. stage = "running" /\ Sound /\ issued > 0
  BY <1>1 DEF StageInv, Rounds, Sound
<1>3. ran[t] = issued /\ done[t] = asked
  BY <1>1, <1>2, SoundReady DEF Parked
<1>4. asked = want /\ want.method = "build"
  BY <1>1 DEF JobInv, Rounds, MainMethod
<1>5. chain[t] = want.size
  BY <1>2, <1>3, <1>4 DEF ChainInv
<1>6. want'.size = want.size
  BY <1>1 DEF BenchmarkJobs
<1> QED BY <1>1, <1>5, <1>6

\* When the method is put back, every entry still has the size of the block.
LEMMA RestoreKeepsSizes ==
  ASSUME PoolTypeOK, ScriptInv, Sound => RefinementInv, call = "ready", Restore, ~ignored,
         NEW t \in Thread
  PROVE  entry[t].job.size = want'.size
<1> USE DEF ScriptInv
<1>1. stage = "running" /\ Sound
  BY DEF Restore, StageInv, Rounds, Sound
<1>2. entry[t] = iv
  <2>1. CASE status
    BY <1>1, <2>1, SoundReady
  <2>2. CASE ~status
    BY <1>1, <2>2 DEF RefinementInv, FailedInv
  <2> QED BY <2>1, <2>2
<1>3. iv.job = want /\ want' = [want EXCEPT !.method = MainMethod(ic)]
  BY DEF JobInv, Restore, Publish
<1> QED BY <1>2, <1>3 DEF BenchmarkJobs

\* No action of the script touches what a worker reads or works on.
LEMMA ScriptSparesWorkers ==
  ASSUME PoolTypeOK, ScriptInv, Script
  PROVE  /\ UNCHANGED <<entry, local, ran, done, chain>>
         /\ \A t \in Thread : wpc'[t] = "work" => wpc[t] = "work"
<1>1. CASE Publication
  BY <1>1, PublicationUpdates
  DEF CallUpdate, workers, Publication, Calibrate, CalibrateWalk, CalibrateEnd, SetAdaptive,
      SetSize, Walk, Restore, Goto
<1>2. CASE BuildPool
  BY <1>2 DEF BuildPool, Build, Goto
<1>3. CASE RunPool \/ Terminate \/ Restart \/ Stop \/ DeletePool
  BY <1>3 DEF RunPool, Terminate, Restart, Stop, DeletePool, CallRun, CallUpdate, CallRestart,
              CallRelease, Delete, workers, Goto
<1>4. CASE AllocateMemory \/ Record \/ ReturnError \/ FreeMemory
  BY <1>4 DEF AllocateMemory, Record, ReturnError, FreeMemory, poolVars, workers, Goto
<1> QED BY <1>1, <1>2, <1>3, <1>4 DEF Script, Publication

\* The chains fit through every action of the script.
LEMMA ScriptKeepsChains ==
  ASSUME PoolTypeOK, ScriptInv, Sound => RefinementInv, ChainInv, Script
  PROVE  ChainInv'
<1> SUFFICES ASSUME ~ignored', NEW t \in Thread
             PROVE  /\ step' \in {"walk", "calibrateWalk"} => chain'[t] = want'.size
                    /\ step' = "restored" => entry'[t].job.size = want'.size
                    /\ ~ignored
  BY ScriptSparesWorkers DEF ChainInv
<1>1. call = "ready" /\ ~ignored
  BY DEF ScriptInv, Script, AllocateMemory, BuildPool, RunPool, Calibrate, CalibrateWalk,
         CalibrateEnd, SetAdaptive, SetSize, Walk, Restore, Restart, Record, ReturnError,
         Terminate, Stop, FreeMemory, DeletePool, Goto, StatusInv, Before
<1>2. CASE CalibrateWalk \/ Walk
  BY <1>1, <1>2, WalkIsPublishedBehindBuild DEF CalibrateWalk, Walk, Goto
<1>3. CASE Restore
  BY <1>1, <1>3, RestoreKeepsSizes, ScriptSparesWorkers DEF Restore, Goto
<1>4. CASE ~CalibrateWalk /\ ~Walk /\ ~Restore
  BY <1>1, <1>4 DEF Script, AllocateMemory, BuildPool, RunPool, Calibrate, CalibrateEnd,
         SetAdaptive, SetSize, Restart, Record, ReturnError,
         Terminate, Stop, FreeMemory, DeletePool, Goto
<1> QED BY <1>2, <1>3, <1>4

\* Writing an entry keeps them: WALK is written only where the chain is laid, and over a
\* worker at its work only a job of the same size.
LEMMA UpdateKeepsChains ==
  ASSUME PoolTypeOK, ScriptInv, Sound => RefinementInv, ChainInv, UpdateEntry,
         UNCHANGED <<script, chain>>
  PROVE  ChainInv'
<1> SUFFICES ASSUME ~ignored, NEW t \in Thread
             PROVE  /\ entry'[t].job.method = "walk" => chain[t] = entry'[t].job.size
                    /\ wpc[t] = "work" => local[t].size = entry'[t].job.size
                    /\ step = "restored" => entry'[t].job.size = want.size
  BY DEF ChainInv, UpdateEntry, workers, script
<1> USE DEF ScriptInv
<1>1. call = "update" /\ entry' = [entry EXCEPT ![k] = iv] /\ iv.job = want
  BY DEF UpdateEntry, JobInv
<1>2. CASE t # k
  BY <1>1, <1>2 DEF ChainInv, PoolTypeOK
<1>3. CASE t = k
  <2>1. entry'[t] = iv
    BY <1>1, <1>3 DEF PoolTypeOK
  <2>2. step \in Published \cup {"restored", "terminate"}
    BY <1>1 DEF CallInv, Steps, Before, Rounds, Measuring, Published
  <2>3. want.method = "walk" => chain[t] = want.size
    BY <2>2 DEF JobInv, ChainInv, MainMethod, Published
  <2>4. wpc[t] = "work" => step = "restored"
    <3> SUFFICES ASSUME step # "restored" PROVE wpc[t] # "work"
      OBVIOUS
    <3>1. status /\ stage = "running" /\ Sound
      BY <2>2 DEF StatusInv, StageInv, Sound
    <3> QED BY <1>1, <3>1, SoundReady DEF Parked
  <2>5. step = "restored" => entry[t].job.size = want.size
    BY DEF ChainInv
  <2>6. wpc[t] = "work" => local[t].size = entry[t].job.size
    BY DEF ChainInv
  <2> QED BY <1>1, <2>1, <2>3, <2>4, <2>5, <2>6
<1> QED BY <1>2, <1>3

\* A worker at its work lays a chain of the size its entry has.
LEMMA WorkersKeepChains ==
  ASSUME PoolTypeOK, ScriptInv, Sound => RefinementInv, ChainInv, ChainType,
         NEW t \in Thread, WorkerStep(t)
  PROVE  ChainInv'
<1> USE DEF ScriptInv
<1>1. Worker(t) /\ UNCHANGED script
  BY DEF WorkerStep, WorkOnBlock, Worker
<1>2. UNCHANGED <<stage, call, status, entry>>
      /\ \A u \in Thread \ {t} : wpc'[u] = wpc[u] /\ local'[u] = local[u] /\ ran'[u] = ran[u]
                                 /\ done'[u] = done[u]
  BY <1>1, WorkerFrame
<1>3. CASE WorkOnBlock(t)
  <2>1. wpc[t] = "work" /\ wpc'[t] = "signal" /\ local' = local
        /\ ran'[t] = ran[t] + 1 /\ done'[t] = local[t]
    BY <1>3 DEF WorkOnBlock, Work, Move, PoolTypeOK
  <2>2. chain'[t] = IF local[t].method = "build" THEN local[t].size ELSE chain[t]
    BY <1>3 DEF WorkOnBlock, ChainType
  <2>3. \A u \in Thread \ {t} : chain'[u] = chain[u]
    BY <1>3 DEF WorkOnBlock, ChainType
  <2>4. ~ignored => step \notin {"walk", "calibrateWalk"}
    <3> SUFFICES ASSUME ~ignored, step \in {"walk", "calibrateWalk"} PROVE FALSE
      OBVIOUS
    <3>1. status /\ stage = "running" /\ Sound /\ call \in {"update", "ready"}
      BY DEF StatusInv, StageInv, Sound, CallInv, Published
    <3> QED BY <2>1, <3>1, SoundReady DEF Parked
  <2>5. ASSUME ~ignored, NEW u \in Thread, u # t
        PROVE  /\ entry'[u].job.method = "walk" => chain'[u] = entry'[u].job.size
               /\ wpc'[u] = "work" => local'[u].size = entry'[u].job.size
               /\ (wpc'[u] = "work" /\ local'[u].method = "walk") => chain'[u] = local'[u].size
               /\ (ran'[u] > 0 /\ done'[u].method = "build") => chain'[u] = done'[u].size
               /\ step' = "restored" => entry'[u].job.size = want'.size
    BY <1>1, <1>2, <2>3, <2>5 DEF ChainInv, script
  <2>6. ASSUME ~ignored
        PROVE  /\ entry'[t].job.method = "walk" => chain'[t] = entry'[t].job.size
               /\ (ran'[t] > 0 /\ done'[t].method = "build") => chain'[t] = done'[t].size
               /\ step' = "restored" => entry'[t].job.size = want'.size
    BY <1>1, <1>2, <2>1, <2>2, <2>6 DEF ChainInv, script
  <2> QED
    BY <1>1, <2>1, <2>4, <2>5, <2>6 DEF ChainInv, script
<1>4. CASE ReadEntry(t) /\ UNCHANGED chain
  BY <1>1, <1>2, <1>4 DEF ReadEntry, Move, ChainInv, PoolTypeOK, script
<1>5. CASE UNCHANGED <<local, ran, done, chain>> /\ wpc'[t] # "work"
  BY <1>1, <1>2, <1>5 DEF ChainInv, PoolTypeOK, script
<1> QED
  BY <1>3, <1>4, <1>5
  DEF WorkerStep, Worker, Test, ReadFreed, Work, SignalRx, WaitTx, ResetTx, Move, PoolTypeOK

\* The chains fit through every step.
LEMMA ChainStep ==
  ASSUME PoolTypeOK, ScriptInv, Sound => RefinementInv, ChainType, ChainInv, [BenchNext]_benchVars
  PROVE  ChainType' /\ ChainInv'
<1>1. ChainType'
  <2>1. ASSUME NEW t \in Thread, WorkOnBlock(t) PROVE ChainType'
    BY <2>1 DEF WorkOnBlock, ChainType, PoolTypeOK
  <2>2. CASE UNCHANGED chain
    BY <2>2 DEF ChainType
  <2> QED
    BY <2>1, <2>2, ScriptSparesWorkers DEF BenchNext, MainStep, WorkerStep, benchVars
<1>2. ChainInv'
  <2>1. CASE Script
    BY <2>1, ScriptKeepsChains
  <2>2. CASE MainLoop /\ UNCHANGED <<script, chain>>
    <3>1. CASE UpdateEntry
      BY <2>2, <3>1, UpdateKeepsChains
    <3>2. CASE ~UpdateEntry
      <4>1. UNCHANGED <<entry, local, ran, done>>
        BY <2>2, <3>2, LoopFrame
        DEF MainLoop, ResumeWorker, ResetRx, SetTx, Await, JoinWorker
      <4>2. \A t \in Thread : wpc'[t] = "work" => wpc[t] = "work"
        BY <2>2, <3>2
        DEF MainLoop, ResumeWorker, ResetRx, SetTx, Await, JoinWorker, workers, PoolTypeOK
      <4> QED BY <2>2, <4>1, <4>2 DEF ChainInv, script
    <3> QED BY <3>1, <3>2
  <2>3. ASSUME NEW t \in Thread, WorkerStep(t) PROVE ChainInv'
    BY <2>3, WorkersKeepChains
  <2>4. CASE UNCHANGED benchVars
    BY <2>4 DEF benchVars, poolVars, main, workers, script, ChainInv
  <2> QED BY <2>1, <2>2, <2>3, <2>4 DEF BenchNext, MainStep
<1> QED BY <1>1, <1>2

\* BenchInv is inductive: it holds at the start.
LEMMA BenchInvInit == BenchInit => BenchInv
<1> SUFFICES ASSUME BenchInit PROVE BenchInv
  OBVIOUS
<1>1. PoolTypeOK /\ RefinementInv /\ ScriptInv
  BY PoolTypeInit, RefinementInvInit, ScriptInvInit DEF BenchInit
<1>2. ChainType /\ ChainInv
  BY DEF BenchInit, PoolInit, ChainType, ChainInv, MainMethod
<1>3. RowsAreMeasured
  BY DEF BenchInit, RowsAreMeasured
<1> QED BY <1>1, <1>2, <1>3 DEF BenchInv

\* Every step of a session preserves it.
LEMMA BenchInvStep == BenchInv /\ [BenchNext]_benchVars => BenchInv'
<1> SUFFICES ASSUME BenchInv, [BenchNext]_benchVars PROVE BenchInv'
  OBVIOUS
<1>1. PoolTypeOK' /\ ScriptInv'
  BY BenchKeepsPoolType, ScriptInvStep DEF BenchInv
<1>2. (Sound => RefinementInv)'
  BY SoundStep, RefinementInvStep DEF BenchInv
<1>3. ChainType' /\ ChainInv' /\ RowsAreMeasured'
  BY ChainStep, RowsStep DEF BenchInv
<1> QED BY <1>1, <1>2, <1>3 DEF BenchInv

\* For any settings, workers and failing calls: where the script is, what the pool does
\* for it, what the workers read and what the rows claim fit together at every step.
THEOREM BenchInvariance == BenchSpec => []BenchInv
BY BenchInvInit, BenchInvStep, PTL DEF BenchSpec

-----------------------------------------------------------------------------
\* A printed row is true, whatever failed before, unless a failed round of the
\* calibration was passed over.
THEOREM RowsAreTrue == BenchSpec => []RowsAreMeasured
<1>1. BenchInv => RowsAreMeasured
  BY DEF BenchInv
<1> QED BY <1>1, BenchInvariance, PTL

\* No worker follows a chain that was not laid over the size it walks.
THEOREM ChainsAreLaid == BenchSpec => []WalkFollowsBuild
<1>1. BenchInv => WalkFollowsBuild
  BY DEF BenchInv, ChainInv, WalkFollowsBuild
<1> QED BY <1>1, BenchInvariance, PTL

\* The blocks are given back, and the list of entries freed, only behind the workers.
THEOREM MemoryIsFreedLast == BenchSpec => []MemoryOutlivesWork
<1>1. BenchInv => MemoryOutlivesWork
  <2> SUFFICES ASSUME BenchInv, memory = "freed" PROVE MemoryOutlivesWork
    BY DEF MemoryOutlivesWork
  <2>1. stage \in {"released", "deleted"} /\ (status => \A t \in Thread : wpc[t] = "exited")
    BY DEF BenchInv, ScriptInv, MemoryInv
  <2>2. (stage = "released" /\ ~ignored) => RefinementInv
    BY DEF BenchInv, Sound
  <2> QED
    BY <2>1, <2>2 DEF MemoryOutlivesWork, NoUseAfterFree, RefinementInv, StoppedInv
<1> QED BY <1>1, BenchInvariance, PTL

\* A session keeps to the order of the pool's operations in every step, but for the two
\* the property names.
THEOREM OrderIsKept == BenchSpec => PoolUsedLegally
<1>1. BenchInit => PoolInit
  BY DEF BenchInit
<1>2. BenchInv /\ [BenchNext]_benchVars
        => [ignored' \/ (step = "walked" /\ ~status) \/ PoolNext]_poolVars
  BY StepsAreLegal DEF BenchInv
<1> QED BY <1>1, <1>2, BenchInvariance, PTL DEF BenchSpec, PoolUsedLegally

\* While it does, the session has all that the pool promises: complete rounds, new
\* signals, permissions that are not lost, and entries without a race.
THEOREM PoolServesSession ==
  BenchSpec => [](Sound => RoundComplete /\ SignalsAreNew /\ NoLostContinue /\ NoEntryRace)
<1>1. BenchInv => (Sound => RoundComplete /\ SignalsAreNew /\ NoLostContinue /\ NoEntryRace)
  <2> SUFFICES ASSUME PoolInv PROVE RoundComplete /\ SignalsAreNew /\ NoLostContinue /\ NoEntryRace
    BY DEF BenchInv, RefinementInv
  <2> QED BY PoolInvGives
<1> QED BY <1>1, BenchInvariance, PTL

-----------------------------------------------------------------------------
\* What is published fits the blocks, so what the workers read does.
LEMMA SizesStep ==
  ASSUME BenchInv, SizesInv, [BenchNext]_benchVars
  PROVE  SizesInv'
<1> USE DEF BenchInv, ScriptInv, SizesInv
<1>0. MaxSize(ic) \in Nat /\ UNCHANGED ic
  BY SettingsType, OtherSteps
  DEF Script, AllocateMemory, BuildPool, RunPool, Calibrate, CalibrateWalk, CalibrateEnd,
      SetAdaptive, SetSize, Walk, Restore, Restart, Record, ReturnError, Terminate, Stop,
      FreeMemory, DeletePool, Goto, script
<1>1. CASE Script
  <2>1. want'.size \in {want.size, MaxSize(ic)} \/ (SetSize /\ want'.size = size)
    BY <1>1
    DEF Script, AllocateMemory, BuildPool, RunPool, Calibrate, CalibrateWalk, CalibrateEnd,
        SetAdaptive, SetSize, Walk, Restore, Restart, Record, ReturnError, Terminate, Stop,
        FreeMemory, DeletePool, Publish, BenchmarkJobs
  <2>2. SetSize => size <= MaxSize(ic)
    <3> SUFFICES ASSUME SetSize PROVE size <= MaxSize(ic)
      OBVIOUS
    <3>1. block \in 0..BlockMax(ic) /\ size = ic.start + block * ic.delta
      BY SettingsType DEF SetSize, MoreBlocks, BlockInv, Measuring
    <3> QED BY <3>1, SizesFit
  <2>3. want'.size <= MaxSize(ic)
    BY <1>0, <2>1, <2>2
  <2> QED
    BY <1>0, <1>1, <2>3, ScriptSparesWorkers DEF MaxSize
<1>2. CASE MainLoop /\ UNCHANGED <<script, chain>>
  <2>1. \A t \in Thread : entry'[t] \in {entry[t], iv}
    BY <1>2 DEF MainLoop, UpdateEntry, ResumeWorker, ResetRx, SetTx, Await, JoinWorker, PoolTypeOK
  <2>2. iv.job = want /\ local' = local /\ want' = want
    BY <1>2, LoopFrame DEF JobInv, script
  <2> QED
    BY <1>0, <2>1, <2>2 DEF MaxSize
<1>3. ASSUME NEW t \in Thread, WorkerStep(t) PROVE SizesInv'
  <2>1. Worker(t) /\ UNCHANGED <<script, entry>>
    BY <1>3, WorkerFrame DEF WorkerStep, WorkOnBlock, Worker
  <2>2. \A u \in Thread : local'[u] \in {local[u], entry[u].job}
    BY <2>1
    DEF Worker, Test, ReadEntry, ReadFreed, Work, SignalRx, WaitTx, ResetTx, PoolTypeOK
  <2> QED
    BY <1>0, <2>1, <2>2 DEF MaxSize, script
<1>4. CASE UNCHANGED benchVars
  BY <1>4 DEF benchVars, poolVars, workers, script, MaxSize
<1> QED BY <1>1, <1>2, <1>3, <1>4 DEF BenchNext, MainStep

\* In every session with start <= end no worker runs over the end of its block. With
\* start > end it does: the run descending_sizes shows how.
THEOREM WorkFitsBlock == BenchSpec /\ ic.start <= ic.end => []WorkInsideBlock
<1>1. BenchInit /\ ic.start <= ic.end => SizesInv
  <2> SUFFICES ASSUME BenchInit, ic.start <= ic.end PROVE SizesInv
    OBVIOUS
  <2>1. ic.start <= MaxSize(ic)
    BY SettingsType DEF BenchInit, MaxSize
  <2> QED BY <2>1 DEF BenchInit, PoolInit, SizesInv
<1>2. BenchInv /\ SizesInv /\ [BenchNext]_benchVars => SizesInv'
  BY SizesStep
<1>3. SizesInv => WorkInsideBlock
  BY DEF SizesInv, WorkInsideBlock
<1> QED BY <1>1, <1>2, <1>3, BenchInvariance, PTL DEF BenchSpec

=============================================================================
