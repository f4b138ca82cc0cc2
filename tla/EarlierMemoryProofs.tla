------------------------ MODULE EarlierMemoryProofs ------------------------
(***************************************************************************)
(* Proofs about EarlierMemory, for any option settings, any number of      *)
(* threads and any set of failing calls. Until its threads are terminated, *)
(* a session whose pool was built completely takes only steps that the     *)
(* session of BenchmarkMemory takes too, so what was proved of those       *)
(* carries over. What is new is the incomplete pool, which is run          *)
(* nevertheless, and the release.                                          *)
(***************************************************************************)
EXTENDS EarlierMemory, BenchmarkMemoryProofs

-----------------------------------------------------------------------------
\* The session has not come to the release of its threads.
Unreleased == step # "free" /\ memory # "freed"

\* The pool is complete, or nobody has tried to build it: nothing distinguishes the
\* session from one of BenchmarkMemory.
Alike == IF complete THEN Unreleased ELSE stage = "new"

\* A thread that was not created or not yet resumed.
Idle(t) == wpc[t] \in {"absent", "suspended"} /\ ~rx[t] /\ ~tx[t] /\ ran[t] = 0

\* An incomplete pool gets one round, which fails: those of its threads that could be
\* resumed execute it, the others never run.
IncompleteInv ==
  (~complete /\ stage # "new") =>
    /\ step \in {"run", "ran", "returned", "ended", "crashed"} /\ memory # "freed"
    /\ step = "run" => stage = "built" /\ call = "ready"
    /\ step = "ran" => stage = "running" /\ call \in {"resume", "await", "ready"}
    /\ step = "returned" => stage = "running" /\ call = "ready"
    /\ step = "ended" => stage = "deleted" /\ call = "ready"
    /\ stage # "deleted" =>
         /\ ~status /\ ~iv.terminate
         /\ stage = "running" => asked = iv.job
         /\ issued = IF stage = "built" THEN 0 ELSE 1
         /\ \A t \in Thread :
              /\ entry[t] = iv
              /\ Idle(t) \/ (stage = "running" /\ InRound(t))
              /\ (call = "resume" /\ ~(t < k)) => Idle(t)

\* While the threads are terminated, one after the other, and afterwards: unless a failed
\* round was ignored, each of them is gone or blocked for good.
ReleasedInv ==
  (complete /\ ~Unreleased) =>
    /\ step = "free" => memory # "freed" /\ call \in {"join", "ready"}
                          /\ stage = IF call = "join" THEN "running" ELSE "released"
    /\ memory = "freed" => /\ step \in {"returned", "ended"} /\ call = "ready"
                           /\ stage = IF step = "ended" THEN "deleted" ELSE "released"
    /\ call = "join" => (~ignored => status) /\ \A t \in Thread : t < k => wpc[t] = "exited"
    /\ (call = "ready" /\ status) => \A t \in Thread : wpc[t] = "exited"
    /\ ~ignored => \A t \in Thread :
         /\ wpc[t] = "exited" \/ (wpc[t] = "wait" /\ ~tx[t])
         /\ (call = "join" /\ ~(t < k)) => wpc[t] = "wait"

\* Threads are terminated only behind the last row, and then outside their wait only
\* after a failed round was ignored.
CutInv == (Unreleased \/ ~ignored) => cut = {}

\* Only an incomplete pool has a thread that crashes the program.
BlindInv == blind = 0 \/ (~complete /\ stage # "new")

EarlierInv ==
  /\ PoolTypeOK /\ BlindInv
  /\ Alike => ScriptInv /\ (Sound => RefinementInv)
  /\ IncompleteInv /\ ReleasedInv /\ CutInv

-----------------------------------------------------------------------------
\* It stays so: the build that leaves such a thread is the one that fails.
LEMMA BlindInvStep == ASSUME EarlierInv, [EarlierNext]_earlierVars PROVE BlindInv'
<1>1. CASE EarlierBuild
  BY <1>1 DEF EarlierBuild, Build, BlindInv
<1>2. ASSUME UNCHANGED <<complete, blind>>, stage # "new" => stage' # "new" PROVE BlindInv'
  BY <1>2 DEF EarlierInv, BlindInv
<1>3. CASE EarlierScript /\ ~EarlierBuild
  BY <1>2, <1>3
  DEF EarlierScript, EarlierRelease, CallRelease, AllocateMemory, RunPool, CallRun, Calibrate,
      CalibrateWalk, CalibrateEnd, SetAdaptive, SetSize, Walk, Restore, Publish, CallUpdate,
      Restart, CallRestart, Record, ReturnError, FreeMemory, DeletePool, Delete, poolVars, main
<1>4. CASE EarlierLoop \/ KillWorker
  BY <1>2, <1>4
  DEF EarlierLoop, UpdateEntry, EarlierResume, ResumeWorker, ResetRx, SetTx, EarlierAwait, Await,
      KillWorker
<1>5. ASSUME NEW t \in Thread, EarlierWorker(t) PROVE BlindInv'
  BY <1>2, <1>5, WorkerFrame DEF EarlierWorker, WorkerStep, WorkOnBlock, Worker, EarlierInv
<1>6. ASSUME NEW t \in Thread, Crash(t) PROVE BlindInv'
  BY <1>2, <1>6 DEF Crash, poolVars, main
<1>7. CASE UNCHANGED earlierVars
  BY <1>2, <1>7 DEF earlierVars, benchVars, poolVars, main
<1> QED BY <1>1, <1>3, <1>4, <1>5, <1>6, <1>7 DEF EarlierNext, EarlierMain

\* No thread of a complete pool, and none before the pool is built, crashes the program.
LEMMA NobodyIsBlind ==
  ASSUME EarlierInv, complete \/ stage = "new", NEW t \in Thread
  PROVE  ~Crash(t)
BY DEF EarlierInv, BlindInv, Crash, BlindCall, Thread

-----------------------------------------------------------------------------
(* The session before its release.                                         *)

\* Nothing is released before it is built.
LEMMA AlikeUnreleased == ASSUME EarlierInv, Alike PROVE Unreleased
BY DEF EarlierInv, Alike, Unreleased, ScriptInv, StageInv, MemoryInv

\* A session that is ready and not ignoring a failure releases only behind a success.
LEMMA SoundAlike ==
  ASSUME EarlierInv, Alike, ~ignored, status \/ step \notin {"restored", "returned", "ended"}
  PROVE  Sound /\ RefinementInv
BY DEF EarlierInv, Sound

\* While runThreads resumes the threads of a complete pool, there is one to resume.
LEMMA ResumesThread ==
  ASSUME EarlierInv, Alike, call = "resume"
  PROVE  wpc[k] # "absent" /\ stage # "new"
<1>1. step = "ran" /\ stage = "running" /\ ~ignored
  BY DEF EarlierInv, ScriptInv, CallInv, StageInv, StatusInv, Steps, Before, Published, Rounds,
         Measuring
<1>2. RefinementInv
  BY <1>1, SoundAlike
<1>3. k \in Thread /\ ~(k < k)
  BY DEF EarlierInv, PoolTypeOK, Thread
<1> QED BY <1>1, <1>2, <1>3 DEF RefinementInv, PoolInv, WorkerInv, Fresh

\* Its steps up to there are those of BenchmarkMemory, but for the build that fails and
\* the release.
LEMMA AlikeMoves ==
  ASSUME EarlierInv, Alike, [EarlierNext]_earlierVars
  PROVE  \/ /\ [BenchNext]_benchVars /\ Unreleased' /\ cut' = cut
            /\ complete' = complete \/ (complete' /\ stage' = "built")
         \/ EarlierBuild /\ call = "ready" /\ ~status'
         \/ EarlierRelease /\ call = "ready"
<1>0. Unreleased
  BY AlikeUnreleased
<1> USE DEF Alike, Unreleased
<1>1. CASE EarlierScript
  <2>1. CASE EarlierBuild
    <3>1. CASE status'
      <4>1. BuildPool
        BY <2>1, <3>1 DEF EarlierBuild, BuildPool, Goto
      <4> QED
        BY <1>0, <1>1, <2>1, <3>1, <4>1
        DEF EarlierScript, EarlierBuild, Build, Goto, BenchNext, MainStep, Script
    <3> QED BY <1>1, <2>1, <3>1 DEF EarlierScript
  <2>2. CASE ~EarlierBuild /\ ~EarlierRelease
    <3>1. ~FreeMemory /\ Script /\ complete' = complete /\ cut' = cut
      BY <1>0, <1>1, <2>2 DEF EarlierScript, Script, FreeMemory
    <3>2. Unreleased'
      BY <1>0, <1>1, <2>2, <3>1
      DEF EarlierScript, AllocateMemory, RunPool, Calibrate, CalibrateWalk, CalibrateEnd,
          SetAdaptive, SetSize, Walk, Restore, Restart, Record, ReturnError, DeletePool, Goto
    <3> QED BY <3>1, <3>2 DEF BenchNext, MainStep
  <2> QED BY <1>1, <2>1, <2>2 DEF EarlierScript
<1>2. CASE EarlierLoop
  <2>1. MainLoop /\ UNCHANGED <<script, chain, complete, cut>>
    <3>1. CASE EarlierResume
      BY <1>2, <3>1, ResumesThread DEF EarlierLoop, EarlierResume, MainLoop
    <3>2. CASE EarlierAwait
      <4>1. stage # "new"
        BY <3>2 DEF EarlierAwait, EarlierInv, ScriptInv, CallInv, StageInv, Steps, Before,
                    Published, Rounds, Measuring
      <4> QED BY <1>2, <3>2, <4>1 DEF EarlierLoop, EarlierAwait, MainLoop
    <3> QED BY <1>2, <3>1, <3>2 DEF EarlierLoop, MainLoop
  <2> QED BY <1>0, <2>1 DEF BenchNext, MainStep, script
<1>3. CASE KillWorker
  BY <1>0, <1>3 DEF KillWorker, EarlierInv, ScriptInv, CallInv, Steps, Before, Published, Rounds,
                    Measuring
<1>4. ASSUME NEW t \in Thread, EarlierWorker(t)
      PROVE  [BenchNext]_benchVars /\ UNCHANGED <<step, memory, complete, cut>>
  BY <1>4 DEF EarlierWorker, BenchNext, WorkerStep, script
<1>5. CASE UNCHANGED earlierVars
  BY <1>0, <1>5 DEF earlierVars, benchVars, script
<1>6. \A t \in Thread : ~Crash(t)
  BY NobodyIsBlind
<1> QED BY <1>0, <1>1, <1>2, <1>3, <1>4, <1>5, <1>6 DEF EarlierNext, EarlierMain

\* What was proved of BenchmarkMemory is kept by those steps.
LEMMA AlikeKeeps ==
  ASSUME EarlierInv, Alike, [BenchNext]_benchVars
  PROVE  PoolTypeOK' /\ ScriptInv' /\ (Sound => RefinementInv)'
<1>1. PoolTypeOK' /\ ScriptInv'
  BY BenchKeepsPoolType, ScriptInvStep DEF EarlierInv
<1>2. (Sound => RefinementInv)'
  BY SoundStep, RefinementInvStep DEF EarlierInv
<1> QED BY <1>1, <1>2

\* A build that fails leaves threads that have not run.
LEMMA FailingBuild ==
  ASSUME EarlierInv, Alike, EarlierBuild, call = "ready", ~status'
  PROVE  EarlierInv'
<1>1. PoolTypeOK'
  BY PoolTypeKept DEF EarlierInv, EarlierBuild, Operation
<1>2. step = "build" /\ stage = "new" /\ ~ignored
  BY DEF EarlierBuild, Build, EarlierInv, StatusInv, ScriptInv, Before
<1>3. RefinementInv
  BY <1>2, SoundAlike
<1>4. ~complete' /\ stage' = "built" /\ step' = "run" /\ call' = "ready"
      /\ UNCHANGED <<iv, entry, rx, tx, ran, issued, memory, cut, ignored>>
  BY DEF EarlierBuild, Build, Goto, history
<1>5. \A t \in Thread : wpc'[t] \in {"absent", "suspended"}
  BY DEF EarlierBuild, Build
<1>6. StartInv
  BY <1>2, <1>3 DEF RefinementInv, PoolInv
<1>7. Unreleased /\ cut = {}
  BY AlikeUnreleased DEF EarlierInv, CutInv
<1>8. IncompleteInv'
  BY <1>1, <1>2, <1>4, <1>5, <1>6, <1>7 DEF IncompleteInv, Unreleased, Idle, StartInv
<1> QED
  BY <1>1, <1>4, <1>7, <1>8 DEF EarlierInv, Alike, Unreleased, ReleasedInv, CutInv, BlindInv

\* Before it is built a pool is built or deleted, or nothing happens to it.
LEMMA NewMoves ==
  ASSUME EarlierInv, ~complete, stage = "new", [EarlierNext]_earlierVars, ~EarlierBuild
  PROVE  stage' = "new" \/ (DeletePool /\ call = "ready")
<1>1. step \in {"allocate", "build", "returned"} /\ call = "ready"
  BY DEF EarlierInv, Alike, ScriptInv, StageInv, CallInv, Steps, Before, Published, Rounds,
         Measuring
<1>2. CASE EarlierScript
  BY <1>1, <1>2
  DEF EarlierScript, EarlierRelease, AllocateMemory, RunPool, Calibrate, CalibrateWalk,
      CalibrateEnd, SetAdaptive, SetSize, AtBlocks, Walk, Restore, Restart, Record, ReturnError,
      FreeMemory, poolVars, main
<1>3. CASE EarlierLoop \/ KillWorker
  BY <1>1, <1>3
  DEF EarlierLoop, UpdateEntry, EarlierResume, ResumeWorker, ResetRx, SetTx, EarlierAwait,
      KillWorker
<1>4. ASSUME NEW t \in Thread, EarlierWorker(t) PROVE stage' = stage
  BY <1>4, WorkerFrame DEF EarlierWorker, WorkerStep, WorkOnBlock, Worker, EarlierInv
<1>5. CASE UNCHANGED earlierVars
  BY <1>5 DEF earlierVars, benchVars, poolVars, main
<1> QED BY <1>2, <1>3, <1>4, <1>5, NobodyIsBlind DEF EarlierNext, EarlierMain
-----------------------------------------------------------------------------
(* The pool that could not be built.                                       *)

\* What only concerns a later part of the invariant holds while the pool is incomplete.
LEMMA IncompleteSuffices ==
  ASSUME PoolTypeOK', IncompleteInv', ~complete', stage' # "new", cut' = {}
  PROVE  EarlierInv'
BY DEF EarlierInv, Alike, ReleasedInv, CutInv, BlindInv

\* What the incomplete pool does until it is deleted: the first round is begun, a thread
\* is resumed or cannot be, the wait fails, the scenario returns.
LEMMA IncompleteMoves ==
  ASSUME EarlierInv, ~complete, stage # "new", EarlierMain
  PROVE  \/ RunPool /\ step = "run"
         \/ ResumeWorker /\ step = "ran" /\ wpc[k] # "absent" /\ UNCHANGED <<step, memory>>
         \/ /\ step = "ran" /\ stage = "running" /\ call \in {"resume", "await"} /\ call' = "ready"
            /\ ~status' /\ UNCHANGED <<step, memory, stage, iv, entry, rx, tx, workers, history>>
         \/ ReturnError /\ step = "ran" /\ call = "ready"
         \/ DeletePool /\ call = "ready" /\ step = "returned"
<1>0. /\ step \in {"run", "ran", "returned", "ended"} /\ stage # "new"
      /\ step = "ran" => ~status /\ stage = "running"
      /\ step = "returned" => stage = "running"
      /\ step = "ended" => stage = "deleted"
  BY DEF EarlierInv, IncompleteInv, EarlierMain
<1>1. CASE EarlierScript
  <2>1. ~(EarlierBuild \/ AllocateMemory \/ Calibrate \/ CalibrateWalk \/ CalibrateEnd)
    BY <1>0 DEF EarlierBuild, AllocateMemory, Calibrate, CalibrateWalk, CalibrateEnd
  <2>2. ~(Walk \/ Restore \/ Restart \/ FreeMemory)
    BY <1>0 DEF Walk, Restore, Restart, FreeMemory
  <2>4. ~(SetAdaptive \/ SetSize \/ EarlierRelease \/ Record)
    BY <1>0 DEF SetAdaptive, SetSize, EarlierRelease, Record, AtBlocks
  <2>5. (RunPool => step = "run") /\ (ReturnError => step = "ran")
    BY <1>0 DEF RunPool, ReturnError
  <2>3. DeletePool => step = "returned"
    BY <1>0 DEF DeletePool, Delete
  <2>. QED
    BY <1>1, <2>1, <2>2, <2>3, <2>4, <2>5 DEF EarlierScript
<1> USE DEF EarlierInv, IncompleteInv
<1>2. CASE EarlierLoop
  <2>1. step = "ran" /\ stage = "running" /\ UNCHANGED <<step, memory>>
    BY <1>2
    DEF EarlierMain, EarlierLoop, UpdateEntry, EarlierResume, ResumeWorker, ResetRx, SetTx,
        EarlierAwait, script
  <2>2. EarlierResume \/ EarlierAwait
    BY <1>2, <2>1 DEF EarlierLoop, UpdateEntry, ResetRx, SetTx
  <2> QED BY <2>1, <2>2 DEF EarlierResume, EarlierAwait, Return
<1>3. CASE KillWorker
  BY <1>3 DEF KillWorker, EarlierMain
<1> QED BY <1>1, <1>2, <1>3 DEF EarlierMain

\* The main thread keeps IncompleteInv.
LEMMA IncompleteMain ==
  ASSUME EarlierInv, ~complete, stage # "new", EarlierMain, PoolTypeOK', ~complete'
  PROVE  IncompleteInv' /\ stage' # "new"
<1> USE DEF EarlierInv, IncompleteInv
<1>1. CASE RunPool /\ step = "run"
  BY <1>1 DEF RunPool, CallRun, Goto, Idle, PoolTypeOK, workers
<1>2. CASE ResumeWorker /\ step = "ran" /\ wpc[k] # "absent" /\ UNCHANGED <<step, memory>>
  <2>1. step = "ran" /\ stage = "running" /\ ~status /\ k \in Thread
    BY <1>2 DEF ResumeWorker, PoolTypeOK
  <2>2. UNCHANGED <<stage, iv, entry, rx, tx, local, ran, done, issued, asked>>
    BY <1>2 DEF ResumeWorker, history
  <2>3. CASE Return(FALSE) /\ UNCHANGED wpc
    BY <1>2, <2>1, <2>2, <2>3
    DEF Return, Idle, InRound, Busy, Signalling, Parked
  <2>4. CASE wpc' = [wpc EXCEPT ![k] = "test"] /\ Advance("resume", "await") /\ UNCHANGED status
    <3>1. ASSUME NEW t \in Thread
          PROVE  /\ (Idle(t) \/ InRound(t))'
                 /\ (call' = "resume" /\ ~(t < k')) => Idle(t)'
      <4>1. CASE t = k
        <5>1. Idle(t) /\ entry[t] = iv /\ issued = 1
          BY <1>2, <2>1, <4>1 DEF ResumeWorker, PoolTypeOK, Thread
        <5>2. InRound(t)'
          BY <2>1, <2>2, <2>4, <4>1, <5>1 DEF Idle, InRound, Busy, PoolTypeOK
        <5> QED BY <2>1, <2>4, <4>1, <5>2, AdvanceSplit
      <4>2. CASE t # k
        <5>1. wpc'[t] = wpc[t]
          BY <2>4, <4>2 DEF PoolTypeOK
        <5>2. Idle(t)' = Idle(t) /\ InRound(t)' = InRound(t)
          BY <2>2, <5>1 DEF Idle, InRound, Busy, Signalling, Parked
        <5>3. (call' = "resume" /\ ~(t < k')) => ~(t < k)
          BY <2>1, <2>4, <4>2, AdvanceSplit
        <5> QED BY <1>2, <2>1, <5>2, <5>3 DEF ResumeWorker
      <4> QED BY <4>1, <4>2
    <3>2. call' \in {"resume", "await"}
      BY <2>4 DEF Advance
    <3> QED BY <1>2, <2>1, <2>2, <2>4, <3>1, <3>2
  <2> QED BY <1>2, <2>3, <2>4 DEF ResumeWorker
<1>3. CASE /\ step = "ran" /\ stage = "running" /\ call \in {"resume", "await"} /\ call' = "ready"
           /\ ~status' /\ UNCHANGED <<step, memory, stage, iv, entry, rx, tx, workers, history>>
  BY <1>3 DEF workers, history, Idle, InRound, Busy, Signalling, Parked
<1>4. CASE ReturnError /\ step = "ran" /\ call = "ready"
  BY <1>4 DEF ReturnError, Goto, poolVars, main, workers, history, Idle, InRound, Busy,
              Signalling, Parked
<1>5. CASE DeletePool /\ call = "ready" /\ step = "returned"
  BY <1>5 DEF DeletePool, Delete, Goto
<1> QED BY <1>1, <1>2, <1>3, <1>4, <1>5, IncompleteMoves

\* So do its workers: those that were resumed stay in the round.
LEMMA IncompleteWorker ==
  ASSUME EarlierInv, ~complete, stage # "new", NEW t \in Thread, EarlierWorker(t)
  PROVE  IncompleteInv' /\ stage' # "new"
<1> USE DEF EarlierInv, IncompleteInv
<1>1. Worker(t) /\ UNCHANGED <<script, complete>>
  BY DEF EarlierWorker, WorkerStep, WorkOnBlock, Worker
<1>2. UNCHANGED <<stage, call, k, iv, waitWork, status, entry, issued, asked>>
  BY <1>1, WorkerFrame
<1>3. ASSUME stage # "deleted", NEW u \in Thread
      PROVE  /\ Idle(u)' \/ (stage = "running" /\ InRound(u)')
             /\ (call = "resume" /\ ~(u < k)) => Idle(u)'
  <2>1. ~Idle(t) /\ (stage = "running" /\ InRound(t))
    BY <1>1, <1>3, WorkerBlocked DEF Idle
  <2>2. CASE u = t
    <3>1. InRound(t)'
      BY <1>1, <2>1, InRoundStep
    <3> QED BY <1>3, <2>1, <2>2, <3>1
  <2>3. CASE u # t
    <3>1. Idle(u)' = Idle(u) /\ InRound(u)' = InRound(u)
      BY <1>1, <1>2, <2>3, WorkerFrame DEF Idle, InRound, Busy, Signalling, Parked
    <3> QED BY <1>3, <2>1, <3>1
  <2> QED BY <2>2, <2>3
<1> QED BY <1>1, <1>2, <1>3 DEF script

\* Every step of an incomplete pool.
LEMMA IncompleteStep ==
  ASSUME EarlierInv, ~complete, stage # "new", [EarlierNext]_earlierVars
  PROVE  EarlierInv'
<1> USE DEF EarlierInv
<1>1. step \in {"run", "ran", "returned", "ended", "crashed"} /\ cut = {}
  BY DEF IncompleteInv, CutInv, Unreleased
<1>2. CASE EarlierMain
  <2>1. UNCHANGED <<complete, cut>>
    BY <1>1, <1>2
    DEF EarlierMain, EarlierScript, EarlierBuild, EarlierRelease, AtBlocks, EarlierLoop,
        KillWorker, IncompleteInv
  <2>2. PoolTypeOK'
    <3>1. Operation \/ MainLoop \/ UNCHANGED poolVars
            \/ (/\ UNCHANGED <<stage, iv, waitWork, entry, rx, tx, workers, history>>
                /\ Return(FALSE))
      BY <1>2, <1>1
      DEF EarlierMain, EarlierScript, EarlierBuild, EarlierRelease, AllocateMemory, RunPool,
          Calibrate, CalibrateWalk, CalibrateEnd, SetAdaptive, SetSize, AtBlocks, Walk, Restore,
          Restart, Record, ReturnError, FreeMemory, DeletePool, EarlierLoop, EarlierResume,
          EarlierAwait, KillWorker, IncompleteInv, Operation, MainLoop
    <3>2. CASE UNCHANGED <<stage, iv, waitWork, entry, rx, tx, workers, history>> /\ Return(FALSE)
      <4>0. 1 \in Thread
        BY PoolAssumption DEF Thread
      <4>1. call' \in Calls /\ status' \in BOOLEAN /\ k' \in Thread
        BY <3>2, <4>0, Zenon DEF Return, Calls
      <4> QED BY <3>2, <4>1 DEF PoolTypeOK, workers, history
    <3> QED BY <3>1, <3>2, PoolTypeKept
  <2> QED BY <1>1, <1>2, <2>1, <2>2, IncompleteMain, IncompleteSuffices
<1>3. ASSUME NEW t \in Thread, EarlierWorker(t) PROVE EarlierInv'
  <2>1. Worker(t) /\ UNCHANGED <<complete, cut>>
    BY <1>3 DEF EarlierWorker, WorkerStep, WorkOnBlock, Worker
  <2>2. PoolTypeOK'
    BY <2>1, PoolTypeKept
  <2> QED BY <1>1, <1>3, <2>1, <2>2, IncompleteWorker, IncompleteSuffices
<1>4. CASE UNCHANGED earlierVars
  <2>1. PoolTypeOK'
    BY <1>4, PoolTypeKept DEF earlierVars, benchVars
  <2>2. IncompleteInv'
    BY <1>4
    DEF earlierVars, benchVars, poolVars, main, workers, history, script, IncompleteInv, Idle,
        InRound, Busy, Signalling, Parked
  <2> QED
    BY <1>1, <1>4, <2>1, <2>2, IncompleteSuffices
    DEF earlierVars, benchVars, poolVars, main
<1>5. ASSUME NEW t \in Thread, Crash(t) PROVE EarlierInv'
  <2>1. UNCHANGED <<poolVars, memory, complete, cut>> /\ step' = "crashed"
    BY <1>5 DEF Crash
  <2>2. PoolTypeOK'
    BY <2>1, PoolTypeKept
  <2>3. IncompleteInv'
    BY <2>1
    DEF poolVars, main, workers, history, IncompleteInv, Idle, InRound, Busy, Signalling, Parked
  <2> QED BY <1>1, <2>1, <2>2, <2>3, IncompleteSuffices DEF poolVars, main
<1> QED BY <1>2, <1>3, <1>4, <1>5 DEF EarlierNext
-----------------------------------------------------------------------------
(* The release.                                                            *)

\* It begins only behind a successful round of all the threads, unless a failure was
\* ignored.
LEMMA ReleaseBegins ==
  ASSUME EarlierInv, Alike, EarlierRelease, call = "ready"
  PROVE  EarlierInv'
<1>1. PoolTypeOK'
  BY PoolTypeKept DEF EarlierInv, EarlierRelease, Operation
<1>2. stage = "running" /\ complete /\ (~ignored => status)
  BY DEF EarlierRelease, AtBlocks, Alike, EarlierInv, ScriptInv, StageInv, StatusInv, Published
<1>3. ~ignored => \A t \in Thread : wpc[t] = "wait" /\ ~tx[t]
  BY <1>2, SoundAlike, SoundReady DEF Parked, EarlierRelease, AtBlocks
<1>4. /\ call' = "join" /\ k' = 1 /\ step' = "free" /\ stage' = "running"
      /\ UNCHANGED <<complete, ignored, memory, status, wpc, tx, cut>> /\ memory # "freed"
  BY <1>2, AlikeUnreleased DEF EarlierRelease, CallRelease, Goto, workers, Unreleased
<1>5. ReleasedInv'
  BY <1>2, <1>3, <1>4, PoolAssumption DEF ReleasedInv, Unreleased, Thread
<1>6. CutInv'
  BY <1>4, AlikeUnreleased DEF EarlierInv, CutInv
<1>7. BlindInv'
  BY <1>2 DEF EarlierRelease, EarlierInv, BlindInv
<1> QED BY <1>1, <1>2, <1>4, <1>5, <1>6, <1>7 DEF EarlierInv, Alike, Unreleased, IncompleteInv

\* What only concerns the time before the release holds during it.
LEMMA ReleasedSuffices ==
  ASSUME EarlierInv, [EarlierNext]_earlierVars,
         PoolTypeOK', ReleasedInv', CutInv', complete', ~Unreleased'
  PROVE  EarlierInv'
BY BlindInvStep DEF EarlierInv, Alike, IncompleteInv

\* Terminating a thread that waits, or one that has ended, cuts no work.
LEMMA KillKeeps ==
  ASSUME EarlierInv, complete, ~Unreleased, KillWorker, [EarlierNext]_earlierVars
  PROVE  EarlierInv'
<1> USE DEF EarlierInv
<1>1. step = "free" /\ memory # "freed" /\ call = "join" /\ stage = "running" /\ k \in Thread
  BY DEF KillWorker, ReleasedInv, Unreleased, PoolTypeOK
<1>2. /\ UNCHANGED <<iv, waitWork, entry, rx, tx, local, ran, done, issued, asked, script,
                     complete>>
      /\ \/ /\ wpc' = [wpc EXCEPT ![k] = "exited"]
            /\ cut' = IF wpc[k] = "wait" THEN cut ELSE cut \cup {k}
         \/ UNCHANGED <<wpc, cut>> /\ Return(FALSE)
      /\ \/ /\ Advance("join", "ready") /\ wpc' = [wpc EXCEPT ![k] = "exited"]
            /\ stage' = IF k = N THEN "released" ELSE stage
            /\ status' = IF k = N THEN TRUE ELSE status
         \/ Return(FALSE) /\ stage' = "released"
  BY DEF KillWorker, history
<1>3. PoolTypeOK'
  <2>0. 1 \in Thread
    BY PoolAssumption DEF Thread
  <2>1. call' \in Calls /\ k' \in Thread /\ stage' \in Stages
    BY <1>1, <1>2, <2>0, AdvanceType DEF Return, Calls, Stages
  <2>2. status' \in BOOLEAN
    <3>1. CASE k = N
      BY <1>2, <3>1 DEF Return
    <3>2. CASE k # N
      BY <1>2, <3>2 DEF Return, PoolTypeOK
    <3> QED BY <3>1, <3>2
  <2>3. wpc' \in [Thread -> WorkerPCs]
    BY <1>2 DEF PoolTypeOK, WorkerPCs
  <2> QED BY <1>2, <2>1, <2>2, <2>3 DEF PoolTypeOK
<1>4. step' = "free" /\ memory' = memory /\ ignored' = ignored /\ ~Unreleased'
  BY <1>1, <1>2 DEF script, Unreleased
<1>5. \A t \in Thread : wpc'[t] = IF t = k /\ wpc' # wpc THEN "exited" ELSE wpc[t]
  BY <1>2 DEF PoolTypeOK
<1>6. ReleasedInv'
  <2>1. ~ignored => \A t \in Thread : wpc'[t] = "exited" \/ (wpc'[t] = "wait" /\ ~tx'[t])
    BY <1>2, <1>5 DEF ReleasedInv
  <2>2. CASE Return(FALSE) /\ stage' = "released"
    BY <1>1, <1>2, <1>4, <2>1, <2>2 DEF Return, ReleasedInv
  <2>3. CASE /\ Advance("join", "ready") /\ wpc' = [wpc EXCEPT ![k] = "exited"]
             /\ stage' = IF k = N THEN "released" ELSE stage
             /\ status' = IF k = N THEN TRUE ELSE status
    <3>1. ASSUME NEW t \in Thread, t < k' \/ call' = "ready" PROVE wpc'[t] = "exited"
      <4>1. t < k \/ t = k
        BY <1>1, <2>3, <3>1, AdvanceSplit
      <4>2. t < k => wpc[t] = "exited"
        BY <1>1, <1>2 DEF ReleasedInv
      <4> QED BY <1>5, <2>3, <4>1, <4>2 DEF PoolTypeOK
    <3>2. (call' = "join" /\ k < N) \/ (call' = "ready" /\ k = N)
      <4>1. k \in Nat /\ N \in Nat /\ ~(N < k)
        BY <1>1, PoolAssumption DEF Thread
      <4>2. k < N \/ k = N
        BY <4>1
      <4> QED BY <2>3, <4>2 DEF Advance
    <3>3. CASE call' = "join" /\ k < N
      <4>1. stage' = "running" /\ status' = status
        BY <1>1, <2>3, <3>3, PoolAssumption DEF Thread
      <4>2. ASSUME ~ignored, NEW t \in Thread, ~(t < k') PROVE wpc'[t] = "wait"
        <5>1. t # k /\ ~(t < k)
          BY <1>1, <2>3, <3>3, <4>2, AdvanceSplit
        <5>2. wpc[t] = "wait"
          BY <1>1, <4>2, <5>1 DEF ReleasedInv
        <5> QED BY <1>5, <5>1, <5>2
      <4> QED BY <1>1, <1>2, <1>4, <2>1, <3>1, <3>3, <4>1, <4>2 DEF ReleasedInv
    <3>4. CASE call' = "ready" /\ k = N
      BY <1>1, <1>2, <1>4, <2>1, <2>3, <3>1, <3>4 DEF ReleasedInv
    <3> QED BY <3>2, <3>3, <3>4
  <2> QED BY <1>2, <2>2, <2>3
<1>7. CutInv'
  <2>1. ASSUME ~ignored PROVE cut' = {}
    <3>1. ~(k < k)
      BY <1>1 DEF Thread
    <3>2. cut = {} /\ wpc[k] = "wait"
      BY <1>1, <2>1, <3>1 DEF CutInv, ReleasedInv
    <3> QED BY <1>2, <3>2
  <2> QED BY <1>4, <2>1 DEF CutInv
<1> QED BY <1>2, <1>3, <1>4, <1>6, <1>7, ReleasedSuffices

\* Nothing else that happens then moves a thread that is gone or blocked for good.
LEMMA ReleasedStep ==
  ASSUME EarlierInv, complete, ~Unreleased, [EarlierNext]_earlierVars
  PROVE  EarlierInv'
<1> USE DEF EarlierInv
<1>1. step \in {"free", "returned", "ended"} /\ call \in {"join", "ready"}
  BY DEF ReleasedInv, Unreleased
<1>2. CASE KillWorker
  BY <1>2, KillKeeps
<1>3. CASE EarlierLoop
  BY <1>1, <1>3
  DEF EarlierLoop, UpdateEntry, EarlierResume, ResumeWorker, ResetRx, SetTx, EarlierAwait
<1>4. CASE EarlierScript
  <2>1. call = "ready" /\ (FreeMemory \/ DeletePool) /\ UNCHANGED <<complete, cut>>
    BY <1>1, <1>4
    DEF EarlierScript, EarlierBuild, EarlierRelease, AllocateMemory, RunPool, Calibrate,
        CalibrateWalk, CalibrateEnd, SetAdaptive, SetSize, AtBlocks, Walk, Restore, Restart, Record,
        ReturnError
  <2>2. PoolTypeOK'
    BY <2>1, PoolTypeKept DEF FreeMemory, DeletePool, Operation
  <2>3. UNCHANGED <<ignored, call, status, wpc, tx>> /\ step' # "free" /\ memory' = "freed"
    BY <1>4, <2>1
    DEF FreeMemory, DeletePool, Delete, Goto, poolVars, main, workers, ReleasedInv, Unreleased
  <2>4. ReleasedInv'
    BY <1>4, <2>1, <2>3
    DEF FreeMemory, DeletePool, Delete, Goto, poolVars, main, ReleasedInv, Unreleased
  <2>5. CutInv'
    BY <2>1, <2>3 DEF CutInv, Unreleased
  <2> QED BY <2>1, <2>2, <2>3, <2>4, <2>5, ReleasedSuffices DEF Unreleased
<1>5. ASSUME NEW t \in Thread, EarlierWorker(t) PROVE EarlierInv'
  <2>1. Worker(t) /\ UNCHANGED <<script, complete, cut>>
    BY <1>5 DEF EarlierWorker, WorkerStep, WorkOnBlock, Worker
  <2>2. PoolTypeOK'
    BY <2>1, PoolTypeKept
  <2>3. UNCHANGED <<stage, call, k, status>>
    BY <2>1, WorkerFrame
  <2>4. ignored /\ wpc[t] # "exited"
    BY <2>1, WorkerBlocked DEF ReleasedInv
  <2>5. \A u \in Thread : wpc[u] = "exited" => wpc'[u] = "exited"
    BY <2>1, <2>4, WorkerFrame
  <2>6. ReleasedInv' /\ CutInv'
    BY <2>1, <2>3, <2>4, <2>5 DEF script, ReleasedInv, CutInv, Unreleased
  <2> QED BY <2>1, <2>2, <2>6, ReleasedSuffices DEF script, Unreleased
<1>6. CASE UNCHANGED earlierVars
  <2>1. UNCHANGED <<complete, cut, script, stage, call, k, status, wpc, tx>>
    BY <1>6 DEF earlierVars, benchVars, poolVars, main, workers
  <2>2. PoolTypeOK'
    BY <1>6, PoolTypeKept DEF earlierVars, benchVars
  <2>3. ReleasedInv' /\ CutInv'
    BY <2>1 DEF script, ReleasedInv, CutInv, Unreleased
  <2> QED BY <2>1, <2>2, <2>3, ReleasedSuffices DEF script, Unreleased
<1> QED BY <1>2, <1>3, <1>4, <1>5, <1>6, NobodyIsBlind DEF EarlierNext, EarlierMain

-----------------------------------------------------------------------------
\* A session that has not come to its release goes on alike, begins it, or has built an
\* incomplete pool.
LEMMA AlikeStep ==
  ASSUME EarlierInv, Alike, [EarlierNext]_earlierVars
  PROVE  EarlierInv'
<1>1. CASE /\ ~(EarlierBuild /\ call = "ready" /\ ~status')
           /\ [BenchNext]_benchVars /\ Unreleased' /\ cut' = cut
           /\ complete' = complete \/ (complete' /\ stage' = "built")
  <2>1. PoolTypeOK' /\ ScriptInv' /\ (Sound => RefinementInv)'
    BY <1>1, AlikeKeeps
  <2>2. CutInv' /\ ReleasedInv'
    BY <1>1, AlikeUnreleased DEF EarlierInv, CutInv, ReleasedInv
  <2>3. IncompleteInv'
    <3> SUFFICES ASSUME ~complete', stage' # "new" PROVE IncompleteInv'
      BY DEF IncompleteInv
    <3>1. ~complete /\ stage = "new"
      BY <1>1 DEF Alike
    <3>2. DeletePool /\ call = "ready"
      <4>1. EarlierBuild => ~status' /\ call = "ready"
        BY <3>1 DEF EarlierBuild, EarlierInv, Alike, ScriptInv, CallInv
      <4> QED BY <1>1, <3>1, <4>1, NewMoves
    <3>3. step' = "ended" /\ stage' = "deleted" /\ call' = "ready"
      BY <3>2 DEF DeletePool, Delete, Goto
    <3> QED BY <1>1, <3>3 DEF IncompleteInv, Unreleased
  <2> QED BY <2>1, <2>2, <2>3, BlindInvStep DEF EarlierInv
<1>2. CASE EarlierBuild /\ call = "ready" /\ ~status'
  BY <1>2, FailingBuild
<1>3. CASE EarlierRelease /\ call = "ready"
  BY <1>3, ReleaseBegins
<1> QED BY <1>1, <1>2, <1>3, AlikeMoves

\* The invariant holds before the pool is built.
LEMMA EarlierInvInit == EarlierInit => EarlierInv
<1> SUFFICES ASSUME EarlierInit PROVE EarlierInv
  OBVIOUS
<1>1. PoolTypeOK /\ RefinementInv /\ ScriptInv
  BY PoolTypeInit, RefinementInvInit, ScriptInvInit DEF EarlierInit, BenchInit
<1>2. stage = "new" /\ Unreleased /\ cut = {}
  BY DEF EarlierInit, BenchInit, PoolInit, Unreleased
<1>3. BlindInv
  BY DEF EarlierInit, BlindInv
<1> QED BY <1>1, <1>2, <1>3 DEF EarlierInv, IncompleteInv, ReleasedInv, CutInv

\* Every step preserves it.
LEMMA EarlierInvStep == EarlierInv /\ [EarlierNext]_earlierVars => EarlierInv'
<1> SUFFICES ASSUME EarlierInv, [EarlierNext]_earlierVars PROVE EarlierInv'
  OBVIOUS
<1>1. CASE Alike
  BY <1>1, AlikeStep
<1>2. CASE ~complete /\ stage # "new"
  BY <1>2, IncompleteStep
<1>3. CASE complete /\ ~Unreleased
  BY <1>3, ReleasedStep
<1> QED BY <1>1, <1>2, <1>3 DEF Alike

\* For any settings, threads and failing calls, a session of the earlier program is one of
\* three: like that of BenchmarkMemory, with an incomplete pool in its only round, or
\* releasing threads that wait.
THEOREM EarlierInvariance == EarlierSpec => []EarlierInv
BY EarlierInvInit, EarlierInvStep, PTL DEF EarlierSpec

\* TerminateThread hits no thread in its work, unless a failed round of the calibration
\* was ignored: the release is reached only when every thread waits.
THEOREM NoWorkIsCut == EarlierSpec => []CutsNoWork
<1>1. EarlierInv => CutsNoWork
  BY DEF EarlierInv, CutInv, CutsNoWork
<1> QED BY <1>1, EarlierInvariance, PTL

\* Whoever is left behind by a release that failed half way is blocked for good when the
\* blocks and the list of entries are freed.
THEOREM FreedIsUnused == EarlierSpec => []NothingRunsInFreed
<1>1. EarlierInv => NothingRunsInFreed
  <2> SUFFICES ASSUME EarlierInv, memory = "freed" PROVE NothingRunsInFreed
    BY DEF NothingRunsInFreed
  <2>1. complete /\ ~Unreleased
    BY AlikeUnreleased DEF EarlierInv, IncompleteInv, Alike, Unreleased
  <2> QED BY <2>1 DEF EarlierInv, ReleasedInv, NothingRunsInFreed
<1> QED BY <1>1, EarlierInvariance, PTL

-----------------------------------------------------------------------------
(* The rounds of the earlier program keep the contract.                    *)

\* Once a failure was ignored, it stays ignored.
LEMMA IgnoredStays ==
  ASSUME EarlierInv, Alike, [BenchNext]_benchVars, ~ignored'
  PROVE  ~ignored
<1> USE DEF EarlierInv
<1>1. CASE Script
  BY <1>1
  DEF Script, AllocateMemory, BuildPool, RunPool, Calibrate, CalibrateWalk, CalibrateEnd,
      SetAdaptive, SetSize, Walk, Restore, Restart, Record, ReturnError, Terminate, Stop,
      FreeMemory, DeletePool, Goto, ScriptInv, StatusInv, Before
<1>2. CASE UNCHANGED ignored
  BY <1>2
<1> QED BY <1>1, <1>2, OtherSteps DEF script

\* A step of the session that is alike does: it is one of a client of the pool, unless the
\* contract has ended.
LEMMA AlikeRefines ==
  ASSUME EarlierInv, EarlierInv', Alike, [EarlierNext]_earlierVars,
         ~ignored', RoundPhase \notin {"failed", "over"}
  PROVE  Contract!RoundsNext \/ UNCHANGED Contract!roundVars
<1> USE DEF EarlierInv, PhaseOfStage
<1>p. PhaseOfStage /\ PhaseOfStage'
  BY PhasesOfStep
<1>1. CASE [BenchNext]_benchVars
  <2>1. ~ignored
    BY <1>1, IgnoredStays
  <2>2. stage # "deleted" /\ (stage = "running" => InRoundCall \/ status)
    BY <1>p
  <2>3. ~(step = "walked" /\ ~status)
    BY <2>1, <2>2 DEF ScriptInv, StageInv, StatusInv, Rounds, InRoundCall
  <2>4. Sound
    BY <2>1, <2>2 DEF Sound, ScriptInv, CallInv, InRoundCall, Published
  <2>5. [PoolNext]_poolVars
    BY <1>1, <2>3, StepsAreLegal
  <2> QED BY <2>4, <2>5, StepRefines
<1>2. CASE EarlierBuild /\ call = "ready" /\ ~status'
  BY <1>2, <1>p DEF EarlierBuild, Build, Contract!roundVars, history
<1>3. CASE EarlierRelease /\ call = "ready"
  <2>1. stage = "running"
    BY <1>3 DEF EarlierRelease, AtBlocks, ScriptInv, StageInv, Published
  <2>2. RoundPhase' = RoundPhase
    BY <1>3, <1>p, <2>1 DEF EarlierRelease, CallRelease, InRoundCall
  <2> QED BY <1>3, <2>2 DEF EarlierRelease, CallRelease, Contract!roundVars, history, workers
<1> QED BY <1>1, <1>2, <1>3, AlikeMoves

\* So does a step of an incomplete pool: the round it begins is given up, and what its
\* threads execute until then is the job of the round.
LEMMA IncompleteRefines ==
  ASSUME EarlierInv, EarlierInv', ~complete, stage # "new", [EarlierNext]_earlierVars,
         RoundPhase \notin {"failed", "over"}
  PROVE  Contract!RoundsNext \/ UNCHANGED Contract!roundVars
<1> USE DEF EarlierInv, IncompleteInv, PhaseOfStage, history, workers
<1>p. PhaseOfStage /\ PhaseOfStage'
  BY PhasesOfStep
<1>1. CASE RunPool /\ step = "run"
  <2>1. RoundPhase = "idle" /\ RoundPhase' = "round"
    BY <1>1, <1>p DEF RunPool, CallRun, InRoundCall
  <2>2. issued' = 1 /\ asked' = iv.job /\ UNCHANGED <<ran, done>>
    BY <1>1 DEF RunPool, CallRun
  <2>3. Pending' = Thread
    <3>1. \A t \in Thread : ran[t] = 0
      BY <1>1 DEF Idle
    <3> QED BY <2>2, <3>1 DEF Pending
  <2>4. PICK j \in Jobs : j = iv.job
    BY DEF PoolTypeOK, Params
  <2>5. Contract!Begin(j)
    BY <2>1, <2>2, <2>3, <2>4 DEF Contract!Begin, Pending
  <2> QED BY <2>5 DEF Contract!RoundsNext
<1>2. ASSUME UNCHANGED <<asked, issued, ran, done>>, stage' = "running", stage = "running",
             call \in {"resume", "await"}, call' \in {"resume", "await"} \/ ~status'
      PROVE  Contract!RoundsNext \/ UNCHANGED Contract!roundVars
  <2>1. RoundPhase = "round" /\ RoundPhase' \in {"round", "failed"}
    BY <1>2, <1>p DEF InRoundCall
  <2> QED BY <1>2, <2>1 DEF Contract!roundVars, Contract!RoundsNext, Contract!GiveUp
<1>3. CASE ResumeWorker /\ step = "ran" /\ wpc[k] # "absent" /\ UNCHANGED <<step, memory>>
  <2>1. stage = "running" /\ stage' = "running" /\ UNCHANGED <<asked, issued, ran, done>>
    BY <1>3 DEF ResumeWorker
  <2>2. call' \in {"resume", "await"} \/ ~status'
    BY <1>3 DEF ResumeWorker, Return, Advance
  <2> QED BY <1>2, <1>3, <2>1, <2>2 DEF ResumeWorker
<1>4. CASE /\ step = "ran" /\ stage = "running" /\ call \in {"resume", "await"} /\ call' = "ready"
           /\ ~status' /\ UNCHANGED <<step, memory, stage, iv, entry, rx, tx, workers, history>>
  BY <1>2, <1>4
<1>5. ~(ReturnError /\ step = "ran" /\ call = "ready") /\ ~(DeletePool /\ step = "returned")
  BY <1>p DEF InRoundCall
<1>6. ASSUME NEW t \in Thread, EarlierWorker(t)
      PROVE  Contract!RoundsNext \/ UNCHANGED Contract!roundVars
  <2>1. Worker(t)
    BY <1>6 DEF EarlierWorker, WorkerStep, WorkOnBlock, Worker
  <2>2. UNCHANGED <<stage, call, status, issued, asked>>
    BY <2>1, WorkerFrame
  <2>3. UNCHANGED RoundPhase
    BY <2>2 DEF RoundPhase, InRoundCall
  <2>4. CASE Work(t)
    <3>1. wpc[t] = "work" /\ stage # "deleted"
      BY <1>p, <2>4 DEF Work, Move
    <3>2. ran[t] + 1 = issued /\ local[t] = asked
      BY <3>1 DEF Idle, InRound, Busy, Signalling, Parked
    <3>3. t \in Pending /\ Pending' = Pending \ {t}
      BY <2>2, <2>4, <3>2 DEF Work, Pending, PoolTypeOK
    <3>4. done' = [done EXCEPT ![t] = asked]
      BY <2>4, <3>2 DEF Work
    <3>5. Contract!Execute(t)
      BY <2>2, <2>3, <3>3, <3>4 DEF Pending, Contract!Execute
    <3> QED BY <3>5 DEF Contract!RoundsNext
  <2>5. CASE UNCHANGED <<ran, done>>
    BY <2>2, <2>3, <2>5 DEF Contract!roundVars
  <2> QED
    BY <2>1, <2>4, <2>5 DEF Worker, Test, ReadEntry, ReadFreed, SignalRx, WaitTx, ResetTx
<1>7. CASE UNCHANGED earlierVars
  BY <1>7
  DEF earlierVars, benchVars, poolVars, main, Contract!roundVars, RoundPhase, InRoundCall
<1>8. ASSUME NEW t \in Thread, Crash(t) PROVE UNCHANGED Contract!roundVars
  BY <1>8
  DEF Crash, poolVars, main, workers, Contract!roundVars, RoundPhase, InRoundCall
<1> QED BY <1>1, <1>3, <1>4, <1>5, <1>6, <1>7, <1>8, IncompleteMoves DEF EarlierNext

\* And the release, which retires the pool.
LEMMA ReleasedRefines ==
  ASSUME EarlierInv, EarlierInv', complete, ~Unreleased, [EarlierNext]_earlierVars,
         ~ignored', RoundPhase \notin {"failed", "over"}
  PROVE  Contract!RoundsNext \/ UNCHANGED Contract!roundVars
<1> USE DEF EarlierInv, PhaseOfStage
<1>p. PhaseOfStage /\ PhaseOfStage'
  BY PhasesOfStep
<1>1. step = "free" /\ call = "join" /\ stage = "running" /\ RoundPhase = "idle"
  BY <1>p DEF ReleasedInv, Unreleased, InRoundCall
<1>2. CASE KillWorker
  <2>1. UNCHANGED <<asked, issued, ran, done>>
    BY <1>2 DEF KillWorker, history
  <2>2. RoundPhase' \in {"idle", "over"}
    <3>1. stage' = "released" \/ (stage' = "running" /\ k # N)
      BY <1>1, <1>2 DEF KillWorker
    <3>2. CASE stage' = "released"
      BY <1>p, <3>2
    <3>3. CASE stage' = "running" /\ k # N
      <4>1. Advance("join", "ready") /\ status' = status
        BY <1>2, <3>3 DEF KillWorker
      <4>2. call' = "join" \/ call' = "ready"
        BY <4>1 DEF Advance
      <4> QED BY <1>1, <1>p, <3>3, <4>1, <4>2 DEF InRoundCall
    <3> QED BY <3>1, <3>2, <3>3
  <2> QED BY <1>1, <2>1, <2>2 DEF Contract!roundVars, Contract!RoundsNext, Contract!Retire
<1>3. CASE EarlierScript \/ EarlierLoop
  BY <1>1, <1>3
  DEF EarlierScript, EarlierLoop, UpdateEntry, EarlierResume, ResumeWorker, ResetRx, SetTx,
      EarlierAwait
<1>4. ASSUME NEW t \in Thread, EarlierWorker(t) PROVE FALSE
  <2>1. Worker(t) /\ UNCHANGED script
    BY <1>4 DEF EarlierWorker, WorkerStep, WorkOnBlock, Worker
  <2> QED BY <2>1, WorkerBlocked DEF script, ReleasedInv
<1>5. CASE UNCHANGED earlierVars
  BY <1>5
  DEF earlierVars, benchVars, poolVars, main, workers, history, Contract!roundVars, RoundPhase,
      InRoundCall
<1> QED BY <1>2, <1>3, <1>4, <1>5, NobodyIsBlind DEF EarlierNext, EarlierMain

\* Every round of the earlier program keeps the contract of MeasurementRounds up to its
\* success or failure, with a complete pool and with an incomplete one.
THEOREM EarlierImplementsRounds == EarlierSpec => EarlierRounds
<1>1. EarlierInit => Contract!RoundsInit
  BY PoolStartsIdle DEF EarlierInit, BenchInit
<1>2. EarlierInv /\ EarlierInv' /\ [EarlierNext]_earlierVars
        => [ignored' \/ RoundPhase \in {"failed", "over"} \/ Contract!RoundsNext]_Contract!roundVars
  BY AlikeRefines, IncompleteRefines, ReleasedRefines DEF Alike
<1> QED BY <1>1, <1>2, EarlierInvariance, PTL DEF EarlierSpec, EarlierRounds
=============================================================================
