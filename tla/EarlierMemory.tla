--------------------------- MODULE EarlierMemory ---------------------------
(***************************************************************************)
(* The console benchmark the shell runs (mpe/cpp): MemoryScenario::execute *)
(* with the earlier ThreadsBuilder. Rounds, calibration and rows are those *)
(* of BenchmarkMemory. It differs where threads begin and end:             *)
(*  - a failing buildThreadsList is reported, and its threads are run; one *)
(*    of them may find its entry half filled in, and crash the program;    *)
(*  - threadEntry has no flag to end it. releaseThreadsList calls          *)
(*    TerminateThread, wherever a thread is, and stops at an error.        *)
(* MeasurementRounds is the contract of its rounds too.                    *)
(***************************************************************************)
EXTENDS BenchmarkMemory

VARIABLES
  complete,  \* history: buildThreadsList has succeeded
  blind,     \* the thread whose events could not be created, 0 if there is none
  cut        \* history: threads that were terminated outside their wait

earlierVars == <<benchVars, complete, blind, cut>>

EarlierInit == BenchInit /\ complete = FALSE /\ blind = 0 /\ cut = {}

-----------------------------------------------------------------------------
(* MemoryScenario::execute.                                                *)

\* A failure leaves the threads before it, or also one without an event, and the
\* scenario goes on to runThreads.
EarlierBuild ==
  /\ step = "build"
  /\ Build /\ complete' = status'
  /\ \/ blind' = 0
     \/ ~status' /\ blind' \in {t \in Thread : wpc'[t] = "suspended" /\ (t = N \/ wpc'[t + 1] = "absent")}
  /\ Goto("run")
  /\ UNCHANGED <<want, repeats1, block, size, rows, memory, cut>>

\* After the last row: the threads are released, and the memory is freed whatever
\* releaseThreadsList returns.
EarlierRelease ==
  /\ AtBlocks /\ ~MoreBlocks
  /\ CallRelease
  /\ Goto("free")
  /\ UNCHANGED <<want, repeats1, block, size, rows, memory, complete, blind, cut>>

EarlierScript ==
  /\ call = "ready"
  /\ \/ EarlierBuild \/ EarlierRelease
     \/ /\ \/ AllocateMemory \/ RunPool
           \/ Calibrate \/ CalibrateWalk \/ CalibrateEnd
           \/ SetAdaptive \/ SetSize \/ Walk \/ Restore \/ Restart \/ Record
           \/ ReturnError \/ FreeMemory \/ DeletePool
        /\ UNCHANGED <<complete, blind, cut>>

-----------------------------------------------------------------------------
(* The earlier ThreadsBuilder.                                             *)

\* An entry without a thread has the handle NULL, which cannot be resumed.
EarlierResume ==
  /\ call = "resume"
  /\ \/ wpc[k] # "absent" /\ ResumeWorker
     \/ /\ wpc[k] = "absent" /\ Return(FALSE)
        /\ UNCHANGED <<stage, iv, waitWork, entry, rx, tx, workers, history>>

\* The list of signals of an incomplete pool has a NULL in it.
EarlierAwait ==
  /\ call = "await"
  /\ \/ complete /\ Await
     \/ /\ ~complete /\ Return(FALSE)
        /\ UNCHANGED <<stage, iv, waitWork, entry, rx, tx, workers, history>>

EarlierLoop ==
  /\ UpdateEntry \/ EarlierResume \/ ResetRx \/ SetTx \/ EarlierAwait
  /\ UNCHANGED <<script, chain, complete, blind, cut>>

\* Mutant: the handles are closed and the thread is left.
KillWorkerSpared ==
  /\ call = "join"
  /\ Advance("join", "ready")
  /\ stage' = IF k = N THEN "released" ELSE stage
  /\ status' = IF k = N THEN TRUE ELSE status
  /\ UNCHANGED <<iv, waitWork, entry, rx, tx, workers, history, script, chain, complete, blind, cut>>

\* One entry of releaseThreadsList: the thread is terminated and its handles closed.
\* Any of the four calls may fail, the first one before the thread is gone.
KillWorker ==
  /\ call = "join"
  /\ \/ /\ wpc' = [wpc EXCEPT ![k] = "exited"]
        /\ cut' = IF wpc[k] = "wait" THEN cut ELSE cut \cup {k}
        /\ \/ /\ Advance("join", "ready")
              /\ stage' = IF k = N THEN "released" ELSE stage
              /\ status' = IF k = N THEN TRUE ELSE status
           \/ "close" \in Failures /\ Return(FALSE) /\ stage' = "released"
     \/ "close" \in Failures /\ Return(FALSE) /\ stage' = "released" /\ UNCHANGED <<wpc, cut>>
  /\ UNCHANGED <<iv, waitWork, entry, rx, tx, local, ran, done, history, script, chain, complete, blind>>

\* The entry of the blind thread has no functions yet: pRoutines is NULL.
BlindCall(t) == t = blind /\ wpc[t] = "work"

EarlierWorker(t) ==
  /\ step # "crashed" /\ ~BlindCall(t)
  /\ WorkerStep(t)
  /\ UNCHANGED <<complete, blind, cut>>

\* DLL_PerformanceGate through that pointer ends the process.
Crash(t) ==
  /\ step # "crashed" /\ BlindCall(t)
  /\ step' = "crashed"
  /\ UNCHANGED <<poolVars, ic, want, repeats1, block, size, rows, memory, ignored, chain,
                 complete, blind, cut>>

EarlierMain == step # "crashed" /\ (EarlierScript \/ EarlierLoop \/ KillWorker)

EarlierNext ==
  \/ EarlierMain
  \/ \E t \in Thread : EarlierWorker(t) \/ Crash(t)
  \/ step \in {"ended", "crashed"} /\ UNCHANGED earlierVars

\* Only the wait of a round lets the main thread wait: that for an incomplete pool fails
\* at once, and TerminateThread waits for nobody.
EarlierHeldUp == call = "await" /\ complete /\ HeldUp

EarlierSpec ==
  /\ EarlierInit /\ [][EarlierNext]_earlierVars
  /\ WF_earlierVars(EarlierMain /\ ~EarlierHeldUp)
  /\ \A t \in Thread : WF_earlierVars(EarlierWorker(t) \/ Crash(t))

-----------------------------------------------------------------------------
\* TerminateThread never hits a thread in the middle of its work: whatever fails, the
\* release is reached only when all of them wait. After a failed round of the
\* calibration has been ignored it may.
CutsNoWork == ~ignored => cut = {}

\* Nobody uses the blocks once they are freed, nor the list once it is deleted, also
\* when the release has failed half way: a thread it left is blocked for good.
NothingRunsInFreed ==
  (memory = "freed" /\ (status \/ ~ignored)) =>
    \A t \in Thread : wpc[t] = "exited" \/ (wpc[t] = "wait" /\ ~tx[t])

\* Every round of the earlier engine keeps the contract of rounds up to its success or
\* its failure, although threads are run when others could not be created. Restore
\* writes into the entries after a failed WALK, so the contract ends there, and
\* nothing is claimed once a failure of the calibration has been ignored.
EarlierRounds ==
  /\ Contract!RoundsInit
  /\ [][ignored' \/ RoundPhase \in {"failed", "over"} \/ Contract!RoundsNext]_(Contract!roundVars)

\* Without the help of a timeout, a session of the earlier program in which no call fails
\* ends with all its rows printed, every thread gone and the memory given back; and a
\* pool that could not be built ends the program, by its error return or by a crash of
\* the thread without events. With the timeouts every session that does not crash ends.
EarlierEnds ==
  /\ \/ <>(Troubled \/ step = "crashed")
     \/ <>(/\ step = "ended" /\ memory = "freed"
           /\ Len(rows) = BlockMax(ic) + 1
           /\ \A t \in Thread : wpc[t] = "exited")
  /\ (stage = "built" /\ ~complete) ~> (step \in {"ended", "crashed"})
  /\ WF_earlierVars(EarlierMain) => <>(step \in {"ended", "crashed"})
=============================================================================
