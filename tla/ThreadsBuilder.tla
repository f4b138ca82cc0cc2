--------------------------- MODULE ThreadsBuilder ---------------------------
(***************************************************************************)
(* The worker pool of the console benchmark                                *)
(* (memory_performance_framework/cpp/ThreadsBuilder.cpp): one main thread  *)
(* that issues measurement rounds, N worker threads in threadEntry, and    *)
(* two manual-reset events per worker: rx ("this worker has finished") and *)
(* tx ("this worker may continue").                                        *)
(*                                                                         *)
(* The main thread's loops over the list of entries are modelled one entry *)
(* per step, because workers released early run while the loop goes on.    *)
(***************************************************************************)
EXTENDS Naturals

CONSTANTS
  N,               \* number of worker threads (opThreads)
  Jobs,            \* what an entry can ask for: method, size and repeats
  MaxWaitObjects,  \* limit of WaitForMultipleObjects (64 on Windows)
  Failures,        \* the calls of the operating system that may fail
  MaxRounds        \* bound on the rounds a client of the pool asks for

FailureKinds == {"allocate", "create", "resume", "reset", "set", "wait", "timeout", "close"}

ASSUME PoolAssumption ==
  /\ N \in Nat \ {0}
  /\ Jobs # {}
  /\ MaxWaitObjects \in Nat
  /\ Failures \subseteq FailureKinds
  /\ MaxRounds \in Nat

Thread == 1..N
Params == [job : Jobs, terminate : BOOLEAN]

VARIABLES
  stage,      \* life of the pool: which of its operations have been called
  call,       \* the operation the main thread is inside, "ready" outside
  k,          \* loop index of that operation
  iv,         \* INPUT_VARIABLES handed to the last update
  waitWork,   \* the parameter of restartThreads
  status,     \* what the last build, run, restart or release returned
  entry,      \* THREAD_CONTROL_ENTRY: the parameters the workers read
  rx,         \* rxEventHandle signalled
  tx,         \* txEventHandle signalled
  wpc,        \* where each worker is in threadEntry
  local,      \* the parameters a worker has copied to its stack
  issued,     \* history: rounds the main thread has asked for
  asked,      \* history: the job of the last of them
  ran,        \* history: rounds each worker has executed
  done        \* history: the job each worker executed last

main     == <<stage, call, k, iv, waitWork, status>>
workers  == <<wpc, local, ran, done>>
history  == <<issued, asked>>
poolVars == <<main, entry, rx, tx, workers, history>>

Stages == {"new", "built", "running", "stopped", "released", "deleted"}
Calls  == {"ready", "resume", "update", "reset", "set", "await", "join"}
WorkerPCs == {"absent", "suspended", "test", "read", "work", "signal", "wait",
              "reset", "exited", "wild"}

PoolInit ==
  /\ stage = "new" /\ call = "ready" /\ k = 1
  /\ iv \in [job : Jobs, terminate : {FALSE}]
  /\ waitWork = TRUE /\ status = FALSE
  /\ entry = [t \in Thread |-> iv]
  /\ rx = [t \in Thread |-> FALSE]
  /\ tx = [t \in Thread |-> FALSE]
  /\ wpc = [t \in Thread |-> "absent"]
  /\ local = [t \in Thread |-> iv.job]
  /\ issued = 0 /\ asked = iv.job
  /\ ran = [t \in Thread |-> 0]
  /\ done = [t \in Thread |-> iv.job]

-----------------------------------------------------------------------------
(* The operations of the class, up to the first shared step of each.       *)

\* buildThreadsList for one domain. Threads are created suspended, so nothing
\* observes the loop: it is one step. A failed creation (of a thread or of an event)
\* leaves the threads created so far suspended and returns FALSE.
Build ==
  /\ stage = "new"
  /\ \/ /\ wpc' = [t \in Thread |-> "suspended"]
        /\ status' = TRUE
     \/ \E c \in 0..N :
          /\ "create" \in Failures
          /\ wpc' = [t \in Thread |-> IF t <= c THEN "suspended" ELSE "absent"]
          /\ status' = FALSE
  /\ stage' = "built"
  /\ UNCHANGED <<call, k, iv, waitWork, entry, rx, tx, local, ran, done, history>>

\* runThreads: the first round.
CallRun ==
  /\ stage' = "running" /\ call' = "resume" /\ k' = 1
  /\ issued' = issued + 1 /\ asked' = iv.job
  /\ UNCHANGED <<iv, waitWork, status, entry, rx, tx, workers>>

\* updateThreadsList(v): copies v into every entry.
CallUpdate(v) ==
  /\ call' = "update" /\ k' = 1 /\ iv' = v
  /\ UNCHANGED <<stage, waitWork, status, entry, rx, tx, workers, history>>

\* restartThreads(wait): a new round, or with wait = FALSE the last wake-up.
CallRestart(wait) ==
  /\ call' = "reset" /\ k' = 1 /\ waitWork' = wait
  /\ \/ wait /\ issued' = issued + 1 /\ asked' = iv.job /\ stage' = stage
     \/ ~wait /\ UNCHANGED history /\ stage' = "stopped"
  /\ UNCHANGED <<iv, status, entry, rx, tx, workers>>

\* releaseThreadsList: waits for the end of every worker in turn.
CallRelease ==
  /\ call' = "join" /\ k' = 1
  /\ UNCHANGED <<stage, iv, waitWork, status, entry, rx, tx, workers, history>>

\* ~ThreadsBuilder: the list of entries is freed, whatever the workers do.
Delete ==
  /\ stage # "deleted" /\ call = "ready"
  /\ stage' = "deleted"
  /\ UNCHANGED <<call, k, iv, waitWork, status, entry, rx, tx, workers, history>>

-----------------------------------------------------------------------------
(* The loops of those operations, one entry per step.                      *)

Return(s) == call' = "ready" /\ k' = 1 /\ status' = s

\* Next iteration of the loop of c, or what follows it.
Advance(c, after) ==
  IF k < N THEN call' = c /\ k' = k + 1 ELSE call' = after /\ k' = 1

UpdateEntry ==
  /\ call = "update"
  /\ entry' = [entry EXCEPT ![k] = iv]
  /\ Advance("update", "ready")
  /\ UNCHANGED <<stage, iv, waitWork, status, rx, tx, workers, history>>

ResumeWorker ==
  /\ call = "resume"
  /\ \/ /\ wpc' = [wpc EXCEPT ![k] = "test"]
        /\ Advance("resume", "await")
        /\ UNCHANGED status
     \/ /\ "resume" \in Failures
        /\ Return(FALSE)
        /\ UNCHANGED wpc
  /\ UNCHANGED <<stage, iv, waitWork, entry, rx, tx, local, ran, done, history>>

\* Mutant: the signals of the last round are not cleared.
ResetRxForgotten ==
  /\ call = "reset"
  /\ Advance("reset", "set")
  /\ UNCHANGED <<stage, iv, waitWork, status, entry, rx, tx, workers, history>>

ResetRx ==
  /\ call = "reset"
  /\ \/ /\ rx' = [rx EXCEPT ![k] = FALSE]
        /\ Advance("reset", "set")
        /\ UNCHANGED status
     \/ /\ "reset" \in Failures
        /\ Return(FALSE)
        /\ UNCHANGED rx
  /\ UNCHANGED <<stage, iv, waitWork, entry, tx, workers, history>>

\* Mutant: the last entry gets no permission to continue.
SetTxShort ==
  /\ call = "set"
  /\ tx' = [tx EXCEPT ![k] = k < N]
  /\ Advance("set", IF waitWork THEN "await" ELSE "ready")
  /\ status' = IF k = N /\ ~waitWork THEN TRUE ELSE status
  /\ UNCHANGED <<stage, iv, waitWork, entry, rx, workers, history>>

\* Mutant: restartThreads returns without waiting, whatever waitWork says.
SetTxNoWait ==
  /\ call = "set"
  /\ tx' = [tx EXCEPT ![k] = TRUE]
  /\ Advance("set", "ready")
  /\ status' = TRUE
  /\ UNCHANGED <<stage, iv, waitWork, entry, rx, workers, history>>

SetTx ==
  /\ call = "set"
  /\ \/ /\ tx' = [tx EXCEPT ![k] = TRUE]
        /\ Advance("set", IF waitWork THEN "await" ELSE "ready")
        /\ status' = IF k = N /\ ~waitWork THEN TRUE ELSE status
     \/ /\ "set" \in Failures
        /\ Return(FALSE)
        /\ UNCHANGED tx
  /\ UNCHANGED <<stage, iv, waitWork, entry, rx, workers, history>>

\* Mutant: bWaitAll = FALSE.
AwaitAny ==
  /\ call = "await"
  /\ \E t \in Thread : rx[t]
  /\ Return(TRUE)
  /\ UNCHANGED <<stage, iv, waitWork, entry, rx, tx, workers, history>>

\* WaitForMultipleObjects over all the rx events, with THREAD_TIMEOUT. A count
\* above MAXIMUM_WAIT_OBJECTS makes the call fail.
Await ==
  /\ call = "await"
  /\ \/ /\ N <= MaxWaitObjects
        /\ \A t \in Thread : rx[t]
        /\ Return(TRUE)
     \/ /\ N > MaxWaitObjects \/ "wait" \in Failures
        /\ Return(FALSE)
     \/ /\ "timeout" \in Failures
        /\ \E t \in Thread : ~rx[t]
        /\ Return(FALSE)
  /\ UNCHANGED <<stage, iv, waitWork, entry, rx, tx, workers, history>>

\* One entry of releaseThreadsList: its handles are closed and the entry blanked
\* once its thread has ended; a timeout or a failing close leaves the loop.
JoinWorker ==
  /\ call = "join"
  /\ \/ /\ wpc[k] = "exited"
        /\ rx' = [rx EXCEPT ![k] = FALSE]
        /\ tx' = [tx EXCEPT ![k] = FALSE]
        /\ Advance("join", "ready")
        /\ stage' = IF k = N THEN "released" ELSE stage
        /\ status' = IF k = N THEN TRUE ELSE status
     \/ /\ \/ wpc[k] # "exited" /\ "timeout" \in Failures
           \/ wpc[k] = "exited" /\ "close" \in Failures
        /\ Return(FALSE)
        /\ stage' = "released"
        /\ UNCHANGED <<rx, tx>>
  /\ UNCHANGED <<iv, waitWork, entry, workers, history>>

\* The main thread waits for a worker: only a timeout or a failure of the wait could
\* let it go on.
HeldUp ==
  \/ call = "await" /\ N <= MaxWaitObjects /\ \E t \in Thread : ~rx[t]
  \/ call = "join" /\ wpc[k] # "exited"

-----------------------------------------------------------------------------
(* threadEntry.                                                            *)

Move(t, from, to) == wpc[t] = from /\ wpc' = [wpc EXCEPT ![t] = to]

\* while (!p->terminateThread). The entry is gone once the list is freed.
Test(t) ==
  /\ stage # "deleted"
  /\ Move(t, "test", IF entry[t].terminate THEN "exited" ELSE "read")
  /\ UNCHANGED <<main, entry, rx, tx, local, ran, done, history>>

\* Copies the entry's parameters to locals.
ReadEntry(t) ==
  /\ stage # "deleted"
  /\ Move(t, "read", "work")
  /\ local' = [local EXCEPT ![t] = entry[t].job]
  /\ UNCHANGED <<main, entry, rx, tx, ran, done, history>>

\* The same two reads after free(): what happens next is undefined.
ReadFreed(t) ==
  /\ stage = "deleted"
  /\ wpc[t] \in {"test", "read"}
  /\ wpc' = [wpc EXCEPT ![t] = "wild"]
  /\ UNCHANGED <<main, entry, rx, tx, local, ran, done, history>>

\* dll_PerformanceGate or selected_pattern over the worker's two blocks.
Work(t) ==
  /\ Move(t, "work", "signal")
  /\ ran' = [ran EXCEPT ![t] = @ + 1]
  /\ done' = [done EXCEPT ![t] = local[t]]
  /\ UNCHANGED <<main, entry, rx, tx, local, history>>

\* SetEvent(rxHandle).
SignalRx(t) ==
  /\ Move(t, "signal", "wait")
  /\ rx' = [rx EXCEPT ![t] = TRUE]
  /\ UNCHANGED <<main, entry, tx, local, ran, done, history>>

\* Mutant: ResetEvent(txHandle) is left out.
WaitTxKeep(t) ==
  /\ tx[t]
  /\ Move(t, "wait", "test")
  /\ UNCHANGED <<main, entry, rx, tx, local, ran, done, history>>

\* WaitForSingleObject(txHandle, INFINITE).
WaitTx(t) ==
  /\ tx[t]
  /\ Move(t, "wait", "reset")
  /\ UNCHANGED <<main, entry, rx, tx, local, ran, done, history>>

\* ResetEvent(txHandle).
ResetTx(t) ==
  /\ Move(t, "reset", "test")
  /\ tx' = [tx EXCEPT ![t] = FALSE]
  /\ UNCHANGED <<main, entry, rx, local, ran, done, history>>

MainLoop == UpdateEntry \/ ResumeWorker \/ ResetRx \/ SetTx \/ Await \/ JoinWorker

Worker(t) ==
  \/ Test(t) \/ ReadEntry(t) \/ ReadFreed(t) \/ Work(t)
  \/ SignalRx(t) \/ WaitTx(t) \/ ResetTx(t)

-----------------------------------------------------------------------------
(* A client that keeps to the order the class is made for: build, run,     *)
(* update and restart while every call succeeds, then terminate, release   *)
(* and delete. It may give up between two calls and delete the pool, and   *)
(* after a failure that is all it may do.                                  *)

Client ==
  /\ call = "ready"
  /\ \/ Build
     \/ stage = "built" /\ status /\ CallRun
     \/ /\ stage = "running" /\ status
        /\ \/ \E v \in Params : ~iv.terminate /\ CallUpdate(v)
           \/ ~iv.terminate /\ issued < MaxRounds /\ CallRestart(TRUE)
           \/ iv.terminate /\ CallRestart(FALSE)
     \/ stage = "stopped" /\ CallRelease
     \/ Delete

\* main returns after the pool is deleted, and the process ends with it.
Finished == stage = "deleted" /\ UNCHANGED poolVars

PoolNext == Client \/ MainLoop \/ (\E t \in Thread : Worker(t)) \/ Finished

\* The main thread runs on through the operation it is in, and every worker
\* that is not blocked is scheduled; the client may stop asking.
PoolFairness ==
  /\ WF_poolVars(MainLoop)
  /\ \A t \in Thread : WF_poolVars(Worker(t))

PoolSafety == PoolInit /\ [][PoolNext]_poolVars
PoolSpec   == PoolSafety /\ PoolFairness

-----------------------------------------------------------------------------
\* Types of the pool's state (SYSTEM_THREADS_DATA, the events and the threads).
PoolTypeOK ==
  /\ stage \in Stages /\ call \in Calls /\ k \in Thread
  /\ iv \in Params /\ waitWork \in BOOLEAN /\ status \in BOOLEAN
  /\ entry \in [Thread -> Params]
  /\ rx \in [Thread -> BOOLEAN] /\ tx \in [Thread -> BOOLEAN]
  /\ wpc \in [Thread -> WorkerPCs] /\ local \in [Thread -> Jobs]
  /\ issued \in Nat /\ asked \in Jobs /\ ran \in [Thread -> Nat] /\ done \in [Thread -> Jobs]

InRoundCall == call \in {"resume", "reset", "set", "await"}

\* runThreads and restartThreads return TRUE only when every worker has executed
\* every round asked for, the last one with the parameters of the last update:
\* the time the caller reads spans all of the work and nothing else.
RoundComplete ==
  (stage = "running" /\ status /\ ~InRoundCall) =>
    \A t \in Thread : ran[t] = issued /\ done[t] = asked

\* While restartThreads waits, a set rx event stands for this round's work: no
\* signal of an earlier round is left to end the wait too soon.
SignalsAreNew ==
  (stage = "running" /\ call = "await") =>
    \A t \in Thread : rx[t] => ran[t] = issued

\* The worker clears its tx event after it has been woken. That never erases the
\* permission of a later round: as long as a worker still owes a round it was
\* released for, it is awake or its tx event is set.
NoLostContinue ==
  (stage = "running" /\ call = "await") =>
    \A t \in Thread :
      ran[t] < issued =>
        \/ wpc[t] \in {"reset", "test", "read", "work"}
        \/ wpc[t] = "wait" /\ tx[t]

\* updateThreadsList writes the entries without a lock: no worker may be between
\* the test of terminateThread and the last of its reads meanwhile.
NoEntryRace ==
  call = "update" => \A t \in Thread : wpc[t] \notin {"test", "read"}

\* No worker reads its entry after ~ThreadsBuilder has freed the list.
NoUseAfterFree == \A t \in Thread : wpc[t] # "wild"

-----------------------------------------------------------------------------
(* Where one worker may be while the pool is running, by what the main     *)
(* thread is doing. PoolInv is inductive and implies the four invariants   *)
(* above about running pools; its proof is in ThreadsBuilderProofs.        *)

\* Blocked, having executed every round: its signal is set, its permission not.
Parked(t) ==
  /\ wpc[t] = "wait" /\ rx[t] /\ ~tx[t]
  /\ ran[t] = issued /\ done[t] = asked

\* Still blocked (or still suspended) though a new round has been asked for.
Owing(t) == wpc[t] = "wait"      /\ ~tx[t] /\ ran[t] + 1 = issued
Fresh(t) == wpc[t] = "suspended" /\ ~tx[t] /\ ~rx[t] /\ ran[t] + 1 = issued

\* Released and not yet through with its work.
Busy(t) ==
  /\ ~rx[t] /\ ran[t] + 1 = issued
  /\ \/ wpc[t] = "wait" /\ tx[t]
     \/ wpc[t] = "reset"
     \/ wpc[t] \in {"test", "read"} /\ ~tx[t]
     \/ wpc[t] = "work" /\ ~tx[t] /\ local[t] = asked

\* Through with its work, its signal not yet set.
Signalling(t) ==
  /\ wpc[t] = "signal" /\ ~rx[t] /\ ~tx[t]
  /\ ran[t] = issued /\ done[t] = asked

InRound(t) == Busy(t) \/ Signalling(t) \/ Parked(t)

WorkerInv(t) ==
  /\ (call \in {"ready", "update"} /\ status) => Parked(t)
  /\ call = "resume" => IF t < k THEN InRound(t) ELSE Fresh(t)
  /\ call = "reset"  => Owing(t) /\ (t < k => ~rx[t])
  /\ call = "set"    => IF t < k THEN InRound(t) ELSE Owing(t) /\ ~rx[t]
  /\ call = "await"  => InRound(t)

\* What the entries hold while the pool is running.
EntriesInv ==
  /\ call = "update" => \A t \in Thread : t < k => entry[t] = iv
  /\ (InRoundCall \/ (call = "ready" /\ status)) => \A t \in Thread : entry[t] = iv
  /\ InRoundCall => ~iv.terminate /\ asked = iv.job
  /\ call \in {"reset", "set"} => waitWork
  /\ (InRoundCall \/ call = "update") => status

\* Before the first round nothing is signalled and nobody has run.
StartInv ==
  /\ call = "ready" /\ issued = 0 /\ ~iv.terminate
  /\ \A t \in Thread :
       /\ entry[t] = iv /\ ~rx[t] /\ ~tx[t] /\ ran[t] = 0
       /\ (stage = "built" /\ status) => wpc[t] = "suspended"
       /\ wpc[t] \in {"absent", "suspended"}

PoolInv ==
  /\ PoolTypeOK
  /\ stage \in {"new", "built"} => StartInv
  /\ stage = "running" => call # "join" /\ EntriesInv /\ \A t \in Thread : WorkerInv(t)
  /\ stage = "stopped" => call \notin {"update", "resume"}
  /\ stage \in {"released", "deleted"} => call = "ready"

-----------------------------------------------------------------------------
(* The contract of the pool, and how its state is read as the contract's.  *)

RoundPhase ==
  CASE stage \in {"new", "built"}                          -> "idle"
    [] stage = "running" /\ InRoundCall                    -> "round"
    [] stage = "running" /\ ~InRoundCall /\ status         -> "idle"
    [] stage = "running" /\ ~InRoundCall /\ ~status        -> "failed"
    [] stage \in {"stopped", "released", "deleted"}         -> "over"

Contract == INSTANCE MeasurementRounds WITH
  Workers <- Thread, RoundJobs <- Jobs,
  phase <- RoundPhase, job <- asked, result <- done,
  pending <- {t \in Thread : ran[t] < issued}

\* The pool implements the contract of MeasurementRounds: with two events per
\* worker and no lock, each worker executes each round's job exactly once and a
\* round completes only after all of them have, even when calls fail or time out.
ImplementsRounds == Contract!RoundsSpec

=============================================================================
