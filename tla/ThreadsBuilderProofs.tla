------------------------ MODULE ThreadsBuilderProofs ------------------------
(***************************************************************************)
(* Proofs about ThreadsBuilder, for every number of workers, every set of  *)
(* jobs, every limit of WaitForMultipleObjects and every set of failing    *)
(* calls.                                                                  *)
(***************************************************************************)
EXTENDS ThreadsBuilder, TLAPS

\* The loop index stays within the list, wherever the loop continues.
LEMMA AdvanceType ==
  ASSUME k \in Thread, NEW c \in Calls, NEW after \in Calls, Advance(c, after)
  PROVE  call' \in Calls /\ k' \in Thread
BY PoolAssumption DEF Advance, Thread

\* The operations of the class, called in whatever order.
Operation ==
  \/ Build \/ CallRun \/ CallRelease \/ Delete
  \/ \E v \in Params : CallUpdate(v)
  \/ \E w \in BOOLEAN : CallRestart(w)

\* Type correctness: every operation of the pool, in whatever order they are called,
\* and every step of a worker keeps the pool's state within its types.
LEMMA PoolTypeKept ==
  ASSUME PoolTypeOK,
         Operation \/ MainLoop \/ (\E t \in Thread : Worker(t)) \/ UNCHANGED poolVars
  PROVE  PoolTypeOK'
<1> USE PoolAssumption DEF PoolTypeOK
<1>one. 1 \in Thread
  BY DEF Thread
<1>1. CASE Build
  BY <1>1 DEF Build, Stages, WorkerPCs, Calls, history
<1>2. CASE CallRun
  BY <1>2, <1>one DEF CallRun, Stages, Calls, Params, workers
<1>3. ASSUME NEW v \in Params, CallUpdate(v) PROVE PoolTypeOK'
  BY <1>3, <1>one DEF CallUpdate, Calls, history, workers
<1>4. ASSUME NEW w \in BOOLEAN, CallRestart(w) PROVE PoolTypeOK'
  BY <1>4, <1>one DEF CallRestart, Calls, Stages, Params, history, workers
<1>5. CASE CallRelease
  BY <1>5, <1>one DEF CallRelease, Calls, history, workers
<1>6. CASE Delete
  BY <1>6 DEF Delete, Stages, history, workers
<1>7. CASE UpdateEntry
  BY <1>7, AdvanceType DEF UpdateEntry, Calls, history, workers
<1>8. CASE ResumeWorker
  BY <1>8, <1>one, AdvanceType DEF ResumeWorker, Return, Calls, WorkerPCs, history
<1>9. CASE ResetRx
  BY <1>9, <1>one, AdvanceType DEF ResetRx, Return, Calls, history, workers
<1>10. CASE SetTx
  BY <1>10, <1>one, AdvanceType DEF SetTx, Return, Calls, history, workers
<1>11. CASE Await
  BY <1>11, <1>one DEF Await, Return, Calls, history, workers
<1>12. CASE JoinWorker
  BY <1>12, <1>one, AdvanceType DEF JoinWorker, Return, Calls, Stages, history, workers
<1>13. ASSUME NEW t \in Thread, Worker(t) PROVE PoolTypeOK'
  <2> USE DEF Move, WorkerPCs, main, history
  <2>1. CASE Test(t)
    BY <2>1 DEF Test
  <2>2. CASE ReadEntry(t)
    BY <2>2 DEF ReadEntry, Params
  <2>3. CASE ReadFreed(t)
    BY <2>3 DEF ReadFreed
  <2>4. CASE Work(t)
    BY <2>4 DEF Work
  <2>5. CASE SignalRx(t)
    BY <2>5 DEF SignalRx
  <2>6. CASE WaitTx(t)
    BY <2>6 DEF WaitTx
  <2>7. CASE ResetTx(t)
    BY <2>7 DEF ResetTx
  <2> QED
    BY <1>13, <2>1, <2>2, <2>3, <2>4, <2>5, <2>6, <2>7 DEF Worker
<1>14. CASE UNCHANGED poolVars
  BY <1>14 DEF poolVars, main, workers, history
<1> QED
  BY <1>1, <1>2, <1>3, <1>4, <1>5, <1>6, <1>7, <1>8, <1>9, <1>10, <1>11, <1>12, <1>13, <1>14
  DEF Operation, MainLoop

\* So does every step of the pool with its client.
LEMMA PoolTypeStep == PoolTypeOK /\ [PoolNext]_poolVars => PoolTypeOK'
BY PoolTypeKept DEF PoolNext, Client, Operation, Finished

\* The pool starts within its types.
LEMMA PoolTypeInit == PoolInit => PoolTypeOK
<1> SUFFICES ASSUME PoolInit PROVE PoolTypeOK
  OBVIOUS
<1>1. iv \in Params
  BY DEF PoolInit, Params
<1>2. iv.job \in Jobs
  BY <1>1 DEF Params
<1>3. k \in Thread
  BY PoolAssumption DEF PoolInit, Thread
<1> QED
  BY <1>1, <1>2, <1>3 DEF PoolInit, PoolTypeOK, Stages, Calls, WorkerPCs

\* The state of the pool, its events and its threads always has its types.
THEOREM PoolTypeCorrect == PoolSafety => []PoolTypeOK
BY PoolTypeInit, PoolTypeStep, PTL DEF PoolSafety

-----------------------------------------------------------------------------
\* Nothing a worker does touches the main thread's state, the entries, the
\* history of the rounds or what another worker owns.
LEMMA WorkerFrame ==
  ASSUME PoolTypeOK, NEW t \in Thread, Worker(t)
  PROVE  /\ UNCHANGED <<stage, call, k, iv, waitWork, status, entry, issued, asked>>
         /\ \A u \in Thread \ {t} :
              /\ wpc'[u] = wpc[u] /\ rx'[u] = rx[u] /\ tx'[u] = tx[u]
              /\ local'[u] = local[u] /\ ran'[u] = ran[u] /\ done'[u] = done[u]
BY DEF PoolTypeOK, Worker, Test, ReadEntry, ReadFreed, Work, SignalRx, WaitTx, ResetTx,
       Move, main, history

\* A worker that is suspended, or blocked on a tx event that is not set, does not move.
LEMMA WorkerBlocked ==
  ASSUME NEW t \in Thread, Worker(t)
  PROVE  /\ wpc[t] \notin {"absent", "suspended", "exited", "wild"}
         /\ wpc[t] = "wait" => tx[t]
BY DEF Worker, Test, ReadEntry, ReadFreed, Work, SignalRx, WaitTx, ResetTx, Move

\* A released worker stays within its round, whatever step it takes: it reads the
\* job that was asked for, executes it once, and signals after that.
LEMMA InRoundStep ==
  ASSUME PoolTypeOK, NEW t \in Thread, Worker(t), InRound(t),
         stage = "running", entry[t] = iv, ~iv.terminate, asked = iv.job
  PROVE  InRound(t)'
<1> USE DEF InRound, Busy, Signalling, Parked, PoolTypeOK, Move, main, history
<1>1. CASE Test(t)
  BY <1>1 DEF Test
<1>2. CASE ReadEntry(t)
  BY <1>2 DEF ReadEntry
<1>3. CASE ReadFreed(t)
  BY <1>3 DEF ReadFreed
<1>4. CASE Work(t)
  BY <1>4 DEF Work
<1>5. CASE SignalRx(t)
  BY <1>5 DEF SignalRx
<1>6. CASE WaitTx(t)
  BY <1>6 DEF WaitTx
<1>7. CASE ResetTx(t)
  BY <1>7 DEF ResetTx
<1> QED
  BY <1>1, <1>2, <1>3, <1>4, <1>5, <1>6, <1>7 DEF Worker

\* A step of a worker preserves the invariant.
LEMMA WorkerKeepsInv ==
  ASSUME PoolInv, PoolTypeOK', NEW t \in Thread, Worker(t)
  PROVE  PoolInv'
<1>1. UNCHANGED <<stage, call, k, iv, waitWork, status, entry, issued, asked>>
  BY WorkerFrame DEF PoolInv
<1>2. stage \notin {"new", "built"}
  BY WorkerBlocked DEF PoolInv, StartInv
<1>3. ASSUME stage = "running" PROVE EntriesInv' /\ call' # "join"
  BY <1>1, <1>3 DEF PoolInv, EntriesInv, InRoundCall
<1>4. ASSUME stage = "running", NEW u \in Thread PROVE WorkerInv(u)'
  <2>1. CASE u # t
    BY <1>1, <1>4, <2>1, WorkerFrame
    DEF PoolInv, WorkerInv, InRound, Busy, Signalling, Parked, Owing, Fresh
  <2>2. CASE u = t
    <3>1. ~Parked(t) /\ ~Owing(t) /\ ~Fresh(t)
      BY WorkerBlocked DEF Parked, Owing, Fresh
    <3>2. (InRoundCall /\ InRound(t)) => InRound(t)'
      BY <1>4, InRoundStep DEF PoolInv, EntriesInv
    <3> QED
      BY <1>1, <1>4, <2>2, <3>1, <3>2 DEF PoolInv, WorkerInv, InRoundCall
  <2> QED BY <2>1, <2>2
<1> QED
  BY <1>1, <1>2, <1>3, <1>4 DEF PoolInv

\* What the client calls, it calls when the workers are where the call needs them.
LEMMA ClientKeepsInv ==
  ASSUME PoolInv, PoolTypeOK', Client
  PROVE  PoolInv'
<1> USE DEF PoolInv, history, workers
<1>1. CASE Build
  BY <1>1, PoolAssumption DEF Build, StartInv, PoolTypeOK
<1>2. CASE stage = "built" /\ status /\ CallRun
  <2>1. EntriesInv'
    BY <1>2 DEF CallRun, EntriesInv, StartInv, InRoundCall
  <2>2. ASSUME NEW t \in Thread PROVE WorkerInv(t)'
    BY <1>2 DEF CallRun, StartInv, WorkerInv, Fresh, Thread
  <2> QED
    BY <1>2, <2>1, <2>2 DEF CallRun
<1>3. ASSUME stage = "running", status, NEW v \in Params, CallUpdate(v) PROVE PoolInv'
  <2>1. EntriesInv'
    BY <1>3 DEF CallUpdate, EntriesInv, InRoundCall, Thread
  <2>2. ASSUME NEW t \in Thread PROVE WorkerInv(t)'
    BY <1>3 DEF CallUpdate, Client, WorkerInv, Parked
  <2> QED
    BY <1>3, <2>1, <2>2 DEF CallUpdate
<1>4. CASE stage = "running" /\ status /\ ~iv.terminate /\ CallRestart(TRUE)
  <2>1. EntriesInv'
    BY <1>4 DEF CallRestart, Client, EntriesInv, InRoundCall
  <2>2. ASSUME NEW t \in Thread PROVE WorkerInv(t)'
    BY <1>4 DEF CallRestart, Client, WorkerInv, Parked, Owing, Thread
  <2> QED
    BY <1>4, <2>1, <2>2 DEF CallRestart
<1>5. CASE CallRestart(FALSE) \/ (stage = "stopped" /\ CallRelease)
  BY <1>5 DEF CallRestart, CallRelease
<1>6. CASE Delete
  BY <1>6 DEF Delete
<1> QED
  BY <1>1, <1>2, <1>3, <1>4, <1>5, <1>6 DEF Client

\* The loop index points behind exactly the entries the loop is through with.
LEMMA AdvanceSplit ==
  ASSUME k \in Thread, NEW c, NEW after, Advance(c, after), NEW t \in Thread
  PROVE  \/ /\ call' = c     /\ k' = k + 1 /\ k < N /\ (t < k' <=> t < k \/ t = k)
         \/ /\ call' = after /\ k' = 1     /\ (t < k \/ t = k)
BY PoolAssumption DEF Advance, Thread

\* The loops of the operations preserve the invariant.
LEMMA MainLoopKeepsInv ==
  ASSUME PoolInv, PoolTypeOK', MainLoop
  PROVE  PoolInv'
<1> USE DEF PoolInv
<1>k. k \in Thread
  BY DEF PoolTypeOK
<1>1. CASE UpdateEntry
  <2>1. stage = "running" /\ status /\ UNCHANGED <<stage, iv, status>>
    BY <1>1 DEF UpdateEntry, StartInv, EntriesInv, PoolTypeOK, Stages
  <2>2. ASSUME NEW t \in Thread PROVE WorkerInv(t)'
    BY <1>1, <1>k, <2>1, AdvanceSplit DEF UpdateEntry, WorkerInv, Parked, workers, history
  <2>3. EntriesInv'
    BY <1>1, <1>k, <2>1, AdvanceSplit DEF UpdateEntry, EntriesInv, InRoundCall, PoolTypeOK
  <2> QED
    BY <1>1, <1>k, <2>1, <2>2, <2>3 DEF UpdateEntry, Advance
<1>2. CASE ResumeWorker
  <2>1. stage = "running" /\ status /\ UNCHANGED <<stage, iv, entry, history, waitWork>>
    BY <1>2 DEF ResumeWorker, StartInv, EntriesInv, InRoundCall, PoolTypeOK, Stages
  <2>2. CASE Return(FALSE) /\ UNCHANGED wpc
    BY <2>1, <2>2 DEF Return, EntriesInv, InRoundCall, WorkerInv
  <2>3. CASE wpc' = [wpc EXCEPT ![k] = "test"] /\ Advance("resume", "await") /\ UNCHANGED status
    <3>1. ASSUME NEW t \in Thread PROVE WorkerInv(t)'
      <4> USE DEF InRound, Busy, Signalling, Parked, Fresh, history
      <4>1. IF t < k THEN InRound(t) ELSE Fresh(t)
        BY <1>2, <2>1 DEF ResumeWorker, WorkerInv
      <4>2. IF t < k \/ t = k THEN InRound(t)' ELSE Fresh(t)'
        <5>1. CASE t = k
          BY <1>2, <1>k, <2>1, <2>3, <4>1, <5>1 DEF ResumeWorker, PoolTypeOK, Thread
        <5>2. CASE t # k
          BY <1>2, <2>1, <2>3, <4>1, <5>2 DEF ResumeWorker, PoolTypeOK
        <5> QED BY <5>1, <5>2
      <4> QED
        BY <1>k, <2>3, <4>2, AdvanceSplit DEF WorkerInv
    <3>2. EntriesInv'
      BY <1>2, <2>1, <2>3 DEF ResumeWorker, Advance, EntriesInv, InRoundCall, history
    <3> QED
      BY <2>1, <2>3, <3>1, <3>2 DEF Advance
  <2> QED
    BY <1>2, <2>2, <2>3 DEF ResumeWorker
<1>3. CASE ResetRx
  <2>1. stage \in {"running", "stopped"} /\ UNCHANGED <<stage, iv, entry, history, waitWork, wpc, tx>>
    BY <1>3 DEF ResetRx, StartInv, PoolTypeOK, Stages, workers
  <2>2. CASE stage = "stopped"
    BY <1>3, <2>1, <2>2 DEF ResetRx, Return, Advance
  <2>3. CASE stage = "running" /\ Return(FALSE) /\ UNCHANGED rx
    BY <2>1, <2>3 DEF Return, EntriesInv, InRoundCall, WorkerInv
  <2>4. CASE stage = "running" /\ rx' = [rx EXCEPT ![k] = FALSE] /\ Advance("reset", "set")
             /\ UNCHANGED status
    <3>1. ASSUME NEW t \in Thread PROVE WorkerInv(t)'
      BY <1>3, <1>k, <2>1, <2>4, AdvanceSplit
      DEF ResetRx, WorkerInv, Owing, PoolTypeOK, history, workers, Thread
    <3>2. EntriesInv'
      BY <1>3, <2>1, <2>4 DEF ResetRx, Advance, EntriesInv, InRoundCall, history
    <3> QED
      BY <2>1, <2>4, <3>1, <3>2 DEF Advance
  <2> QED
    BY <1>3, <2>1, <2>2, <2>3, <2>4 DEF ResetRx
<1>4. CASE SetTx
  <2>1. stage \in {"running", "stopped"} /\ UNCHANGED <<stage, iv, entry, history, waitWork, wpc, rx>>
    BY <1>4 DEF SetTx, StartInv, PoolTypeOK, Stages, workers
  <2>2. CASE stage = "stopped"
    BY <1>4, <2>1, <2>2 DEF SetTx, Return, Advance
  <2>3. CASE stage = "running" /\ Return(FALSE) /\ UNCHANGED tx
    BY <2>1, <2>3 DEF Return, EntriesInv, InRoundCall, WorkerInv
  <2>4. CASE stage = "running" /\ tx' = [tx EXCEPT ![k] = TRUE]
             /\ Advance("set", IF waitWork THEN "await" ELSE "ready")
             /\ status' = IF k = N /\ ~waitWork THEN TRUE ELSE status
    <3>0. waitWork /\ status' = status /\ Advance("set", "await")
      BY <1>4, <2>4 DEF SetTx, EntriesInv
    <3>1. ASSUME NEW t \in Thread PROVE WorkerInv(t)'
      BY <1>4, <1>k, <2>1, <2>4, <3>0, AdvanceSplit
      DEF SetTx, WorkerInv, Owing, InRound, Busy, Signalling, Parked, PoolTypeOK, history,
          workers, Thread
    <3>2. EntriesInv'
      BY <1>4, <2>1, <2>4, <3>0 DEF SetTx, Advance, EntriesInv, InRoundCall, history
    <3> QED
      BY <2>1, <2>4, <3>0, <3>1, <3>2 DEF Advance
  <2> QED
    BY <1>4, <2>1, <2>2, <2>3, <2>4 DEF SetTx
<1>5. CASE Await
  <2>1. stage \in {"running", "stopped"} /\ UNCHANGED <<stage, iv, entry, history, waitWork, rx, tx>>
    BY <1>5 DEF Await, StartInv, PoolTypeOK, Stages, workers
  <2>2. CASE stage = "stopped" \/ Return(FALSE)
    BY <1>5, <2>1, <2>2 DEF Await, Return, EntriesInv, InRoundCall, WorkerInv
  <2>3. CASE stage = "running" /\ (\A t \in Thread : rx[t]) /\ Return(TRUE)
    <3>1. ASSUME NEW t \in Thread PROVE WorkerInv(t)'
      BY <1>5, <2>1, <2>3
      DEF Await, Return, WorkerInv, InRound, Busy, Signalling, Parked, history, workers
    <3>2. EntriesInv'
      BY <1>5, <2>1, <2>3 DEF Await, Return, EntriesInv, InRoundCall
    <3> QED
      BY <2>1, <2>3, <3>1, <3>2 DEF Return
  <2> QED
    BY <1>5, <2>1, <2>2, <2>3 DEF Await
<1>6. CASE JoinWorker
  <2>1. stage = "stopped"
    BY <1>6 DEF JoinWorker, StartInv, PoolTypeOK, Stages
  <2>2. call' \in {"ready", "join"} /\ stage' \in {"stopped", "released"}
    BY <1>6, <2>1 DEF JoinWorker, Return, Advance
  <2>3. stage' = "released" => call' = "ready"
    <3>1. CASE Return(FALSE)
      BY <3>1 DEF Return
    <3>2. CASE Advance("join", "ready") /\ stage' = IF k = N THEN "released" ELSE stage
      BY <2>1, <3>2, PoolAssumption DEF Advance
    <3> QED
      BY <1>6, <3>1, <3>2 DEF JoinWorker
  <2> QED
    BY <2>2, <2>3
<1> QED
  BY <1>1, <1>2, <1>3, <1>4, <1>5, <1>6 DEF MainLoop

\* Before anything is built, the invariant holds.
LEMMA PoolInvInit == PoolInit => PoolInv
BY PoolTypeInit DEF PoolInit, PoolInv, StartInv

\* PoolInv is inductive.
LEMMA PoolInvStep == PoolInv /\ [PoolNext]_poolVars => PoolInv'
<1> SUFFICES ASSUME PoolInv, [PoolNext]_poolVars PROVE PoolInv'
  OBVIOUS
<1>1. PoolTypeOK'
  BY PoolTypeStep DEF PoolInv
<1>2. CASE UNCHANGED poolVars
  BY <1>1, <1>2
  DEF PoolInv, StartInv, EntriesInv, WorkerInv, InRoundCall, InRound, Busy, Signalling,
      Parked, Owing, Fresh, poolVars, main, workers, history
<1> QED
  BY <1>1, <1>2, ClientKeepsInv, MainLoopKeepsInv, WorkerKeepsInv DEF PoolNext, Finished

\* What PoolInv says of the main thread and the workers is always so.
THEOREM PoolInvariance == PoolSafety => []PoolInv
BY PoolInvInit, PoolInvStep, PTL DEF PoolSafety

-----------------------------------------------------------------------------
\* What PoolInv says of the places where a round is complete, a wait goes on or the
\* entries are written.
LEMMA PoolInvGives ==
  ASSUME PoolInv
  PROVE  RoundComplete /\ SignalsAreNew /\ NoLostContinue /\ NoEntryRace
<1> USE DEF PoolInv, PoolTypeOK, WorkerInv, InRound, Busy, Signalling, Parked
<1>1. RoundComplete
  BY DEF Calls, EntriesInv, RoundComplete, InRoundCall
<1>2. SignalsAreNew
  BY DEF SignalsAreNew
<1>3. NoLostContinue
  BY DEF NoLostContinue
<1>4. NoEntryRace
  BY DEF Stages, StartInv, EntriesInv, NoEntryRace
<1> QED BY <1>1, <1>2, <1>3, <1>4

\* For any number of workers and whatever call of the system fails, a wait that
\* reports success has seen this round's work of every worker: all of it has been
\* executed, with the parameters of the last update.
THEOREM RoundsAreComplete == PoolSafety => []RoundComplete
BY PoolInvGives, PoolInvariance, PTL

\* No signal of an earlier round can end a later wait.
THEOREM WaitsSeeNewSignals == PoolSafety => []SignalsAreNew
BY PoolInvGives, PoolInvariance, PTL

\* A worker never erases the permission for a round it still owes.
THEOREM ContinueIsNeverLost == PoolSafety => []NoLostContinue
BY PoolInvGives, PoolInvariance, PTL

\* The main thread writes the entries only while every worker is blocked, so the
\* unlocked list is never read and written at the same time.
THEOREM EntriesAreRaceFree == PoolSafety => []NoEntryRace
BY PoolInvGives, PoolInvariance, PTL

-----------------------------------------------------------------------------
(* That the pool implements the contract of MeasurementRounds needs to     *)
(* know more than PoolInv says: what the workers may still do after a call *)
(* has failed, after the last wake-up and after the pool is deleted.       *)

\* After a failed call the workers are where the call left them, within the round.
FailedInv ==
  (stage = "running" /\ ~status) =>
    /\ ~iv.terminate /\ asked = iv.job
    /\ \A t \in Thread : entry[t] = iv /\ (InRound(t) \/ Owing(t) \/ Fresh(t))

\* After the last wake-up nobody gets to work again.
StoppedInv ==
  stage \in {"stopped", "released"} =>
    \A t \in Thread : entry[t].terminate /\ wpc[t] \in {"wait", "reset", "test", "exited"}

\* Once the list is freed, only a worker already in its work executes a round.
DeletedInv ==
  stage = "deleted" =>
    \A t \in Thread : wpc[t] = "work" => ran[t] + 1 = issued /\ local[t] = asked

RefinementInv == PoolInv /\ FailedInv /\ StoppedInv /\ DeletedInv

\* A step of a worker keeps what is known of the workers left behind.
LEMMA WorkerKeepsRefinementInv ==
  ASSUME RefinementInv, NEW t \in Thread, Worker(t)
  PROVE  FailedInv' /\ StoppedInv' /\ DeletedInv'
<1> USE DEF RefinementInv
<1>1. PoolTypeOK /\ UNCHANGED <<stage, call, k, iv, waitWork, status, entry, issued, asked>>
  BY WorkerFrame DEF PoolInv
<1>2. FailedInv'
  <2> SUFFICES ASSUME stage = "running", ~status, NEW u \in Thread
               PROVE  (InRound(u) \/ Owing(u) \/ Fresh(u))'
    BY <1>1 DEF FailedInv
  <2>1. CASE u # t
    BY <1>1, <2>1, WorkerFrame
    DEF FailedInv, InRound, Busy, Signalling, Parked, Owing, Fresh
  <2>2. CASE u = t
    <3>1. ~Owing(t) /\ ~Fresh(t)
      BY WorkerBlocked DEF Owing, Fresh
    <3> QED
      BY <1>1, <2>2, <3>1, InRoundStep DEF FailedInv
  <2> QED BY <2>1, <2>2
<1>3. StoppedInv' /\ DeletedInv'
  <2> USE <1>1 DEF PoolTypeOK, StoppedInv, DeletedInv, Move
  <2>1. CASE Test(t)
    BY <2>1 DEF Test
  <2>2. CASE ReadEntry(t)
    BY <2>2 DEF ReadEntry
  <2>3. CASE ReadFreed(t)
    BY <2>3 DEF ReadFreed
  <2>4. CASE Work(t)
    BY <2>4 DEF Work
  <2>5. CASE SignalRx(t)
    BY <2>5 DEF SignalRx
  <2>6. CASE WaitTx(t)
    BY <2>6 DEF WaitTx
  <2>7. CASE ResetTx(t)
    BY <2>7 DEF ResetTx
  <2> QED
    BY <2>1, <2>2, <2>3, <2>4, <2>5, <2>6, <2>7 DEF Worker
<1> QED BY <1>2, <1>3

\* The client leaves the pool, or wakes it for the last time, only when the workers
\* are where RefinementInv needs them.
LEMMA ClientKeepsRefinementInv ==
  ASSUME RefinementInv, Client
  PROVE  FailedInv' /\ StoppedInv' /\ DeletedInv'
<1> USE DEF RefinementInv, history, workers
<1>1. CASE Build
  BY <1>1 DEF Build, FailedInv, StoppedInv, DeletedInv
<1>2. CASE status /\ CallRun
  BY <1>2 DEF CallRun, FailedInv, StoppedInv, DeletedInv
<1>3. ASSUME stage = "running", status, NEW v \in Params, CallUpdate(v)
      PROVE  FailedInv' /\ StoppedInv' /\ DeletedInv'
  BY <1>3 DEF CallUpdate, FailedInv, StoppedInv, DeletedInv
<1>4. CASE stage = "running" /\ status /\ CallRestart(TRUE)
  BY <1>4 DEF CallRestart, FailedInv, StoppedInv, DeletedInv
<1>5. CASE stage = "running" /\ status /\ call = "ready" /\ iv.terminate /\ CallRestart(FALSE)
  BY <1>5 DEF CallRestart, FailedInv, StoppedInv, DeletedInv, PoolInv, EntriesInv, WorkerInv,
              Parked
<1>6. CASE stage = "stopped" /\ CallRelease
  BY <1>6 DEF CallRelease, FailedInv, StoppedInv, DeletedInv
<1>7. CASE call = "ready" /\ Delete
  <2>1. ASSUME NEW t \in Thread, wpc[t] = "work" PROVE ran[t] + 1 = issued /\ local[t] = asked
    <3>1. CASE stage \in {"new", "built"}
      BY <2>1, <3>1 DEF PoolInv, StartInv
    <3>2. CASE stage = "running"
      BY <1>7, <2>1, <3>2
      DEF PoolInv, WorkerInv, FailedInv, InRound, Busy, Signalling, Parked, Owing, Fresh
    <3>3. CASE stage \in {"stopped", "released"}
      BY <2>1, <3>3 DEF StoppedInv
    <3> QED
      BY <1>7, <3>1, <3>2, <3>3 DEF Delete, PoolInv, PoolTypeOK, Stages
  <2> QED
    BY <1>7, <2>1 DEF Delete, FailedInv, StoppedInv, DeletedInv
<1> QED
  BY <1>1, <1>2, <1>3, <1>4, <1>5, <1>6, <1>7 DEF Client

\* A loop moves no worker but the one it resumes, and when a call in it fails the
\* workers stay within the round.
LEMMA MainLoopKeepsRefinementInv ==
  ASSUME RefinementInv, MainLoop
  PROVE  FailedInv' /\ StoppedInv' /\ DeletedInv'
<1> USE DEF RefinementInv, PoolInv
<1>1. CASE UpdateEntry
  <2>1. stage = "running" /\ status
    BY <1>1 DEF UpdateEntry, StartInv, EntriesInv, PoolTypeOK, Stages
  <2> QED
    BY <1>1, <2>1 DEF UpdateEntry, FailedInv, StoppedInv, DeletedInv
<1>2. CASE ResumeWorker
  <2>1. stage = "running" /\ EntriesInv /\ InRoundCall /\ status /\ UNCHANGED stage
    BY <1>2 DEF ResumeWorker, StartInv, EntriesInv, InRoundCall, PoolTypeOK, Stages
  <2>2. CASE UNCHANGED status
    BY <2>1, <2>2 DEF FailedInv, StoppedInv, DeletedInv
  <2>3. CASE UNCHANGED wpc
    BY <1>2, <2>1, <2>3
    DEF ResumeWorker, FailedInv, StoppedInv, DeletedInv, EntriesInv, WorkerInv, InRound, Busy,
        Signalling, Parked, Owing, Fresh, history
  <2> QED
    BY <1>2, <2>2, <2>3 DEF ResumeWorker
<1>3. CASE ResetRx \/ SetTx \/ Await
  <2>0. UNCHANGED <<stage, iv, entry, wpc, local, ran, done, issued, asked>>
    BY <1>3 DEF ResetRx, SetTx, Await, workers, history
  <2>1. StoppedInv' /\ DeletedInv'
    BY <2>0 DEF StoppedInv, DeletedInv
  <2>2. ASSUME stage = "running", ~status' PROVE UNCHANGED <<rx, tx>> /\ EntriesInv /\ InRoundCall
    BY <1>3, <2>2 DEF ResetRx, SetTx, Await, Return, EntriesInv, InRoundCall
  <2>3. ASSUME stage = "running", ~status', NEW t \in Thread
        PROVE  InRound(t) \/ Owing(t)
    BY <1>3, <2>3 DEF ResetRx, SetTx, Await, WorkerInv
  <2>4. FailedInv'
    BY <2>0, <2>2, <2>3
    DEF FailedInv, EntriesInv, InRound, Busy, Signalling, Parked, Owing, Fresh
  <2> QED BY <2>1, <2>4
<1>4. CASE JoinWorker
  <2>1. stage = "stopped" /\ stage' \in {"stopped", "released"}
    BY <1>4 DEF JoinWorker, StartInv, PoolTypeOK, Stages
  <2> QED
    BY <1>4, <2>1 DEF JoinWorker, FailedInv, StoppedInv, DeletedInv, workers
<1> QED
  BY <1>1, <1>2, <1>3, <1>4 DEF MainLoop

\* RefinementInv is inductive.
LEMMA RefinementInvStep == RefinementInv /\ [PoolNext]_poolVars => RefinementInv'
<1> SUFFICES ASSUME RefinementInv, [PoolNext]_poolVars PROVE RefinementInv'
  OBVIOUS
<1>1. PoolInv'
  BY PoolInvStep DEF RefinementInv
<1>2. CASE UNCHANGED poolVars
  BY <1>1, <1>2
  DEF RefinementInv, FailedInv, StoppedInv, DeletedInv, InRound, Busy, Signalling, Parked,
      Owing, Fresh, poolVars, main, workers, history
<1> QED
  BY <1>1, <1>2, ClientKeepsRefinementInv, MainLoopKeepsRefinementInv, WorkerKeepsRefinementInv
  DEF PoolNext, Finished, RefinementInv

\* It holds before anything is built.
LEMMA RefinementInvInit == PoolInit => RefinementInv
BY PoolInvInit DEF PoolInit, RefinementInv, FailedInv, StoppedInv, DeletedInv

\* What the workers may still do after a failure, a wake-up to end or the deletion of
\* the pool is bounded by RefinementInv.
THEOREM RefinementInvariance == PoolSafety => []RefinementInv
BY RefinementInvInit, RefinementInvStep, PTL DEF PoolSafety

-----------------------------------------------------------------------------
\* How the state of the pool is read as a phase of the contract, by the stage.
PhaseOfStage ==
  /\ stage \in {"new", "built"} => RoundPhase = "idle"
  /\ stage = "running" =>
       RoundPhase = IF InRoundCall THEN "round" ELSE IF status THEN "idle" ELSE "failed"
  /\ stage \in {"stopped", "released", "deleted"} => RoundPhase = "over"

\* Before and after every step.
LEMMA PhasesOfStep == ASSUME PoolTypeOK, PoolTypeOK' PROVE PhaseOfStage /\ PhaseOfStage'
BY DEF PhaseOfStage, RoundPhase, PoolTypeOK, Stages

Pending == {t \in Thread : ran[t] < issued}

\* A worker that gets to its work owes exactly the round asked for, and has its job.
LEMMA WorkIsOwed ==
  ASSUME RefinementInv, NEW t \in Thread, wpc[t] = "work"
  PROVE  ran[t] + 1 = issued /\ local[t] = asked
BY DEF RefinementInv, PoolInv, PoolTypeOK, Stages, Calls, StartInv, FailedInv, StoppedInv,
       DeletedInv, EntriesInv, InRoundCall, WorkerInv, InRound, Busy, Signalling, Parked, Owing, Fresh

\* Every step of a worker is the execution of the round's job by that worker, or
\* invisible to the contract.
LEMMA WorkerRefines ==
  ASSUME RefinementInv, NEW t \in Thread, Worker(t)
  PROVE  Contract!Execute(t) \/ UNCHANGED Contract!roundVars
<1>1. PoolTypeOK /\ UNCHANGED <<stage, call, status, issued, asked>>
  BY WorkerFrame DEF RefinementInv, PoolInv
<1>2. UNCHANGED RoundPhase
  BY <1>1 DEF RoundPhase, InRoundCall
<1>3. CASE Work(t)
  <2>1. ran[t] + 1 = issued /\ local[t] = asked
    BY <1>3, WorkIsOwed DEF Work, Move
  <2>2. t \in Pending /\ Pending' = Pending \ {t}
    BY <1>1, <1>3, <2>1 DEF Work, Pending, PoolTypeOK
  <2>3. done' = [done EXCEPT ![t] = asked]
    BY <1>3, <2>1 DEF Work
  <2> QED
    BY <1>1, <1>2, <2>2, <2>3 DEF Pending, Contract!Execute
<1>4. CASE UNCHANGED <<ran, done>>
  BY <1>1, <1>2, <1>4 DEF Contract!roundVars
<1> QED
  BY <1>3, <1>4 DEF Worker, Test, ReadEntry, ReadFreed, SignalRx, WaitTx, ResetTx

\* A call of the client begins a round, retires the pool, or is invisible.
LEMMA ClientRefines ==
  ASSUME RefinementInv, PoolTypeOK', Client
  PROVE  Contract!RoundsNext \/ UNCHANGED Contract!roundVars
<1> USE DEF RefinementInv, PoolInv, PhaseOfStage, history, workers
<1>p. PhaseOfStage /\ PhaseOfStage'
  BY PhasesOfStep
<1>1. CASE Build
  BY <1>1, <1>p DEF Build, Contract!roundVars
<1>2. ASSUME CallRun \/ CallRestart(TRUE), RoundPhase = "idle", stage' = "running",
             \A t \in Thread : ran[t] = issued
      PROVE  Contract!RoundsNext
  <2>1. issued' = issued + 1 /\ asked' = iv.job /\ UNCHANGED <<ran, done>> /\ InRoundCall'
    BY <1>2 DEF CallRun, CallRestart, InRoundCall
  <2>2. Pending' = Thread
    BY <1>2, <2>1 DEF Pending, PoolTypeOK
  <2>3. PICK j \in Jobs : j = iv.job
    BY DEF PoolTypeOK, Params
  <2>4. Contract!Begin(j)
    BY <1>2, <1>p, <2>1, <2>2, <2>3 DEF Contract!Begin, Pending
  <2> QED
    BY <2>4 DEF Contract!RoundsNext
<1>3. CASE stage = "built" /\ status /\ CallRun
  BY <1>2, <1>3, <1>p DEF CallRun, StartInv
<1>4. CASE call = "ready" /\ stage = "running" /\ status /\ CallRestart(TRUE)
  <2>1. RoundPhase = "idle" /\ stage' = "running"
    BY <1>4, <1>p DEF CallRestart, InRoundCall
  <2>2. \A t \in Thread : ran[t] = issued
    BY <1>4 DEF WorkerInv, Parked
  <2> QED BY <1>2, <1>4, <2>1, <2>2
<1>5. ASSUME stage = "running", status, call = "ready", NEW v \in Params, CallUpdate(v)
      PROVE  UNCHANGED Contract!roundVars
  BY <1>5, <1>p DEF CallUpdate, Contract!roundVars, InRoundCall
<1>6. CASE stage = "stopped" /\ CallRelease
  BY <1>6, <1>p DEF CallRelease, Contract!roundVars
<1>7. CASE call = "ready" /\ ((stage = "running" /\ status /\ CallRestart(FALSE)) \/ Delete)
  <2>1. UNCHANGED <<asked, issued, ran, done>> /\ RoundPhase' = "over"
    BY <1>7, <1>p DEF CallRestart, Delete
  <2>2. RoundPhase \in {"idle", "failed", "over"}
    BY <1>7, <1>p DEF InRoundCall, PoolTypeOK, Stages
  <2> QED
    BY <2>1, <2>2 DEF Contract!RoundsNext, Contract!Retire, Contract!roundVars
<1> QED
  BY <1>1, <1>3, <1>4, <1>5, <1>6, <1>7 DEF Client

\* The end of the wait completes a round, and so it may: every signal it saw is of a
\* worker that has executed it. A failing call gives the round up.
LEMMA MainLoopRefines ==
  ASSUME RefinementInv, PoolTypeOK', MainLoop
  PROVE  Contract!RoundsNext \/ UNCHANGED Contract!roundVars
<1> USE DEF RefinementInv, PoolInv, PhaseOfStage, history, workers
<1>p. PhaseOfStage /\ PhaseOfStage'
  BY PhasesOfStep
<1>0. UNCHANGED <<asked, issued, ran, done>>
  BY DEF MainLoop, UpdateEntry, ResumeWorker, ResetRx, SetTx, Await, JoinWorker
<1>1. CASE UNCHANGED RoundPhase
  BY <1>0, <1>1 DEF Contract!roundVars
<1>2. CASE RoundPhase = "round" /\ RoundPhase' = "failed"
  BY <1>0, <1>2 DEF Contract!RoundsNext, Contract!GiveUp
<1>3. CASE stage = "running" /\ call = "await" /\ Return(TRUE) /\ UNCHANGED stage
           /\ \A t \in Thread : rx[t]
  <2>1. RoundPhase = "round" /\ RoundPhase' = "idle"
    BY <1>3, <1>p DEF Return, InRoundCall
  <2>2. Pending = {}
    BY <1>3 DEF Pending, WorkerInv, InRound, Busy, Signalling, Parked, PoolTypeOK
  <2> QED
    BY <1>0, <2>1, <2>2 DEF Contract!RoundsNext, Contract!Complete, Pending
<1>4. CASE UpdateEntry \/ JoinWorker
  <2>1. CASE UpdateEntry
    BY <1>1, <1>p, <2>1
    DEF UpdateEntry, Advance, StartInv, EntriesInv, InRoundCall, PoolTypeOK, Stages
  <2>2. CASE JoinWorker
    BY <1>1, <1>p, <2>2 DEF JoinWorker, StartInv, PoolTypeOK, Stages
  <2> QED BY <1>4, <2>1, <2>2
<1>5. CASE (ResumeWorker \/ ResetRx \/ SetTx \/ Await) /\ stage = "running"
  <2>1. UNCHANGED stage /\ InRoundCall /\ EntriesInv
    BY <1>5 DEF ResumeWorker, ResetRx, SetTx, Await, InRoundCall
  <2>2. CASE Return(FALSE)
    BY <1>2, <1>5, <1>p, <2>1, <2>2 DEF Return, InRoundCall
  <2>3. CASE InRoundCall' /\ status'
    BY <1>1, <1>5, <1>p, <2>1, <2>3
  <2>4. CASE ~Await
    BY <1>5, <2>1, <2>2, <2>3, <2>4
    DEF ResumeWorker, ResetRx, SetTx, Advance, EntriesInv, InRoundCall
  <2>5. CASE Await
    BY <1>3, <1>5, <2>1, <2>2, <2>5 DEF Await
  <2> QED BY <2>4, <2>5
<1>6. CASE (ResumeWorker \/ ResetRx \/ SetTx \/ Await) /\ stage # "running"
  <2>1. stage = "stopped" /\ UNCHANGED stage
    BY <1>6 DEF ResumeWorker, ResetRx, SetTx, Await, StartInv, PoolTypeOK, Stages
  <2> QED BY <1>1, <1>p, <2>1
<1> QED
  BY <1>4, <1>5, <1>6 DEF MainLoop

\* Before anything is built the pool is idle, in the state the contract starts from.
LEMMA PoolStartsIdle == ASSUME PoolInit PROVE Contract!RoundsInit
<1>1. RoundPhase = "idle"
  BY DEF PoolInit, RoundPhase
<1>2. asked \in Jobs /\ {t \in Thread : ran[t] < issued} = {}
  BY DEF PoolInit
<1>3. done = [w \in Thread |-> asked]
  BY DEF PoolInit
<1> QED
  BY <1>1, <1>2, <1>3 DEF Contract!RoundsInit

\* Every step of the pool with its client is a step of the contract or invisible to it.
LEMMA StepRefines ==
  ASSUME RefinementInv, [PoolNext]_poolVars
  PROVE  Contract!RoundsNext \/ UNCHANGED Contract!roundVars
<1>1. RefinementInv'
  BY RefinementInvStep
<1>2. CASE UNCHANGED poolVars
  BY <1>2
  DEF poolVars, main, workers, history, Contract!roundVars, RoundPhase, InRoundCall
<1>3. ASSUME NEW t \in Thread, Worker(t)
      PROVE  Contract!RoundsNext \/ UNCHANGED Contract!roundVars
  BY <1>3, WorkerRefines DEF Contract!RoundsNext
<1> QED
  BY <1>1, <1>2, <1>3, ClientRefines, MainLoopRefines DEF PoolNext, Finished, RefinementInv, PoolInv

\* Two events per worker and no lock are as good as the contract: whatever calls fail
\* or time out and whenever the pool is deleted, every step of the pool is a step of
\* MeasurementRounds or invisible to it.
THEOREM PoolImplementsRounds == PoolSafety => ImplementsRounds
<1>1. PoolInit => Contract!RoundsInit
  BY PoolStartsIdle
<1>2. RefinementInv /\ [PoolNext]_poolVars => [Contract!RoundsNext]_Contract!roundVars
  BY StepRefines
<1> QED
  BY <1>1, <1>2, RefinementInvariance, PTL DEF PoolSafety, ImplementsRounds, Contract!RoundsSpec

====
