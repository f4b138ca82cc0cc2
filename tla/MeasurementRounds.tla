------------------------- MODULE MeasurementRounds -------------------------
(***************************************************************************)
(* What a benchmark needs of a worker pool, without events, loops or       *)
(* program counters: rounds. A round hands one job to every worker, every  *)
(* worker executes it exactly once, and the round is complete only when    *)
(* all have. The next round begins only after a complete one. A round may  *)
(* be given up; its workers may still execute its job, but no new round    *)
(* follows. ThreadsBuilder implements this contract.                       *)
(***************************************************************************)
CONSTANTS Workers, RoundJobs

VARIABLES
  phase,    \* "idle", "round", "failed" or "over"
  job,      \* the job of the current or last round
  pending,  \* the workers that have not executed it yet
  result    \* the job each worker executed last

roundVars == <<phase, job, pending, result>>

RoundsInit ==
  /\ phase = "idle" /\ job \in RoundJobs
  /\ pending = {} /\ result = [w \in Workers |-> job]

Begin(j) ==
  /\ phase = "idle"
  /\ phase' = "round" /\ job' = j /\ pending' = Workers
  /\ UNCHANGED result

Execute(w) ==
  /\ w \in pending
  /\ pending' = pending \ {w}
  /\ result' = [result EXCEPT ![w] = job]
  /\ UNCHANGED <<phase, job>>

Complete ==
  /\ phase = "round" /\ pending = {}
  /\ phase' = "idle"
  /\ UNCHANGED <<job, pending, result>>

GiveUp ==
  /\ phase = "round"
  /\ phase' = "failed"
  /\ UNCHANGED <<job, pending, result>>

Retire ==
  /\ phase \in {"idle", "failed"}
  /\ phase' = "over"
  /\ UNCHANGED <<job, pending, result>>

RoundsNext ==
  \/ \E j \in RoundJobs : Begin(j)
  \/ \E w \in Workers : Execute(w)
  \/ Complete \/ GiveUp \/ Retire

RoundsSpec == RoundsInit /\ [][RoundsNext]_roundVars
=============================================================================
