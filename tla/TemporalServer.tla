--------------------------- MODULE TemporalServer ---------------------------
(***************************************************************************)
(* The Temporal server and the activity attempts of its workers, as        *)
(* workflows.py, worker.py and api/reports.py use them (external to the    *)
(* repository).                                                            *)
(*                                                                         *)
(* Every report has one workflow id, so the server keeps one current run   *)
(* per report; starting a run terminates the one that is open.  The        *)
(* current run waits for one activity at a time, its step.  The server     *)
(* dispatches the step to a worker, where an attempt executes it.  When    *)
(* the start-to-close timeout passes, or the run is terminated, the server *)
(* stops waiting, but the code in the worker goes on until the SDK cancels *)
(* it or it ends by itself: activities send no heartbeat, so nothing tells *)
(* them.  An attempt that the server no longer waits for is late.          *)
(***************************************************************************)
EXTENDS ReportIds, Naturals, FiniteSets

CONSTANTS Activities,   \* the steps a run may wait for
          MaxAttempts,  \* maximum_attempts of the retry policies
          MaxLate       \* bound on late attempts

ASSUME MaxAttemptsAssumption == MaxAttempts \in Nat \ {0}
ASSUME MaxLateAssumption == MaxLate \in Nat

VARIABLES
  run,      \* the current run of each report
  attempts  \* the activity attempts executing in workers

temporalVars == <<run, attempts>>

\* A run fails with the error of an activity: when the failure is recorded in the
\* store, of the one that failed; otherwise of the one that should have recorded it.
Outcomes == {"completed", "failed", "failed_unrecorded"}

\* number: how many runs were started, 0 when none was; step: what the run waits
\* for, or how it closed; try: the attempt of the step; dispatched: a worker has
\* taken the task.
Runs == [number : Nat, step : Activities \cup Outcomes \cup {"none"}, try : 1..MaxAttempts,
         dispatched : BOOLEAN]

NoRun == [number |-> 0, step |-> "none", try |-> 1, dispatched |-> FALSE]

Open(r) == run[r].step \in Activities

\* The server waits for the result of this attempt.
IsCurrent(a) ==
  /\ run[a.report].dispatched
  /\ a.number = run[a.report].number
  /\ a.step = run[a.report].step
  /\ a.try = run[a.report].try

Late == {a \in attempts : ~IsCurrent(a)}

TemporalInit == run = [r \in Reports |-> NoRun] /\ attempts = {}
-----------------------------------------------------------------------------
\* What becomes of the attempts when the server stops waiting for one: the
\* worker cancels it at once or leaves it to finish late.  One that has nothing
\* left to do but report its result, which the server drops, is gone.
StopWaiting(r) ==
  \/ attempts' = {a \in attempts : a.report = r => ~IsCurrent(a)}
  \/ /\ \A a \in attempts : a.phase # "done" \/ a.report # r
     /\ attempts' = attempts
     /\ Cardinality(Late') <= MaxLate

Schedule(r, step) ==
  run' = [run EXCEPT ![r] = [@ EXCEPT !.step = step, !.try = 1, !.dispatched = FALSE]]

\* start_workflow with TERMINATE_IF_RUNNING.
StartRun(r, step) ==
  /\ run' = [run EXCEPT ![r] = [NoRun EXCEPT !.number = run[r].number + 1, !.step = step]]
  /\ StopWaiting(r)

\* A worker takes the task of the current step; fresh is the attempt.
Dispatch(r, fresh) ==
  /\ Open(r)
  /\ ~run[r].dispatched
  /\ run' = [run EXCEPT ![r].dispatched = TRUE]
  /\ attempts' = attempts \cup {fresh}

\* After a failed attempt the retry policy allows another one.
Retryable(r) == run[r].try < MaxAttempts

\* Mutant: the attempts are not counted.
Mut_UncountedRetry(r) == run' = [run EXCEPT ![r].dispatched = FALSE]

Retry(r) ==
  run' = [run EXCEPT ![r] = [@ EXCEPT !.try = run[r].try + 1, !.dispatched = FALSE]]
=============================================================================
