------------------------ MODULE TriageWorkflowProofs ------------------------
(***************************************************************************)
(* Proofs about the workflow and its activities, for every set of reports, *)
(* every content and every number of attempts.  The lemmas on steps do not *)
(* mention how the runs were started; TriageSystemProofs uses them for the *)
(* workflow beside the request handlers.                                   *)
(***************************************************************************)
EXTENDS TriageWorkflow, FiniteSetTheorems, TLAPS

-----------------------------------------------------------------------------
(* What the helpers return: types.                                         *)

LEMMA QueueType == \A r : Queue(r) \in Queues /\ Queue(r) # "none"
  BY DEF Queue, TriageResult, RouteToQueue, Queues

LEMMA ActivitiesDef ==
  Activities = {"load", "mark_processing", "classify", "score", "decide", "persist",
                "route", "publish", "mark_classified", "mark_failed"}
  BY ActivitiesAssumption

LEMMA NextStepType == \A s \in Activities : NextStep[s] \in Activities \cup Outcomes
  BY ActivitiesDef DEF NextStep, Outcomes

LEMMA ErrorStepType == \A s \in Activities : ErrorStep(s) \in Activities \cup Outcomes
  BY ActivitiesDef DEF ErrorStep, Outcomes

LEMMA MarkDef ==
  /\ MarkActivities = {"mark_processing", "mark_classified", "mark_failed"}
  /\ StatusWrites["mark_processing"] = "processing"
  /\ StatusWrites["mark_classified"] = "classified"
  /\ StatusWrites["mark_failed"] = "failed"
  BY DEF MarkActivities, StatusWrites

LEMMA ScheduleType ==
  ASSUME run \in [Reports -> Runs], NEW r \in Reports,
         NEW step \in Activities \cup Outcomes, Schedule(r, step)
  PROVE  run' \in [Reports -> Runs]
<1>1. 1 \in 1..MaxAttempts
  BY MaxAttemptsAssumption
<1>2. [run[r] EXCEPT !.step = step, !.try = 1, !.dispatched = FALSE] \in Runs
  BY <1>1 DEF Runs
<1> QED  BY <1>2 DEF Schedule

LEMMA RetryType ==
  ASSUME run \in [Reports -> Runs], NEW r \in Reports, Retryable(r), Retry(r)
  PROVE  run' \in [Reports -> Runs]
<1>1. run[r].try + 1 \in 1..MaxAttempts
  BY MaxAttemptsAssumption DEF Retryable, Runs
<1>2. [run[r] EXCEPT !.try = run[r].try + 1, !.dispatched = FALSE] \in Runs
  BY <1>1 DEF Runs
<1> QED  BY <1>2 DEF Retry

LEMMA StepFailsType ==
  ASSUME run \in [Reports -> Runs], NEW r \in Reports, Open(r),
         NEW retryable, StepFails(r, retryable)
  PROVE  run' \in [Reports -> Runs]
  BY RetryType, ScheduleType, ErrorStepType DEF StepFails, Open

LEMMA StopWaitingSubset ==
  ASSUME NEW r, StopWaiting(r)
  PROVE  attempts' \subseteq attempts
  BY DEF StopWaiting

LEMMA StartRunType ==
  ASSUME run \in [Reports -> Runs], NEW r \in Reports, StartRun(r, "load")
  PROVE  run' \in [Reports -> Runs]
<1>1. 1 \in 1..MaxAttempts
  BY MaxAttemptsAssumption
<1>2. run[r].number + 1 \in Nat
  BY DEF Runs
<1>3. [NoRun EXCEPT !.number = run[r].number + 1, !.step = "load"] \in Runs
  BY <1>1, <1>2, ActivitiesDef DEF Runs, NoRun
<1> QED  BY <1>3 DEF StartRun

LEMMA CurrentOpen ==
  ASSUME NEW a \in attempts, attempts \subseteq Attempts, IsCurrent(a)
  PROVE  Open(a.report) /\ a.report \in Reports
  BY DEF IsCurrent, Open, Attempts

LEMMA ProceedType ==
  ASSUME attempts \subseteq Attempts, NEW a \in attempts,
         NEW phase \in Phases, NEW seen \in Statuses \cup Rows, Proceed(a, phase, seen)
  PROVE  attempts' \subseteq Attempts
<1>1. [a EXCEPT !.phase = phase, !.seen = seen] \in Attempts
  BY DEF Attempts
<1> QED  BY <1>1 DEF Proceed

LEMMA UpdateStatusType ==
  ASSUME StoreTypeOK, NEW r \in Reports, NEW seen, NEW new \in Statuses,
         UpdateStatus(r, seen, new)
  PROVE  StoreTypeOK'
  BY DEF StoreTypeOK, UpdateStatus, OrmWrite

LEMMA UpsertType ==
  ASSUME StoreTypeOK, NEW r \in Reports, NEW seen, NEW queue \in Queues,
         UpsertClassification(r, seen, queue) \/ UpsertQueueItem(r, seen, queue)
  PROVE  StoreTypeOK'
  BY DEF StoreTypeOK, UpsertClassification, UpsertQueueItem, OrmWrite, Rows

LEMMA PublishType ==
  ASSUME StreamTypeOK, NEW r \in Reports, NEW subject \in Subjects, Publish(subject, r)
  PROVE  StreamTypeOK'
<1> DEFINE m == [subject |-> subject, report |-> r]
<1>1. m \in Messages
  BY DEF Messages
<1>2. Append(stream, m) \in Seq(Messages) /\ Len(Append(stream, m)) = Len(stream) + 1
  BY <1>1 DEF StreamTypeOK
<1> QED  BY <1>2 DEF StreamTypeOK, Publish

-----------------------------------------------------------------------------
(* Type correctness. *)

\* An attempt's step keeps the types, whichever attempt and action it is.
LEMMA AttemptStepType ==
  ASSUME WorkflowTypeOK, NEW a \in attempts, AttemptStep(a)
  PROVE  WorkflowTypeOK'
<1> USE DEF WorkflowTypeOK
<1>1. /\ a.report \in Reports /\ a.seen \in Statuses \cup Rows /\ a \in Attempts
      /\ a.step \in Activities
  BY DEF Attempts
<1>2. "none" \in Statuses \cup Rows /\ "read" \in Phases /\ "announced" \in Phases /\ "done" \in Phases
  BY DEF Rows, Phases
<1>3. CASE LoadReportRow(a)
  BY <1>1, <1>2, <1>3, ProceedType
     DEF LoadReportRow, Proceed, storeVars, streamVars, StoreTypeOK, StreamTypeOK
<1>4. CASE ReadRow(a)
  <2>1. Exists(a.report) => status[a.report] \in Statuses \cup Rows
    BY <1>1 DEF StoreTypeOK, Exists
  <2>2. classification[a.report] \in Statuses \cup Rows /\ queueItem[a.report] \in Statuses \cup Rows
    BY <1>1 DEF StoreTypeOK
  <2> QED
    BY <1>2, <1>4, <2>1, <2>2, ProceedType
       DEF ReadRow, Proceed, storeVars, streamVars, StoreTypeOK, StreamTypeOK
<1>5. CASE MarkStatus(a)
  <2>1. StatusWrites[a.step] \in Statuses
    BY <1>5, MarkDef DEF MarkStatus, Statuses
  <2> QED
    BY <1>1, <1>2, <1>5, <2>1, UpdateStatusType, ProceedType
       DEF MarkStatus, Proceed, streamVars, StreamTypeOK
<1>6. CASE PersistClassification(a) \/ RouteQueue(a)
  BY <1>1, <1>2, <1>6, QueueType, UpsertType, ProceedType
     DEF PersistClassification, RouteQueue, Proceed, streamVars, StreamTypeOK
<1>7. CASE PublishTriaged(a) \/ PublishRouted(a)
  <2>1. "triaged" \in Subjects /\ "routed" \in Subjects
    BY DEF Subjects
  <2> QED
    BY <1>1, <1>2, <1>7, <2>1, PublishType, ProceedType
       DEF PublishTriaged, PublishRouted, Proceed, storeVars, StoreTypeOK
<1>8. CASE Return(a)
  BY <1>1, <1>8, NextStepType, ScheduleType
     DEF Return, storeVars, streamVars, StoreTypeOK, StreamTypeOK
<1>9. CASE Raise(a)
  <2>1. run' \in [Reports -> Runs]
    BY <1>1, <1>9, CurrentOpen, StepFailsType DEF Raise
  <2> QED
    BY <1>9, <2>1 DEF Raise, storeVars, streamVars, StoreTypeOK, StreamTypeOK
<1>10. CASE Vanish(a)
  BY <1>10 DEF Vanish, storeVars, streamVars, StoreTypeOK, StreamTypeOK
<1> QED
  BY <1>3, <1>4, <1>5, <1>6, <1>7, <1>8, <1>9, <1>10 DEF AttemptStep

LEMMA WorkflowStepType ==
  ASSUME WorkflowTypeOK, WorkflowNext
  PROVE  WorkflowTypeOK'
<1> USE DEF WorkflowTypeOK
<1>1. ASSUME NEW r \in Reports, BeginActivity(r)  PROVE WorkflowTypeOK'
  <2> DEFINE fresh == [report |-> r, number |-> run[r].number, step |-> run[r].step,
                       try |-> run[r].try, seen |-> "none",
                       phase |-> IF run[r].step \in PureActivities THEN "done" ELSE "start"]
  <2>1. run[r] \in Runs /\ run[r].step \in Activities
    BY <1>1 DEF BeginActivity, Dispatch, Open
  <2>2. fresh \in Attempts
    BY <2>1 DEF Attempts, Runs, Phases, Rows
  <2>3. attempts' = attempts \cup {fresh}
    BY <1>1 DEF BeginActivity, Dispatch
  <2>4. run' \in [Reports -> Runs]
    <3>1. [run[r] EXCEPT !.dispatched = TRUE] \in Runs
      BY <2>1 DEF Runs
    <3> QED  BY <1>1, <3>1 DEF BeginActivity, Dispatch
  <2> QED
    BY <1>1, <2>2, <2>3, <2>4
       DEF BeginActivity, storeVars, streamVars, StoreTypeOK, StreamTypeOK
<1>2. ASSUME NEW r \in Reports, Timeout(r)  PROVE WorkflowTypeOK'
  BY <1>2, StepFailsType, StopWaitingSubset
     DEF Timeout, storeVars, streamVars, StoreTypeOK, StreamTypeOK
<1>3. ASSUME NEW a \in attempts, AttemptStep(a)  PROVE WorkflowTypeOK'
  BY <1>3, AttemptStepType
<1>4. ASSUME WindowStep  PROVE WorkflowTypeOK'
  BY <1>4 DEF WindowStep, ForgetOldest, storeVars, temporalVars, StoreTypeOK, StreamTypeOK
<1> QED  BY <1>1, <1>2, <1>3, <1>4 DEF WorkflowNext
-----------------------------------------------------------------------------
(* What a step does to the run of a report.                                *)

LEMMA ScheduleEffect ==
  ASSUME run \in [Reports -> Runs], NEW r \in Reports, NEW step, Schedule(r, step)
  PROVE  /\ run'[r].step = step /\ run'[r].dispatched = FALSE
         /\ run'[r].number = run[r].number
         /\ \A q \in Reports \ {r} : run'[q] = run[q]
  BY DEF Schedule, Runs

LEMMA StepFailsEffects ==
  ASSUME run \in [Reports -> Runs], NEW r \in Reports, NEW retryable, StepFails(r, retryable)
  PROVE  /\ run'[r].step \in {run[r].step, ErrorStep(run[r].step)} /\ run'[r].dispatched = FALSE
         /\ run'[r].number = run[r].number
         /\ \A q \in Reports \ {r} : run'[q] = run[q]
<1>1. CASE Retry(r)
  <2>1. /\ run'[r].step = run[r].step /\ run'[r].dispatched = FALSE
        /\ run'[r].number = run[r].number
        /\ \A q \in Reports \ {r} : run'[q] = run[q]
    BY <1>1 DEF Retry, Runs
  <2> QED  BY <2>1
<1>2. CASE Schedule(r, ErrorStep(run[r].step))
  BY <1>2, ScheduleEffect
<1> QED  BY <1>1, <1>2 DEF StepFails

LEMMA StartRunEffect ==
  ASSUME run \in [Reports -> Runs], NEW r \in Reports, StartRun(r, "load")
  PROVE  /\ run'[r].step = "load" /\ run'[r].dispatched = FALSE
         /\ run'[r].number = run[r].number + 1
         /\ \A q \in Reports \ {r} : run'[q] = run[q]
  BY DEF StartRun, NoRun, Runs

LEMMA DispatchEffect ==
  ASSUME run \in [Reports -> Runs], NEW r \in Reports, NEW fresh, Dispatch(r, fresh)
  PROVE  /\ run'[r].step = run[r].step /\ run'[r].number = run[r].number
         /\ run'[r].try = run[r].try /\ run'[r].dispatched = TRUE
         /\ \A q \in Reports \ {r} : run'[q] = run[q]
  BY DEF Dispatch, Runs

\* Only start_workflow starts a run.
LEMMA NumbersStay ==
  ASSUME WorkflowTypeOK, WorkflowNext
  PROVE  \A r \in Reports : run'[r].number = run[r].number
<1>1. run \in [Reports -> Runs] /\ \A a \in attempts : a.report \in Reports
  BY DEF WorkflowTypeOK, Attempts
<1>2. ASSUME NEW q \in Reports, BeginActivity(q)
      PROVE  \A r \in Reports : run'[r].number = run[r].number
  BY <1>1, <1>2, DispatchEffect DEF BeginActivity
<1>3. ASSUME NEW q \in Reports, Timeout(q)
      PROVE  \A r \in Reports : run'[r].number = run[r].number
  BY <1>1, <1>3, StepFailsEffects DEF Timeout
<1>4. ASSUME NEW a \in attempts, AttemptStep(a)
      PROVE  \A r \in Reports : run'[r].number = run[r].number
  <2>1. CASE Return(a)
    BY <1>1, <2>1, ScheduleEffect DEF Return
  <2>2. CASE Raise(a)
    BY <1>1, <2>2, StepFailsEffects DEF Raise
  <2>3. CASE run' = run
    BY <2>3
  <2> QED
    BY <1>4, <2>1, <2>2, <2>3
       DEF AttemptStep, LoadReportRow, ReadRow, MarkStatus, PersistClassification, RouteQueue,
           PublishTriaged, PublishRouted, Vanish, Proceed
<1> QED  BY <1>2, <1>3, <1>4 DEF WorkflowNext, WindowStep, temporalVars
-----------------------------------------------------------------------------
(* Attempts are told apart by their task.  A run only moves forward: to a  *)
(* later step, or to another try of the same one.  So an attempt that the  *)
(* server has given up is behind its run for good, and no two attempts     *)
(* execute the same task.                                                  *)

Rank ==
  [s \in Activities \cup Outcomes \cup {"none"} |->
     CASE s = "none" -> 0        [] s = "load" -> 1      [] s = "mark_processing" -> 2
       [] s = "classify" -> 3    [] s = "score" -> 4     [] s = "decide" -> 5
       [] s = "persist" -> 6     [] s = "route" -> 7     [] s = "publish" -> 8
       [] s = "mark_classified" -> 9 [] s = "mark_failed" -> 10 [] OTHER -> 11]

\* Task (n, s, t) comes before task (m, u, v) of the same report.
Before(n, s, t, m, u, v) == n < m \/ (n = m /\ (Rank[s] < Rank[u] \/ (s = u /\ t < v)))

SameTask(a, b) == a.report = b.report /\ a.number = b.number /\ a.step = b.step /\ a.try = b.try

BehindRun(a) ==
  \/ Before(a.number, a.step, a.try, run[a.report].number, run[a.report].step, run[a.report].try)
  \/ IsCurrent(a)

TasksInv ==
  /\ \A a \in attempts : BehindRun(a)
  /\ \A a, b \in attempts : SameTask(a, b) => a = b

LEMMA Ranks ==
  /\ \A s \in Activities \cup Outcomes \cup {"none"} : Rank[s] \in Nat
  /\ \A s \in Activities : Rank[s] < Rank[NextStep[s]] /\ Rank[s] < Rank[ErrorStep(s)]
<1>1. \A s \in Activities \cup Outcomes \cup {"none"} : Rank[s] \in 0..11
  BY ActivitiesDef DEF Rank, Outcomes
<1>2. \A s \in Activities : Rank[s] < Rank[NextStep[s]]
  BY ActivitiesDef, NextStepType DEF Rank, NextStep, Outcomes
<1>3. \A s \in Activities : Rank[s] < Rank[ErrorStep(s)]
  BY ActivitiesDef, ErrorStepType DEF Rank, ErrorStep, Outcomes
<1> QED  BY <1>1, <1>2, <1>3

\* An attempt that is before a task of its run is not the one the server waits for.
LEMMA BeforeIsLate ==
  ASSUME NEW a \in Attempts, run \in [Reports -> Runs],
         Before(a.number, a.step, a.try,
                run[a.report].number, run[a.report].step, run[a.report].try)
  PROVE  ~IsCurrent(a)
<1>1. /\ a.report \in Reports /\ a.number \in Nat /\ a.try \in Nat
      /\ a.step \in Activities /\ Rank[a.step] \in Nat
  BY Ranks DEF Attempts
<1> QED  BY <1>1 DEF Before, IsCurrent

\* A run that moves on to a later task leaves all its attempts behind.
LEMMA MovedOn ==
  ASSUME WorkflowTypeOK, TasksInv, run' \in [Reports -> Runs], NEW r \in Reports,
         \/ run'[r].number = run[r].number + 1
         \/ /\ run'[r].number = run[r].number
            /\ \/ Rank[run[r].step] < Rank[run'[r].step]
               \/ run'[r].step = run[r].step /\ run'[r].try = run[r].try + 1
  PROVE  \A a \in attempts : a.report = r =>
           Before(a.number, a.step, a.try, run'[r].number, run'[r].step, run'[r].try)
<1> SUFFICES ASSUME NEW a \in attempts, a.report = r
             PROVE  Before(a.number, a.step, a.try, run'[r].number, run'[r].step, run'[r].try)
  OBVIOUS
<1>1. /\ a.number \in Nat /\ a.try \in Nat /\ Rank[a.step] \in Nat
      /\ run[r].number \in Nat /\ run[r].try \in Nat /\ Rank[run[r].step] \in Nat
      /\ run'[r].number \in Nat /\ run'[r].try \in Nat /\ Rank[run'[r].step] \in Nat
  BY Ranks DEF WorkflowTypeOK, Attempts, Runs
<1>2. /\ a.number <= run[r].number
      /\ a.number = run[r].number => \/ Rank[a.step] < Rank[run[r].step]
                                     \/ a.step = run[r].step /\ a.try <= run[r].try
  BY <1>1 DEF TasksInv, BehindRun, Before, IsCurrent
<1> QED  BY <1>1, <1>2 DEF Before
-----------------------------------------------------------------------------
(* Steps that keep this.                                                   *)

\* Attempts disappear and the run of r moves on, or nothing moves.
LEMMA TasksLeft ==
  ASSUME WorkflowTypeOK, TasksInv, run' \in [Reports -> Runs], attempts' \subseteq attempts,
         NEW r \in Reports, \A q \in Reports \ {r} : run'[q] = run[q],
         \/ run'[r] = run[r]
         \/ run'[r].number = run[r].number + 1
         \/ /\ run'[r].number = run[r].number
            /\ \/ Rank[run[r].step] < Rank[run'[r].step]
               \/ run'[r].step = run[r].step /\ run'[r].try = run[r].try + 1
  PROVE  TasksInv'
<1>1. ASSUME NEW a \in attempts'  PROVE BehindRun(a)'
  <2>1. a \in attempts /\ a.report \in Reports
    BY <1>1 DEF WorkflowTypeOK, Attempts
  <2>2. CASE run'[a.report] = run[a.report]
    BY <2>1, <2>2 DEF TasksInv, BehindRun, IsCurrent
  <2>3. CASE run'[a.report] # run[a.report]
    BY <2>1, <2>3, MovedOn DEF BehindRun
  <2> QED  BY <2>2, <2>3
<1>2. \A a, b \in attempts' : SameTask(a, b) => a = b
  BY DEF TasksInv
<1> QED  BY <1>1, <1>2 DEF TasksInv, SameTask

\* An attempt moves on: its place is taken by one of the same task.
LEMMA ProceedTasks ==
  ASSUME WorkflowTypeOK, TasksInv, NEW a \in attempts, NEW phase, NEW seen,
         Proceed(a, phase, seen)
  PROVE  /\ TasksInv'
         /\ \A b \in attempts' :
              \/ b \in attempts \ {a}
              \/ SameTask(a, b) /\ b.phase = phase /\ b.seen = seen
<1> PICK moved : moved = [a EXCEPT !.phase = phase, !.seen = seen]
  OBVIOUS
<1>1. SameTask(a, moved) /\ moved.phase = phase /\ moved.seen = seen
  BY DEF WorkflowTypeOK, Attempts, SameTask
<1>2. attempts' \subseteq (attempts \ {a}) \cup {moved} /\ run' = run
  BY DEF Proceed
<1>3. ASSUME NEW b \in attempts'  PROVE BehindRun(b)'
  <2>1. b \in attempts \/ b = moved
    BY <1>2
  <2>2. BehindRun(b)
    <3>1. BehindRun(a) /\ \A e \in attempts : BehindRun(e)
      BY DEF TasksInv
    <3>2. /\ moved.report = a.report /\ moved.number = a.number
          /\ moved.step = a.step /\ moved.try = a.try
      BY <1>1 DEF SameTask
    <3>3. IsCurrent(a) => IsCurrent(moved)
      BY <3>2, Zenon DEF IsCurrent
    <3>4. BehindRun(moved)
      BY <3>1, <3>2, <3>3, Zenon DEF BehindRun
    <3> QED  BY <2>1, <3>1, <3>4
  <2> QED  BY <1>2, <2>2 DEF BehindRun, IsCurrent
<1>4. ASSUME NEW b \in attempts', NEW d \in attempts', SameTask(b, d)  PROVE b = d
  <2>1. \A e \in attempts \ {a} : ~SameTask(e, moved) /\ ~SameTask(moved, e)
    BY <1>1 DEF TasksInv, SameTask
  <2> QED  BY <1>2, <1>4, <2>1 DEF TasksInv
<1>5. \A b, d : SameTask(b, d)' = SameTask(b, d)
  BY DEF SameTask
<1> QED  BY <1>1, <1>2, <1>3, <1>4, <1>5 DEF TasksInv

\* What failing does to the task a run waits for.
LEMMA FailureMovesOn ==
  ASSUME run \in [Reports -> Runs], NEW r \in Reports, Open(r), NEW retryable,
         StepFails(r, retryable)
  PROVE  /\ run'[r].number = run[r].number
         /\ \/ Rank[run[r].step] < Rank[run'[r].step]
            \/ run'[r].step = run[r].step /\ run'[r].try = run[r].try + 1
<1>1. CASE Retry(r)
  <2>1. /\ run'[r].number = run[r].number
        /\ run'[r].step = run[r].step /\ run'[r].try = run[r].try + 1
    BY <1>1 DEF Retry, Runs
  <2> QED  BY <2>1
<1>2. CASE Schedule(r, ErrorStep(run[r].step))
  BY <1>2, ScheduleEffect, Ranks DEF Open
<1> QED  BY <1>1, <1>2 DEF StepFails

LEMMA DispatchTasks ==
  ASSUME WorkflowTypeOK, TasksInv, NEW r \in Reports, BeginActivity(r)
  PROVE  /\ TasksInv'
         /\ \A a \in attempts' : \/ a \in attempts /\ (IsCurrent(a)' => IsCurrent(a))
                                 \/ a.phase = "start"
                                 \/ a.phase = "done" /\ a.step \in PureActivities
<1> PICK fresh :
      fresh = [report |-> r, number |-> run[r].number, step |-> run[r].step,
               try |-> run[r].try, seen |-> "none",
               phase |-> IF run[r].step \in PureActivities THEN "done" ELSE "start"]
  OBVIOUS
<1>1. /\ attempts' = attempts \cup {fresh} /\ ~run[r].dispatched
      /\ run' = [run EXCEPT ![r].dispatched = TRUE] /\ run \in [Reports -> Runs]
      /\ Dispatch(r, fresh)
  BY DEF BeginActivity, Dispatch, WorkflowTypeOK
<1>2. /\ run'[r].number = run[r].number /\ run'[r].step = run[r].step
      /\ run'[r].try = run[r].try /\ run'[r].dispatched
      /\ \A q \in Reports \ {r} : run'[q] = run[q]
  BY <1>1, DispatchEffect
<1>3. /\ fresh.report = r /\ fresh.number = run[r].number /\ fresh.step = run[r].step
      /\ fresh.try = run[r].try
      /\ fresh.phase = "start" \/ (fresh.phase = "done" /\ fresh.step \in PureActivities)
  OBVIOUS
<1>4. \A a \in attempts : a.report \in Reports /\ a \in Attempts
  BY DEF WorkflowTypeOK, Attempts
<1>5. ASSUME NEW a \in attempts, a.report = r
      PROVE  /\ Before(a.number, a.step, a.try, run[r].number, run[r].step, run[r].try)
             /\ ~(a.number = run[r].number /\ a.step = run[r].step /\ a.try = run[r].try)
  <2>1. ~IsCurrent(a)
    BY <1>1, <1>5 DEF IsCurrent
  <2>2. Before(a.number, a.step, a.try, run[r].number, run[r].step, run[r].try)
    BY <1>5, <2>1 DEF TasksInv, BehindRun
  <2>3. a.number \in Nat /\ a.try \in Nat /\ Rank[a.step] \in Nat
    BY <1>4, Ranks DEF Attempts
  <2> QED  BY <2>2, <2>3 DEF Before
<1>6. ASSUME NEW a \in attempts
      PROVE  BehindRun(a)' /\ (IsCurrent(a)' => IsCurrent(a)) /\ ~SameTask(a, fresh)
                           /\ ~SameTask(fresh, a)
  <2>1. CASE a.report = r
    BY <1>2, <1>3, <1>5, <2>1 DEF BehindRun, IsCurrent, SameTask
  <2>2. CASE a.report # r
    BY <1>2, <1>3, <1>4, <2>2 DEF TasksInv, BehindRun, IsCurrent, SameTask
  <2> QED  BY <2>1, <2>2
<1>7. BehindRun(fresh)'
  BY <1>2, <1>3 DEF BehindRun, IsCurrent
<1>8. \A b, d : SameTask(b, d)' = SameTask(b, d)
  BY DEF SameTask
<1> QED  BY <1>1, <1>3, <1>6, <1>7, <1>8 DEF TasksInv

LEMMA WorkflowTasks ==
  ASSUME WorkflowTypeOK, TasksInv, WorkflowNext
  PROVE  TasksInv'
<1>1. run \in [Reports -> Runs] /\ run' \in [Reports -> Runs]
  BY WorkflowStepType DEF WorkflowTypeOK
<1>2. ASSUME NEW r \in Reports, Timeout(r)  PROVE TasksInv'
  <2>1. /\ Open(r) /\ StepFails(r, TRUE) /\ attempts' \subseteq attempts
    BY <1>2, StopWaitingSubset DEF Timeout
  <2> QED  BY <1>1, <2>1, FailureMovesOn, StepFailsEffects, TasksLeft
<1>3. ASSUME NEW a \in attempts, AttemptStep(a)  PROVE TasksInv'
  <2>1. a.report \in Reports /\ a.step \in Activities
    BY DEF WorkflowTypeOK, Attempts
  <2>2. CASE \E phase, seen : Proceed(a, phase, seen)
    BY <2>2, ProceedTasks
  <2>3. CASE Return(a)
    <3>1. /\ attempts' \subseteq attempts /\ run[a.report].step = a.step
          /\ Schedule(a.report, NextStep[a.step])
      BY <2>3 DEF Return, IsCurrent
    <3>2. /\ run'[a.report].number = run[a.report].number
          /\ run'[a.report].step = NextStep[a.step]
          /\ \A q \in Reports \ {a.report} : run'[q] = run[q]
      BY <1>1, <2>1, <3>1, ScheduleEffect
    <3>3. Rank[run[a.report].step] < Rank[run'[a.report].step]
      BY <2>1, <3>1, <3>2, Ranks
    <3> QED  BY <1>1, <2>1, <3>1, <3>2, <3>3, TasksLeft
  <2>4. CASE Raise(a) /\ IsCurrent(a)
    <3>1. attempts' \subseteq attempts /\ Open(a.report) /\ \E b \in BOOLEAN : StepFails(a.report, b)
      BY <2>1, <2>4 DEF Raise, IsCurrent, Open
    <3> QED  BY <1>1, <2>1, <3>1, FailureMovesOn, StepFailsEffects, TasksLeft
  <2>5. CASE attempts' \subseteq attempts /\ run' = run
    BY <1>1, <2>1, <2>5, TasksLeft
  <2> QED
    BY <1>3, <2>2, <2>3, <2>4, <2>5
       DEF AttemptStep, LoadReportRow, ReadRow, MarkStatus, PersistClassification, RouteQueue,
           PublishTriaged, PublishRouted, Raise, Vanish
<1>4. ASSUME WindowStep  PROVE TasksInv'
  BY <1>4 DEF WindowStep, temporalVars, TasksInv, BehindRun, IsCurrent, SameTask
<1> QED  BY <1>2, <1>3, <1>4, DispatchTasks DEF WorkflowNext
-----------------------------------------------------------------------------
(* The status follows the run.  The attempt that the server waits for and  *)
(* that marks the status of r has read it as it is, and has written it     *)
(* once it is done; a closed run left the status of its outcome.           *)

StatusFollows(r) ==
  /\ \A a \in attempts : a.report = r /\ a.step \in MarkActivities /\ IsCurrent(a) =>
       /\ a.phase # "announced"
       /\ a.phase = "read" => a.seen = status[r]
       /\ a.phase = "done" => status[r] = StatusWrites[a.step]
  /\ run[r].step = "completed" => status[r] = "classified"
  /\ run[r].step = "failed" => status[r] = "failed"

\* What a step may do to the status, the run and the attempts of r, in the terms
\* of StatusFollows.
FollowedBy(r) ==
  /\ \A b \in attempts' : b.report = r /\ b.step \in MarkActivities /\ IsCurrent(b)' =>
       \/ b \in attempts /\ IsCurrent(b) /\ status'[r] = status[r]
       \/ /\ b.phase # "announced"
          /\ b.phase = "read" => b.seen = status'[r]
          /\ b.phase = "done" => status'[r] = StatusWrites[b.step]
  /\ run'[r].step \in {"completed", "failed"} =>
       /\ status'[r] = status[r]
       /\ \/ run'[r].step = run[r].step
          \/ \E a \in attempts : /\ a.report = r /\ a.step \in MarkActivities /\ a.phase = "done"
                                 /\ IsCurrent(a) /\ run'[r].step = NextStep[a.step]

LEMMA FollowsStep ==
  ASSUME NEW r, StatusFollows(r), FollowedBy(r)
  PROVE  StatusFollows(r)'
<1>1. /\ NextStep["mark_processing"] = "classify"
      /\ NextStep["mark_classified"] = "completed"
      /\ NextStep["mark_failed"] = "failed"
  BY DEF NextStep
<1>2. run'[r].step = "completed" => status'[r] = "classified"
  BY <1>1, MarkDef DEF StatusFollows, FollowedBy
<1>3. run'[r].step = "failed" => status'[r] = "failed"
  BY <1>1, MarkDef DEF StatusFollows, FollowedBy
<1>4. ASSUME NEW b \in attempts', b.report = r, b.step \in MarkActivities, IsCurrent(b)'
      PROVE  /\ b.phase # "announced"
             /\ b.phase = "read" => b.seen = status'[r]
             /\ b.phase = "done" => status'[r] = StatusWrites[b.step]
  BY <1>4 DEF StatusFollows, FollowedBy
<1> QED  BY <1>2, <1>3, <1>4 DEF StatusFollows

\* Steps after which a run is not closed.
LEMMA GoesOn ==
  /\ \A s \in Activities : ErrorStep(s) \notin {"completed", "failed"}
  /\ \A s \in Activities : NextStep[s] \in {"completed", "failed"} => s \in MarkActivities
  /\ \A s \in Activities : s \notin {"completed", "failed"}
<1>1. \A s \in Activities : ErrorStep(s) \notin {"completed", "failed"}
  BY ActivitiesDef DEF ErrorStep
<1>2. \A s \in Activities : NextStep[s] \in {"completed", "failed"} => s \in MarkActivities
  BY ActivitiesDef, MarkDef DEF NextStep
<1> QED  BY <1>1, <1>2, ActivitiesDef

\* An attempt of a report whose run does not change is as current as it was.
LEMMA CurrentStays ==
  ASSUME NEW a, run'[a.report] = run[a.report]
  PROVE  IsCurrent(a)' <=> IsCurrent(a)
  BY DEF IsCurrent

\* Attempts may end and the run of q goes on to a step that closes it only after a
\* mark; nothing else changes.
LEMMA LeftFollows ==
  ASSUME NEW r \in Reports, attempts' \subseteq attempts, status' = status, NEW q \in Reports,
         \A p \in Reports \ {q} : run'[p] = run[p],
         \/ run'[q] = run[q]
         \/ /\ run'[q].dispatched = FALSE
            /\ run'[q].step \in {"completed", "failed"} =>
                 \E a \in attempts : /\ a.report = q /\ a.step \in MarkActivities
                                     /\ a.phase = "done" /\ IsCurrent(a)
                                     /\ run'[q].step = NextStep[a.step]
  PROVE  FollowedBy(r)
<1>1. CASE run'[r] = run[r]
  <2>1. \A b \in attempts' : b.report = r => b \in attempts /\ (IsCurrent(b)' => IsCurrent(b))
    BY <1>1, CurrentStays
  <2> QED  BY <1>1, <2>1 DEF FollowedBy
<1>2. CASE run'[r] # run[r]
  <2>1. q = r
    BY <1>2
  <2>2. \A b \in attempts' : b.report = r => ~IsCurrent(b)'
    BY <1>2, <2>1 DEF IsCurrent
  <2> QED  BY <1>2, <2>1, <2>2 DEF FollowedBy
<1> QED  BY <1>1, <1>2

\* An attempt moves on.  It may change the status of its report if the server waits
\* for it: then no other attempt of the report is current.
LEMMA ProceedFollows ==
  ASSUME WorkflowTypeOK, TasksInv, NEW a \in attempts, NEW phase, NEW seen,
         Proceed(a, phase, seen), NEW r \in Reports,
         a.report # r \/ ~IsCurrent(a) => status'[r] = status[r],
         a.report = r /\ a.step \in MarkActivities =>
           /\ phase # "announced"
           /\ phase = "read" => seen = status'[r]
           /\ phase = "done" => status'[r] = StatusWrites[a.step],
         a.step \notin MarkActivities => status'[r] = status[r]
  PROVE  FollowedBy(r)
<1>1. run' = run
  BY DEF Proceed
<1>2. \A b : IsCurrent(b)' <=> IsCurrent(b)
  BY <1>1 DEF IsCurrent
<1>3. ASSUME NEW b \in attempts', b.report = r, b.step \in MarkActivities, IsCurrent(b)
      PROVE  \/ b \in attempts /\ status'[r] = status[r]
             \/ /\ b.phase # "announced"
                /\ b.phase = "read" => b.seen = status'[r]
                /\ b.phase = "done" => status'[r] = StatusWrites[b.step]
  <2>1. CASE b \in attempts \ {a}
    <3>1. a.report = r => ~IsCurrent(a)
      BY <1>3, <2>1 DEF TasksInv, SameTask, IsCurrent
    <3> QED  BY <2>1, <3>1
  <2>2. CASE SameTask(a, b) /\ b.phase = phase /\ b.seen = seen
    BY <1>3, <2>2 DEF SameTask
  <2> QED  BY <1>3, <2>1, <2>2, ProceedTasks
<1>4. run[r].step \in {"completed", "failed"} => status'[r] = status[r]
  <2>1. a.step \in Activities
    BY DEF WorkflowTypeOK, Attempts
  <2>2. a.report = r /\ IsCurrent(a) => run[r].step \notin {"completed", "failed"}
    BY <2>1, GoesOn DEF IsCurrent
  <2> QED  BY <2>2
<1> QED  BY <1>1, <1>2, <1>3, <1>4 DEF FollowedBy

\* No attempt that the server has given up on changes the status of r.
NoLateWrite(r) ==
  \A a \in attempts : a.report = r /\ ~IsCurrent(a) /\ MarkStatus(a) => status' = status

LEMMA AttemptFollows ==
  ASSUME WorkflowTypeOK, TasksInv, NEW a \in attempts, AttemptStep(a),
         NEW r \in Reports, NoLateWrite(r), StatusFollows(r)
  PROVE  FollowedBy(r)
<1>1. /\ run \in [Reports -> Runs] /\ a.report \in Reports /\ a.step \in Activities
      /\ status \in [Reports -> Statuses \cup {"absent"}]
  BY DEF WorkflowTypeOK, StoreTypeOK, Attempts
<1>2. MarkActivities = {"mark_processing", "mark_classified", "mark_failed"}
  BY MarkDef
<1>3. CASE LoadReportRow(a)
  BY <1>2, <1>3, ProceedFollows DEF LoadReportRow, storeVars
<1>4. CASE ReadRow(a)
  <2>1. status' = status
    BY <1>4 DEF ReadRow, storeVars
  <2>2. CASE a.step \in MarkActivities /\ Proceed(a, "read", status[a.report])
    BY <2>1, <2>2, ProceedFollows
  <2>3. CASE a.step \notin MarkActivities /\ \E seen : Proceed(a, "read", seen)
    BY <2>1, <2>3, ProceedFollows
  <2> QED  BY <1>2, <1>4, <2>2, <2>3 DEF ReadRow
<1>5. CASE MarkStatus(a)
  <2>1. /\ a.phase = "read" /\ a.step \in MarkActivities /\ Proceed(a, "done", "none")
        /\ status' = OrmWrite(status, a.report, a.seen, StatusWrites[a.step])
    BY <1>5 DEF MarkStatus, UpdateStatus
  <2>2. a.report # r => status'[r] = status[r]
    BY <1>1, <2>1 DEF OrmWrite
  <2>3. CASE a.report = r /\ IsCurrent(a)
    <3>1. status'[r] = StatusWrites[a.step]
      BY <1>1, <2>1, <2>3 DEF OrmWrite, StatusFollows
    <3> QED  BY <2>1, <2>3, <3>1, ProceedFollows
  <2>4. CASE a.report = r /\ ~IsCurrent(a)
    <3>1. status' = status
      BY <1>5, <2>4 DEF NoLateWrite
    <3>2. attempts' \subseteq attempts /\ run' = run
      BY <2>1, <2>4 DEF Proceed
    <3> QED  BY <1>1, <3>1, <3>2, LeftFollows
  <2>5. CASE a.report # r
    BY <2>1, <2>2, <2>5, ProceedFollows
  <2> QED  BY <2>3, <2>4, <2>5
<1>6. CASE PersistClassification(a) \/ RouteQueue(a)
  <2>1. a.step \notin MarkActivities /\ status' = status /\ Proceed(a, "done", "none")
    BY <1>2, <1>6 DEF PersistClassification, RouteQueue, UpsertClassification, UpsertQueueItem
  <2> QED  BY <2>1, ProceedFollows
<1>7. CASE PublishTriaged(a)
  <2>1. a.step \notin MarkActivities /\ status' = status /\ Proceed(a, "announced", "none")
    BY <1>2, <1>7 DEF PublishTriaged, storeVars
  <2> QED  BY <2>1, ProceedFollows
<1>8. CASE PublishRouted(a)
  <2>1. a.phase = "announced" /\ status' = status /\ Proceed(a, "done", "none")
    BY <1>8 DEF PublishRouted, storeVars
  <2>2. CASE ~IsCurrent(a)
    <3>1. attempts' \subseteq attempts /\ run' = run
      BY <2>1, <2>2 DEF Proceed
    <3> QED  BY <1>1, <2>1, <3>1, LeftFollows
  <2>3. CASE IsCurrent(a)
    <3>1. a.report = r => a.step \notin MarkActivities
      BY <2>1, <2>3 DEF StatusFollows
    <3> QED  BY <2>1, <3>1, ProceedFollows
  <2> QED  BY <2>2, <2>3
<1>9. CASE Return(a)
  <2>1. /\ a.phase = "done" /\ IsCurrent(a) /\ attempts' \subseteq attempts /\ status' = status
        /\ Schedule(a.report, NextStep[a.step])
    BY <1>9 DEF Return, storeVars
  <2>2. /\ run'[a.report].step = NextStep[a.step] /\ run'[a.report].dispatched = FALSE
        /\ \A q \in Reports \ {a.report} : run'[q] = run[q]
    BY <1>1, <2>1, ScheduleEffect
  <2> QED  BY <1>1, <2>1, <2>2, GoesOn, LeftFollows
<1>10. CASE Raise(a) /\ IsCurrent(a)
  <2>1. /\ attempts' \subseteq attempts /\ status' = status
        /\ \E b \in BOOLEAN : StepFails(a.report, b)
    BY <1>10 DEF Raise, storeVars
  <2>2. /\ run'[a.report].step \in {a.step, ErrorStep(a.step)} /\ run'[a.report].dispatched = FALSE
        /\ \A q \in Reports \ {a.report} : run'[q] = run[q]
    BY <1>1, <1>10, <2>1, StepFailsEffects DEF IsCurrent
  <2> QED  BY <1>1, <2>1, <2>2, GoesOn, LeftFollows
<1>11. CASE (Raise(a) /\ ~IsCurrent(a)) \/ Vanish(a)
  <2>1. attempts' \subseteq attempts /\ status' = status /\ run' = run
    BY <1>11 DEF Raise, Vanish, storeVars
  <2> QED  BY <1>1, <2>1, LeftFollows
<1> QED
  BY <1>3, <1>4, <1>5, <1>6, <1>7, <1>8, <1>9, <1>10, <1>11 DEF AttemptStep

\* Whatever fails, times out, dies or is retried, the status follows the run, until an
\* attempt that the server has given up on changes it.
LEMMA WorkflowFollows ==
  ASSUME WorkflowTypeOK, TasksInv, WorkflowNext, NEW r \in Reports, NoLateWrite(r),
         StatusFollows(r)
  PROVE  StatusFollows(r)'
<1>1. run \in [Reports -> Runs]
  BY DEF WorkflowTypeOK
<1>2. ASSUME NEW q \in Reports, BeginActivity(q)  PROVE FollowedBy(r)
  <2>1. status' = status /\ run'[r].step = run[r].step
    BY <1>1, <1>2, DispatchEffect DEF BeginActivity, storeVars
  <2>2. \A b \in attempts' : \/ b \in attempts /\ (IsCurrent(b)' => IsCurrent(b))
                             \/ b.phase = "start"
                             \/ b.step \notin MarkActivities
    BY <1>2, DispatchTasks, MarkDef DEF PureActivities
  <2> QED  BY <2>1, <2>2 DEF FollowedBy
<1>3. ASSUME NEW q \in Reports, Timeout(q)  PROVE FollowedBy(r)
  <2>1. /\ run[q].step \in Activities /\ StepFails(q, TRUE) /\ attempts' \subseteq attempts
        /\ status' = status
    BY <1>3, StopWaitingSubset DEF Timeout, Open, storeVars
  <2>2. /\ run'[q].step \in {run[q].step, ErrorStep(run[q].step)} /\ run'[q].dispatched = FALSE
        /\ \A p \in Reports \ {q} : run'[p] = run[p]
    BY <1>1, <2>1, StepFailsEffects
  <2> QED  BY <2>1, <2>2, GoesOn, LeftFollows
<1>4. ASSUME WindowStep  PROVE FollowedBy(r)
  BY <1>4 DEF WindowStep, storeVars, temporalVars, FollowedBy, IsCurrent
<1>5. FollowedBy(r)
  BY <1>2, <1>3, <1>4, AttemptFollows DEF WorkflowNext
<1> QED  BY <1>5, FollowsStep
-----------------------------------------------------------------------------
(* The workflow alone.                                                     *)

LEMMA WorkflowInitType ==
  ASSUME WorkflowInit
  PROVE  WorkflowTypeOK
<1>1. /\ classification \in [Reports -> Rows]
      /\ queueItem \in [Reports -> Rows]
  <2>1. PICK rows \in [Reports -> UNION {RowsBeforeRun(r) : r \in Reports}] :
          /\ \A r \in Reports : rows[r] \in RowsBeforeRun(r)
          /\ classification = [r \in Reports |-> rows[r].c]
          /\ queueItem = [r \in Reports |-> rows[r].q]
    BY DEF WorkflowInit
  <2>2. ASSUME NEW r \in Reports, NEW row \in RowsBeforeRun(r)
        PROVE  row.c \in Rows /\ row.q \in Rows
    <3>1. Queue(r) \in Rows /\ "none" \in Rows
      BY QueueType DEF Rows
    <3> QED  BY <3>1 DEF RowsBeforeRun
  <2> QED  BY <2>1, <2>2
<1>2. status \in [Reports -> Statuses \cup {"absent"}] /\ idempotencyKey \in [Reports -> Keys \cup {NoKey}]
  BY DEF WorkflowInit, Statuses
<1>3. [NoRun EXCEPT !.number = 1, !.step = "load"] \in Runs
  <2>1. 1 \in 1..MaxAttempts /\ "load" \in Activities
    BY MaxAttemptsAssumption, ActivitiesDef
  <2> QED  BY <2>1 DEF NoRun, Runs
<1>4. StreamTypeOK
  BY DEF WorkflowInit, StreamInit, StreamTypeOK
<1> QED  BY <1>1, <1>2, <1>3, <1>4 DEF WorkflowInit, WorkflowTypeOK, StoreTypeOK

\* The store, the stream, the runs and the attempts keep their types.
THEOREM WorkflowTypes == WorkflowSpec => []WorkflowTypeOK
<1>1. WorkflowInit => WorkflowTypeOK
  BY WorkflowInitType
<1>2. WorkflowTypeOK /\ [WorkflowNext]_workflowVars => WorkflowTypeOK'
  <2>1. WorkflowTypeOK /\ WorkflowNext => WorkflowTypeOK'
    BY WorkflowStepType
  <2>2. WorkflowTypeOK /\ UNCHANGED workflowVars => WorkflowTypeOK'
    BY DEF workflowVars, storeVars, temporalVars, streamVars, WorkflowTypeOK, StoreTypeOK,
           StreamTypeOK
  <2> QED  BY <2>1, <2>2
<1> QED  BY <1>1, <1>2, PTL DEF WorkflowSpec
=============================================================================
