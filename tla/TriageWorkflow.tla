--------------------------- MODULE TriageWorkflow ---------------------------
(***************************************************************************)
(* ReportTriageWorkflow (temporal/workflows.py) and its ten activities     *)
(* (temporal/activities.py).                                               *)
(*                                                                         *)
(* The workflow code is deterministic and the server replays it, so its    *)
(* whole state is the step it waits for: NextStep says where it goes on    *)
(* success, ErrorStep where it goes when the retries of a step are         *)
(* exhausted.  An attempt of an activity is a little process of a worker:  *)
(* it is dispatched, reads what it needs, writes and returns or raises.    *)
(* It can be cancelled, crash or come late at every point.                 *)
(***************************************************************************)
EXTENDS ReportStore, TemporalServer, EventStream

CONSTANT Content  \* what was reported, for each report id

ASSUME ContentAssumption == Content \in [Reports -> ReportContents]
ASSUME ActivitiesAssumption ==
  Activities = {"load", "mark_processing", "classify", "score", "decide", "persist",
                "route", "publish", "mark_classified", "mark_failed"}

workflowVars == <<storeVars, temporalVars, streamVars>>

\* The activities that touch neither the store nor the stream, and those that set
\* the status, with what they set it to.
PureActivities == {"classify", "score", "decide"}

\* Mutant: a status outside of the enumeration.
Mut_MisspeltStatus == [mark_processing |-> "processing", mark_classified |-> "clasified",
                       mark_failed |-> "failed"]

StatusWrites == [mark_processing |-> "processing", mark_classified |-> "classified",
                 mark_failed |-> "failed"]
MarkActivities == DOMAIN StatusWrites

Phases == {"start", "read", "announced", "done"}
Attempts == [report : Reports, number : Nat, step : Activities, try : 1..MaxAttempts,
             phase : Phases, seen : Statuses \cup Rows]

WorkflowTypeOK ==
  /\ StoreTypeOK
  /\ StreamTypeOK
  /\ run \in [Reports -> Runs]
  /\ attempts \subseteq Attempts
-----------------------------------------------------------------------------
\* Mutant: the events are published before the report is queued.
Mut_PublishBeforeRoute ==
  [load            |-> "mark_processing",
   mark_processing |-> "classify",
   classify        |-> "score",
   score           |-> "decide",
   decide          |-> "persist",
   persist         |-> "publish",
   publish         |-> "route",
   route           |-> "mark_classified",
   mark_classified |-> "completed",
   mark_failed     |-> "failed"]

NextStep ==
  [load            |-> "mark_processing",
   mark_processing |-> "classify",
   classify        |-> "score",
   score           |-> "decide",
   decide          |-> "persist",
   persist         |-> "route",
   route           |-> "publish",
   publish         |-> "mark_classified",
   mark_classified |-> "completed",
   mark_failed     |-> "failed"]

\* Mutant: routing is best effort too.
Mut_RouteBestEffort(step) ==
  CASE step = "route"       -> "publish"
    [] step = "publish"     -> "mark_classified"
    [] step = "mark_failed" -> "failed_unrecorded"
    [] OTHER                -> "mark_failed"

\* Mutant: an error of mark_classified is ignored.
Mut_MarkBestEffort(step) ==
  CASE step = "publish"         -> "mark_classified"
    [] step = "mark_classified" -> "completed"
    [] step = "mark_failed"     -> "failed_unrecorded"
    [] OTHER                    -> "mark_failed"

\* A publish error is logged and ignored.  The error of any other activity is
\* recorded by mark_failed and raised again; an error of mark_failed itself is an
\* ActivityError, which "except ApplicationError" does not catch.
ErrorStep(step) ==
  CASE step = "publish"     -> "mark_classified"
    [] step = "mark_failed" -> "failed_unrecorded"
    [] OTHER                -> "mark_failed"

\* The server learns that the attempt it waits for did not succeed.
StepFails(r, retryable) ==
  \/ retryable /\ Retryable(r) /\ Retry(r)
  \/ ~(retryable /\ Retryable(r)) /\ Schedule(r, ErrorStep(run[r].step))

Queue(r) == TriageResult(Content[r]).queue
-----------------------------------------------------------------------------
\* The pure services depend on nothing that can change while they compute.
BeginActivity(r) ==
  /\ Dispatch(r, [report |-> r, number |-> run[r].number, step |-> run[r].step,
                  try |-> run[r].try, seen |-> "none",
                  phase |-> IF run[r].step \in PureActivities THEN "done" ELSE "start"])
  /\ UNCHANGED <<storeVars, streamVars>>

\* Attempt a goes on to a phase.  The server waits for the result of the current
\* attempt; a late one that is done is gone.
Proceed(a, phase, seen) ==
  /\ attempts' = (attempts \ {a}) \cup
       {b \in {[a EXCEPT !.phase = phase, !.seen = seen]} : phase = "done" => IsCurrent(a)}
  /\ UNCHANGED run

LoadReportRow(a) ==
  /\ a.phase = "start"
  /\ a.step = "load"
  /\ Exists(a.report)
  /\ Proceed(a, "done", "none")
  /\ UNCHANGED <<storeVars, streamVars>>

\* The SELECT of update_report_status, upsert_classification, upsert_queue_item.
ReadRow(a) ==
  /\ a.phase = "start"
  /\ \/ /\ a.step \in MarkActivities
        /\ Exists(a.report)
        /\ Proceed(a, "read", status[a.report])
     \/ /\ a.step = "persist"
        /\ Proceed(a, "read", classification[a.report])
     \/ /\ a.step = "route"
        /\ Proceed(a, "read", queueItem[a.report])
  /\ UNCHANGED <<storeVars, streamVars>>

MarkStatus(a) ==
  /\ a.phase = "read"
  /\ a.step \in MarkActivities
  /\ UpdateStatus(a.report, a.seen, StatusWrites[a.step])
  /\ Proceed(a, "done", "none")
  /\ UNCHANGED streamVars

PersistClassification(a) ==
  /\ a.phase = "read"
  /\ a.step = "persist"
  /\ UpsertClassification(a.report, a.seen, Queue(a.report))
  /\ Proceed(a, "done", "none")
  /\ UNCHANGED streamVars

RouteQueue(a) ==
  /\ a.phase = "read"
  /\ a.step = "route"
  /\ UpsertQueueItem(a.report, a.seen, Queue(a.report))
  /\ Proceed(a, "done", "none")
  /\ UNCHANGED streamVars

PublishTriaged(a) ==
  /\ a.phase = "start"
  /\ a.step = "publish"
  /\ Publish("triaged", a.report)
  /\ Proceed(a, "announced", "none")
  /\ UNCHANGED storeVars

PublishRouted(a) ==
  /\ a.phase = "announced"
  /\ Publish("routed", a.report)
  /\ Proceed(a, "done", "none")
  /\ UNCHANGED storeVars

Return(a) ==
  /\ a.phase = "done"
  /\ IsCurrent(a)
  /\ attempts' = attempts \ {a}
  /\ Schedule(a.report, NextStep[a.step])
  /\ UNCHANGED <<storeVars, streamVars>>

\* An exception: the store or the stream is unreachable (also just after the
\* commit), a row is missing, a constraint refuses an insert.  Only the missing
\* row of load_report_activity, ReportNotFound, is not retried.
Raise(a) ==
  /\ attempts' = attempts \ {a}
  /\ \/ IsCurrent(a) /\ StepFails(a.report, TRUE)
     \/ IsCurrent(a) /\ a.step = "load" /\ ~Exists(a.report) /\ StepFails(a.report, FALSE)
     \/ ~IsCurrent(a) /\ UNCHANGED run
  /\ UNCHANGED <<storeVars, streamVars>>

\* The worker crashes, or the SDK cancels a late attempt.
Vanish(a) ==
  /\ attempts' = attempts \ {a}
  /\ UNCHANGED <<storeVars, run, streamVars>>

\* start_to_close_timeout.
Timeout(r) ==
  /\ Open(r)
  /\ run[r].dispatched
  /\ StepFails(r, TRUE)
  /\ StopWaiting(r)
  /\ UNCHANGED <<storeVars, streamVars>>

AttemptStep(a) ==
  \/ LoadReportRow(a) \/ ReadRow(a) \/ MarkStatus(a) \/ PersistClassification(a) \/ RouteQueue(a)
  \/ PublishTriaged(a) \/ PublishRouted(a) \/ Return(a) \/ Raise(a) \/ Vanish(a)

WindowStep == ForgetOldest /\ UNCHANGED <<storeVars, temporalVars>>

WorkflowNext ==
  \/ \E r \in Reports : BeginActivity(r) \/ Timeout(r)
  \/ \E a \in attempts : AttemptStep(a)
  \/ WindowStep
-----------------------------------------------------------------------------
(* The workflow alone: one run per report, just started on a report that   *)
(* was created, reset after any earlier run, or is missing.                *)

RowsBeforeRun(r) ==
  {[c |-> "none", q |-> "none"], [c |-> Queue(r), q |-> "none"], [c |-> Queue(r), q |-> Queue(r)]}

WorkflowInit ==
  /\ \E rows \in [Reports -> UNION {RowsBeforeRun(r) : r \in Reports}] :
       /\ \A r \in Reports : rows[r] \in RowsBeforeRun(r)
       /\ classification = [r \in Reports |-> rows[r].c]
       /\ queueItem = [r \in Reports |-> rows[r].q]
  /\ status \in [Reports -> {"queued", "absent"}]
  /\ \A r \in Reports : ~Exists(r) => classification[r] = "none"
  /\ idempotencyKey = [r \in Reports |-> NoKey]
  /\ run = [r \in Reports |-> [NoRun EXCEPT !.number = 1, !.step = "load"]]
  /\ attempts = {}
  /\ StreamInit

\* Workers poll for tasks and the server fires its timers.  Nothing makes an
\* attempt finish.
WorkflowFairness ==
  \A r \in Reports : WF_workflowVars(BeginActivity(r)) /\ WF_workflowVars(Timeout(r))

WorkflowSpec == WorkflowInit /\ [][WorkflowNext]_workflowVars /\ WorkflowFairness
-----------------------------------------------------------------------------
\* Every run closes, whatever fails and however often: each step has
\* MaxAttempts attempts, each attempt a timeout, and no error leads back to an
\* earlier step (the retry policies and timeouts of workflows.py).
RunCloses == \A r \in Reports : Open(r) ~> ~Open(r)

\* docs/03-product-requirements.md:158 (and docs/01-overview.md:58): a run that
\* finally fails leaves the status failed.  The report exists.
FinalFailureLeavesFailed ==
  \A r \in Reports : Exists(r) /\ run[r].step \in {"failed", "failed_unrecorded"} => status[r] = "failed"
-----------------------------------------------------------------------------
(* What is never shown or announced too early.                             *)

\* A report reads classified only when its classification and its queue item
\* are there and agree, and is queued only with a classification: no retry,
\* termination, late attempt or reset can bring the status ahead of the rows.
ClassifiedHasRows ==
  \A r \in Reports :
    /\ status[r] = "classified" => queueItem[r] # "none"
    /\ queueItem[r] # "none" => classification[r] = queueItem[r]

\* An event on the stream is about rows that are committed, and the routed event
\* of a report comes after a triaged one, whatever publish attempts overlap and
\* whichever of their messages are dropped as duplicates.
EventsFollowRows ==
  \A i \in 1..Len(stream) :
    /\ queueItem[stream[i].report] # "none"
    /\ stream[i].subject = "routed" =>
         \E j \in 1..(i - 1) : stream[j] = [subject |-> "triaged", report |-> stream[i].report]
=============================================================================
