------------------------- MODULE TriageSystemProofs -------------------------
(***************************************************************************)
(* Proofs about TriageSystem, for every set of reports and of calls, every *)
(* content, every number of attempts and any number of late ones.          *)
(***************************************************************************)
EXTENDS TriageSystem, TriageWorkflowProofs, TLAPS

-----------------------------------------------------------------------------
(* The inductive invariant.  A row that is there stays and holds the queue *)
(* of the report's content.  The position of a run, or of an attempt of    *)
(* any run, is evidence of the rows that were committed to get there, and  *)
(* it is what makes the visible facts, statuses, events and answers, true. *)

HasClassification(r) == classification[r] # "none"
HasItem(r) == queueItem[r] # "none"

\* The steps that come after persist, and those that come after route.
AfterPersist == {"route", "publish", "mark_classified", "completed"}
AfterRoute == {"publish", "mark_classified", "completed"}

RowsInv ==
  \A r \in Reports :
    /\ classification[r] \in {"none", Queue(r)}
    /\ queueItem[r] \in {"none", Queue(r)}
    /\ HasItem(r) => HasClassification(r)
    /\ status[r] = "classified" => HasItem(r)

RunsInv ==
  \A r \in Reports :
    /\ run[r].step \in AfterPersist => HasClassification(r)
    /\ run[r].step \in AfterRoute => HasItem(r)

\* seen is evidence too: the row that the session of an upsert loaded.
AttemptsInv ==
  \A a \in attempts :
    /\ a.step \in AfterPersist => HasClassification(a.report)
    /\ a.step \in AfterRoute => HasItem(a.report)
    /\ a.step = "persist" /\ (a.phase = "done" \/ (a.phase = "read" /\ a.seen # "none"))
         => HasClassification(a.report)
    /\ a.step = "route" /\ (a.phase = "done" \/ (a.phase = "read" /\ a.seen # "none"))
         => HasItem(a.report)
    /\ a.phase = "announced" => a.step = "publish"

Triaged(r, n) == \E j \in 1..n : stream[j] = [subject |-> "triaged", report |-> r]

EventsInv ==
  /\ \A i \in 1..Len(stream) :
       /\ HasItem(stream[i].report)
       /\ stream[i].subject = "routed" => Triaged(stream[i].report, i - 1)
  /\ \A a \in attempts :
       a.phase = "announced" => Triaged(a.report, Len(stream))

\* A GET between its SELECTs holds a status that the rows still bear out.
CallsInv ==
  \A c \in Calls :
    /\ call[c].code # 0 => call[c].at = "answered"
    /\ call[c].at = "rows" /\ call[c].seen = "classified" =>
         HasClassification(call[c].report)
    /\ call[c].code = 200 /\ call[c].seen = "classified" => call[c].shown # "none"

\* A call that is past its first access to the store is about a report.
CallsHaveReports ==
  \A c \in Calls :
    call[c].at \in {"reset", "start", "reload", "mark", "rows"} =>
      call[c].report \in Reports /\ Exists(call[c].report)

TypeInv == TypeOK /\ CallsHaveReports

IInv == TypeInv /\ RowsInv /\ RunsInv /\ AttemptsInv /\ EventsInv /\ CallsInv
-----------------------------------------------------------------------------
(* What the handlers' helpers return: types.                               *)

LEMMA BecomeType ==
  ASSUME call \in [Calls -> CallStates], NEW c \in Calls, NEW point \in Points,
         NEW r \in Reports \cup {NoReport}, NEW s \in Statuses \cup {"none"},
         NEW rows \in Rows, NEW code \in Codes,
         Become(c, point, r, s, rows, code)
  PROVE  call' \in [Calls -> CallStates]
<1>1. [at |-> point, report |-> r, seen |-> s, shown |-> rows, code |-> code] \in CallStates
  BY Zenon DEF CallStates
<1> QED  BY <1>1 DEF Become

LEMMA GoWithType ==
  ASSUME call \in [Calls -> CallStates], NEW c \in Calls, NEW point \in Points,
         NEW r \in Reports \cup {NoReport}, NEW s \in Statuses \cup {"none"},
         GoWith(c, point, r, s)
  PROVE  call' \in [Calls -> CallStates]
<1>1. 0 \in Codes /\ "none" \in Rows
  BY DEF Codes, Rows
<1> QED  BY <1>1, BecomeType DEF GoWith

LEMMA GoType ==
  ASSUME call \in [Calls -> CallStates], NEW c \in Calls, NEW point \in Points, Go(c, point)
  PROVE  call' \in [Calls -> CallStates]
<1>1. call[c].report \in Reports \cup {NoReport} /\ call[c].seen \in Statuses \cup {"none"}
  BY DEF CallStates
<1> QED  BY <1>1, GoWithType DEF Go

LEMMA AnswerType ==
  ASSUME call \in [Calls -> CallStates], NEW c \in Calls, NEW code \in Codes,
         NEW r \in Reports \cup {NoReport}, NEW s \in Statuses \cup {"none"},
         Answer(c, code, r, s)
  PROVE  call' \in [Calls -> CallStates]
<1>1. "answered" \in Points /\ "none" \in Rows
  BY DEF Rows, Points
<1> QED  BY <1>1, BecomeType DEF Answer
-----------------------------------------------------------------------------
(* Type correctness. *)

LEMMA InitType == Init => TypeInv
<1> SUFFICES ASSUME Init PROVE TypeInv
  OBVIOUS
<1>1. StoreTypeOK
  BY DEF Init, StoreInit, StoreTypeOK, Rows
<1>2. run \in [Reports -> Runs]
  BY MaxAttemptsAssumption DEF Init, TemporalInit, Runs, NoRun
<1>3. StreamTypeOK
  BY DEF Init, StreamInit, StreamTypeOK
<1>4. Arrived \in CallStates
  BY DEF Arrived, CallStates, Points, Rows, Codes
<1>5. TypeOK
  BY <1>1, <1>2, <1>3, <1>4
     DEF TypeOK, WorkflowTypeOK, ApiTypeOK, Init, ApiInit, TemporalInit
<1>6. CallsHaveReports
  BY DEF CallsHaveReports, Init, ApiInit, Arrived
<1> QED  BY <1>5, <1>6 DEF TypeInv

LEMMA WorkflowNextType ==
  ASSUME TypeOK, WorkflowNext, UNCHANGED call
  PROVE  TypeOK'
<1>1. WorkflowTypeOK'
  BY WorkflowStepType DEF TypeOK
<1> QED  BY <1>1 DEF TypeOK, WorkflowTypeOK, ApiTypeOK

LEMMA ApiNextType ==
  ASSUME TypeInv, ApiNext, UNCHANGED streamVars
  PROVE  TypeOK'
<1> USE DEF TypeInv, TypeOK, WorkflowTypeOK, ApiTypeOK
<1>1. /\ CreateCalls \subseteq Calls /\ ReprocessCalls \subseteq Calls /\ GetCalls \subseteq Calls
      /\ {"insert", "relookup", "reset", "start", "reload", "mark", "rows", "aborted"} \subseteq Points
      /\ 200 \in Codes /\ 202 \in Codes /\ 404 \in Codes /\ 500 \in Codes /\ 503 \in Codes
      /\ {"queued", "workflow_start_failed"} \subseteq Statuses
  BY DEF Calls, Points, Statuses, Codes
<1>2. \A r \in Reports : Exists(r) => status[r] \in Statuses
  BY DEF Exists, StoreTypeOK
<1>3. \A k : ReportsOfKey(k) \subseteq {r \in Reports : Exists(r)}
  BY DEF ReportsOfKey
<1>4. StreamTypeOK'
  BY DEF streamVars, StreamTypeOK
<1>5. UNCHANGED storeVars => StoreTypeOK'
  BY DEF storeVars, StoreTypeOK
<1>6. UNCHANGED temporalVars => run' \in [Reports -> Runs] /\ attempts' \subseteq Attempts
  BY DEF temporalVars
<1> USE <1>4
<1>7. ASSUME NEW c \in CreateCalls, CreateStep(c)  PROVE TypeOK'
  <2>1. CASE LookupKey(c)
    BY <1>1, <1>2, <1>3, <1>5, <1>6, <2>1, GoType, AnswerType DEF LookupKey
  <2>2. CASE InsertReport(c)
    <3>1. PICK r \in Reports :
            \/ CreateReport(r, KeyOf[c]) /\ GoWith(c, "start", r, "queued")
            \/ /\ Answer(c, 500, NoReport, "none") \/ Go(c, "relookup")
               /\ UNCHANGED storeVars
      BY <2>2 DEF InsertReport
    <3>2. CreateReport(r, KeyOf[c]) => StoreTypeOK'
      BY <1>1, KeyOfAssumption DEF CreateReport, StoreTypeOK
    <3> QED
      <4>1. call' \in [Calls -> CallStates]
        BY <1>1, <3>1, GoType, GoWithType, AnswerType
      <4> QED
        BY <1>5, <1>6, <2>2, <3>1, <3>2, <4>1 DEF InsertReport
  <2>3. CASE LookupAgain(c)
    <3>1. call' \in [Calls -> CallStates]
      BY <1>1, <1>2, <1>3, <2>3, AnswerType DEF LookupAgain
    <3> QED  BY <1>5, <1>6, <2>3, <3>1 DEF LookupAgain
  <2> QED  BY <1>7, <2>1, <2>2, <2>3 DEF CreateStep
<1>8. ASSUME NEW c \in ReprocessCalls, ReprocessStep(c)  PROVE TypeOK'
  <2>1. CASE LoadReport(c)
    BY <1>1, <1>2, <1>5, <1>6, <2>1, GoWithType, AnswerType DEF LoadReport
  <2>2. CASE ResetStatus(c)
    <3>1. call[c].report \in Reports
      BY <1>1, <2>2 DEF CallsHaveReports, ResetStatus
    <3> QED
      BY <1>1, <1>6, <2>2, <3>1, UpdateStatusType, GoWithType DEF ResetStatus
  <2> QED  BY <1>8, <2>1, <2>2 DEF ReprocessStep
<1>9. ASSUME NEW c \in GetCalls, GetStep(c)  PROVE TypeOK'
  <2>1. CASE GetStatus(c)
    BY <1>1, <1>2, <1>5, <1>6, <2>1, GoWithType, AnswerType DEF GetStatus
  <2>2. CASE GetRows(c)
    <3>1. /\ call[c].report \in Reports /\ call[c].seen \in Statuses \cup {"none"}
          /\ classification[call[c].report] \in Rows
      BY <1>1, <2>2 DEF CallsHaveReports, GetRows, CallStates, StoreTypeOK
    <3> QED
      <4>1. call' \in [Calls -> CallStates]
        BY <1>1, <2>2, <3>1, BecomeType DEF GetRows, Points
      <4> QED  BY <1>5, <1>6, <2>2, <4>1 DEF GetRows
  <2> QED  BY <1>9, <2>1, <2>2 DEF GetStep
<1>10. ASSUME NEW c \in Calls, StartStep(c) \/ Abort(c)  PROVE TypeOK'
  <2>1. call[c].report \in Reports \cup {NoReport} /\ call[c].seen \in Statuses \cup {"none"}
    BY DEF CallStates
  <2>2. CASE StartWorkflow(c) \/ StartFails(c)
    <3>1. call[c].report \in Reports
      BY <2>2 DEF CallsHaveReports, StartWorkflow, StartFails
    <3>2. StartRun(call[c].report, "load") =>
            run' \in [Reports -> Runs] /\ attempts' \subseteq Attempts
      BY <3>1, StartRunType, StopWaitingSubset DEF StartRun
    <3>3. call' \in [Calls -> CallStates]
      BY <1>1, <2>2, <3>1, GoType, AnswerType DEF StartWorkflow, StartFails, AfterStartFailure
    <3> QED
      BY <1>5, <1>6, <2>2, <3>2, <3>3 DEF StartWorkflow, StartFails
  <2>3. CASE ReloadReport(c)
    <3>1. call[c].report \in Reports /\ status[call[c].report] \in Statuses
      BY <1>2, <2>3 DEF CallsHaveReports, ReloadReport
    <3> QED
      BY <1>1, <1>5, <1>6, <2>3, <3>1, GoWithType DEF ReloadReport
  <2>4. CASE MarkStartFailed(c)
    <3>1. call[c].report \in Reports
      BY <2>4 DEF CallsHaveReports, MarkStartFailed
    <3> QED
      BY <1>1, <1>5, <1>6, <2>4, <3>1, UpdateStatusType, AnswerType DEF MarkStartFailed
  <2>5. CASE Abort(c)
    <3>1. call' \in [Calls -> CallStates]
      BY <1>1, <2>1, <2>5, GoWithType DEF Abort
    <3> QED  BY <1>5, <1>6, <2>5, <3>1 DEF Abort
  <2> QED  BY <1>10, <2>2, <2>3, <2>4, <2>5 DEF StartStep
<1> QED  BY <1>7, <1>8, <1>9, <1>10 DEF ApiNext
-----------------------------------------------------------------------------
(* What a step does to the store.                                          *)

\* Rows appear with the queue of the content and stay; a queue item appears only
\* where there is a classification, and classified is written only over both.
StoreEffect ==
  \A r \in Reports :
    /\ classification'[r] = classification[r] \/ classification'[r] = Queue(r)
    /\ queueItem'[r] = queueItem[r] \/ (queueItem'[r] = Queue(r) /\ HasClassification(r))
    /\ status'[r] = status[r] \/ (status'[r] \in Statuses /\ (status'[r] = "classified" => HasItem(r)))

LEMMA WorkflowStoreEffect ==
  ASSUME TypeInv, AttemptsInv, WorkflowNext
  PROVE  StoreEffect
<1>1. CASE UNCHANGED storeVars
  BY <1>1 DEF storeVars, StoreEffect
<1>2. ASSUME NEW a \in attempts, MarkStatus(a)  PROVE StoreEffect
  <2>1. /\ a.report \in Reports
        /\ a.step \in MarkActivities
        /\ StatusWrites[a.step] = "classified" => a.step = "mark_classified"
        /\ StatusWrites[a.step] \in Statuses
    BY <1>2, MarkDef DEF MarkStatus, TypeInv, TypeOK, WorkflowTypeOK, Attempts, Statuses
  <2>2. StatusWrites[a.step] = "classified" => HasItem(a.report)
    BY <2>1 DEF AttemptsInv, AfterRoute
  <2> QED
    BY <1>2, <2>1, <2>2
       DEF StoreEffect, MarkStatus, UpdateStatus, OrmWrite, TypeInv, TypeOK, WorkflowTypeOK,
           StoreTypeOK
<1>3. ASSUME NEW a \in attempts, PersistClassification(a)  PROVE StoreEffect
  BY <1>3 DEF StoreEffect, PersistClassification, UpsertClassification, OrmWrite, TypeInv,
              TypeOK, WorkflowTypeOK, StoreTypeOK
<1>4. ASSUME NEW a \in attempts, RouteQueue(a)  PROVE StoreEffect
  <2>1. HasClassification(a.report)
    BY <1>4 DEF RouteQueue, AttemptsInv, AfterPersist
  <2> QED
    BY <1>4, <2>1 DEF StoreEffect, RouteQueue, UpsertQueueItem, OrmWrite, TypeInv,
                      TypeOK, WorkflowTypeOK, StoreTypeOK
<1> QED
  BY <1>1, <1>2, <1>3, <1>4
     DEF WorkflowNext, AttemptStep, BeginActivity, Timeout, WindowStep, LoadReportRow, ReadRow,
         PublishTriaged, PublishRouted, Return, Raise, Vanish

LEMMA ApiStoreEffect ==
  ASSUME TypeInv, ApiNext
  PROVE  StoreEffect
<1> USE DEF TypeInv, TypeOK, WorkflowTypeOK, StoreTypeOK
<1>1. CASE UNCHANGED storeVars
  BY <1>1 DEF storeVars, StoreEffect
<1>2. ASSUME NEW r \in Reports, NEW k, CreateReport(r, k)  PROVE StoreEffect
  BY <1>2 DEF CreateReport, StoreEffect, Statuses
<1>3. ASSUME NEW r, NEW seen, NEW new \in {"queued", "workflow_start_failed"},
             UpdateStatus(r, seen, new)
      PROVE  StoreEffect
  BY <1>3 DEF UpdateStatus, OrmWrite, StoreEffect, Statuses
<1> QED
  BY <1>1, <1>2, <1>3
     DEF ApiNext, CreateStep, ReprocessStep, StartStep, GetStep, LookupKey, InsertReport,
         LookupAgain, LoadReport, ResetStatus, StartWorkflow, StartFails, ReloadReport,
         MarkStartFailed, GetStatus, GetRows, Abort

\* Rows and reports that are there stay.
LEMMA NothingVanishes ==
  ASSUME StoreEffect, NEW r \in Reports
  PROVE  /\ HasClassification(r) => HasClassification(r)'
         /\ HasItem(r) => HasItem(r)'
         /\ Exists(r) => Exists(r)'
  BY QueueType DEF StoreEffect, HasClassification, HasItem, Exists, Statuses

LEMMA RowsInvStep ==
  ASSUME RowsInv, StoreEffect
  PROVE  RowsInv'
  BY QueueType DEF RowsInv, StoreEffect, HasClassification, HasItem, Queue
-----------------------------------------------------------------------------
(* Calls keep their reports; with this, types are inductive.               *)

LEMMA CallsStep ==
  ASSUME TypeInv, Next, StoreEffect
  PROVE  CallsHaveReports'
<1> DEFINE InFlight(c) == call[c].at \in {"reset", "start", "reload", "mark", "rows"}
<1>1. \A r \in Reports : Exists(r) => Exists(r)'
  BY NothingVanishes
<1>2. CASE UNCHANGED call
  BY <1>1, <1>2 DEF TypeInv, CallsHaveReports
<1>3. ASSUME NEW c \in Calls, NEW point, NEW r, NEW s, NEW rows, NEW code,
             Become(c, point, r, s, rows, code),
             point \in {"reset", "start", "reload", "mark", "rows"} => r \in Reports /\ Exists(r)'
      PROVE  CallsHaveReports'
  BY <1>1, <1>3 DEF TypeInv, TypeOK, ApiTypeOK, CallsHaveReports, Become
<1>4. CASE ApiNext
  <2> USE DEF GoWith, Go, Answer
  <2>1. ASSUME NEW c \in CreateCalls, CreateStep(c)  PROVE CallsHaveReports'
    <3>1. \A r \in Reports : \A k : CreateReport(r, k) => Exists(r)'
      BY DEF CreateReport, Exists, TypeInv, TypeOK, WorkflowTypeOK, StoreTypeOK
    <3> QED
      BY <1>3, <2>1, <3>1 DEF CreateStep, LookupKey, InsertReport, LookupAgain, Calls
  <2>2. ASSUME NEW c \in ReprocessCalls, ReprocessStep(c)  PROVE CallsHaveReports'
    BY <1>1, <1>3, <2>2 DEF ReprocessStep, LoadReport, ResetStatus, Calls, TypeInv, CallsHaveReports
  <2>3. ASSUME NEW c \in GetCalls, GetStep(c)  PROVE CallsHaveReports'
    BY <1>1, <1>3, <2>3 DEF GetStep, GetStatus, GetRows, Calls
  <2>4. ASSUME NEW c \in Calls, StartStep(c) \/ Abort(c)  PROVE CallsHaveReports'
    BY <1>1, <1>3, <2>4
       DEF StartStep, StartWorkflow, StartFails, AfterStartFailure, ReloadReport, MarkStartFailed,
           Abort, TypeInv, CallsHaveReports
  <2> QED  BY <1>4, <2>1, <2>2, <2>3, <2>4 DEF ApiNext
<1> QED  BY <1>2, <1>4 DEF Next
-----------------------------------------------------------------------------
(* Runs and attempts only get past a step whose rows are there.            *)

\* How the step of a run can change: not at all, to the first one, on with the
\* result of an attempt, or to what the workflow does about an error.
RunEffect ==
  \A r \in Reports :
    \/ run'[r].step \in {run[r].step, "load"}
    \/ \E a \in attempts : /\ a.report = r /\ a.phase = "done" /\ a.step \in Activities
                           /\ run'[r].step = NextStep[a.step]
    \/ Open(r) /\ run'[r].step = ErrorStep(run[r].step)

LEMMA StepFailsEffect ==
  ASSUME run \in [Reports -> Runs], NEW r \in Reports, Open(r), NEW retryable,
         StepFails(r, retryable)
  PROVE  RunEffect
<1>1. CASE Retry(r)
  BY <1>1 DEF Retry, RunEffect, Runs
<1>2. CASE Schedule(r, ErrorStep(run[r].step))
  <2> DEFINE next == ErrorStep(run[r].step)
  <2>1. run'[r].step = next /\ \A q \in Reports : q # r => run'[q] = run[q]
    <3> HIDE DEF next
    <3> QED  BY <1>2 DEF Schedule, Runs, next
  <2> QED  BY <2>1 DEF RunEffect
<1> QED  BY <1>1, <1>2 DEF StepFails

LEMMA NextRunEffect ==
  ASSUME TypeInv, Next
  PROVE  RunEffect
<1> USE DEF TypeInv, TypeOK, WorkflowTypeOK
<1>1. CASE UNCHANGED run
  BY <1>1 DEF RunEffect
<1>2. ASSUME NEW r \in Reports, BeginActivity(r)  PROVE RunEffect
  BY <1>2 DEF BeginActivity, Dispatch, RunEffect, Runs
<1>3. ASSUME NEW r \in Reports, Timeout(r)  PROVE RunEffect
  BY <1>3, StepFailsEffect DEF Timeout
<1>4. ASSUME NEW a \in attempts, Return(a)  PROVE RunEffect
  <2>1. a.report \in Reports /\ a.step \in Activities
    BY DEF Attempts
  <2> QED
    BY <1>4, <2>1 DEF Return, Schedule, RunEffect, Runs
<1>5. ASSUME NEW a \in attempts, Raise(a)  PROVE RunEffect
  BY <1>1, <1>5, CurrentOpen, StepFailsEffect DEF Raise
<1>6. ASSUME NEW r \in Reports, StartRun(r, "load")  PROVE RunEffect
  BY <1>6 DEF StartRun, RunEffect, Runs, NoRun
<1>7. CASE WorkflowNext
  BY <1>1, <1>2, <1>3, <1>4, <1>5, <1>7
     DEF WorkflowNext, AttemptStep, WindowStep, temporalVars, LoadReportRow, ReadRow, MarkStatus,
         PersistClassification, RouteQueue, PublishTriaged, PublishRouted, Vanish, Proceed
<1>8. CASE ApiNext
  BY <1>1, <1>6, <1>8
     DEF ApiNext, CreateStep, ReprocessStep, StartStep, GetStep, LookupKey, InsertReport,
         LookupAgain, LoadReport, ResetStatus, StartWorkflow, StartFails, ReloadReport,
         MarkStartFailed, GetStatus, GetRows, Abort, temporalVars, CallsHaveReports
<1> QED  BY <1>7, <1>8 DEF Next

LEMMA RunsInvStep ==
  ASSUME RunsInv, AttemptsInv, StoreEffect, RunEffect
  PROVE  RunsInv'
<1> SUFFICES ASSUME NEW r \in Reports
             PROVE  /\ run'[r].step \in AfterPersist => HasClassification(r)'
                    /\ run'[r].step \in AfterRoute => HasItem(r)'
  BY DEF RunsInv
<1>1. /\ HasClassification(r) => HasClassification(r)'
      /\ HasItem(r) => HasItem(r)'
  BY NothingVanishes
<1>2. CASE run'[r].step \in {run[r].step, "load"}
  BY <1>1, <1>2 DEF RunsInv, AfterPersist, AfterRoute
<1>3. ASSUME NEW a \in attempts, a.report = r, a.phase = "done", a.step \in Activities,
             run'[r].step = NextStep[a.step]
      PROVE  /\ run'[r].step \in AfterPersist => HasClassification(r)
             /\ run'[r].step \in AfterRoute => HasItem(r)
  <2>1. /\ NextStep[a.step] \in AfterPersist => a.step \in {"persist"} \cup AfterPersist
        /\ NextStep[a.step] \in AfterRoute => a.step \in {"route"} \cup AfterRoute
    BY <1>3, ActivitiesDef DEF NextStep, AfterPersist, AfterRoute
  <2> QED  BY <1>3, <2>1 DEF AttemptsInv
<1>4. ASSUME Open(r), run'[r].step = ErrorStep(run[r].step)
      PROVE  /\ run'[r].step \in AfterPersist => HasClassification(r)
             /\ run'[r].step \in AfterRoute => HasItem(r)
  <2>1. ErrorStep(run[r].step) \in AfterPersist => run[r].step = "publish"
    BY <1>4, ActivitiesDef DEF Open, ErrorStep, AfterPersist
  <2>2. AfterRoute \subseteq AfterPersist /\ "publish" \in AfterRoute
    BY DEF AfterPersist, AfterRoute
  <2> QED  BY <1>4, <2>1, <2>2 DEF RunsInv
<1> QED  BY <1>1, <1>2, <1>3, <1>4 DEF RunEffect

\* A new attempt is fresh or one that moved on.  Moving on leaves its step and
\* report, and the evidence it carries is of the rows as they are now.
AttemptEffect ==
  \A b \in attempts' :
    \/ b \in attempts
    \/ /\ b.report \in Reports /\ b.step = run[b.report].step
       /\ b.phase = "start" \/ (b.phase = "done" /\ b.step \in PureActivities)
    \/ \E a \in attempts :
         /\ b.report = a.report /\ b.step = a.step
         /\ b.phase = "announced" => b.step = "publish"
         /\ b.step = "persist" => \/ b.phase = "read" /\ b.seen = classification[b.report]
                                  \/ b.phase = "done" /\ HasClassification(b.report)'
         /\ b.step = "route" => \/ b.phase = "read" /\ b.seen = queueItem[b.report]
                                \/ b.phase = "done" /\ HasItem(b.report)'

LEMMA NextAttemptEffect ==
  ASSUME TypeInv, AttemptsInv, Next, StoreEffect
  PROVE  AttemptEffect
<1> USE DEF TypeInv, TypeOK, WorkflowTypeOK
<1>1. CASE attempts' \subseteq attempts
  BY <1>1 DEF AttemptEffect
<1>2. ASSUME NEW r \in Reports, BeginActivity(r)  PROVE AttemptEffect
  BY <1>2 DEF BeginActivity, Dispatch, AttemptEffect
<1>3. ASSUME NEW a \in attempts, NEW phase, NEW seen, Proceed(a, phase, seen),
             a.step = "persist" => \/ phase = "read" /\ seen = classification[a.report]
                                   \/ phase = "done" /\ HasClassification(a.report)',
             a.step = "route" => \/ phase = "read" /\ seen = queueItem[a.report]
                                 \/ phase = "done" /\ HasItem(a.report)',
             phase = "announced" => a.step = "publish"
      PROVE  AttemptEffect
  <2> DEFINE b == [a EXCEPT !.phase = phase, !.seen = seen]
  <2>1. b.report = a.report /\ b.step = a.step /\ b.phase = phase /\ b.seen = seen
    BY DEF Attempts
  <2>2. attempts' \subseteq attempts \cup {b}
    BY <1>3 DEF Proceed
  <2> HIDE DEF b
  <2> QED  BY <1>3, <2>1, <2>2 DEF AttemptEffect
<1>4. ASSUME NEW a \in attempts, ReadRow(a)  PROVE AttemptEffect
  BY <1>3, <1>4, MarkDef DEF ReadRow
<1>5. ASSUME NEW a \in attempts, PersistClassification(a)  PROVE AttemptEffect
  <2>1. a.report \in Reports
    BY DEF Attempts
  <2>2. HasClassification(a.report)'
    <3>1. CASE a.seen = "none"
      BY <1>5, <2>1, <3>1, QueueType
         DEF PersistClassification, UpsertClassification, OrmWrite, HasClassification, StoreTypeOK
    <3>2. CASE a.seen # "none"
      BY <1>5, <2>1, <3>2, NothingVanishes DEF PersistClassification, AttemptsInv
    <3> QED  BY <3>1, <3>2
  <2> QED  BY <1>3, <1>5, <2>2 DEF PersistClassification
<1>6. ASSUME NEW a \in attempts, RouteQueue(a)  PROVE AttemptEffect
  <2>1. a.report \in Reports
    BY DEF Attempts
  <2>2. HasItem(a.report)'
    <3>1. CASE a.seen = "none"
      BY <1>6, <2>1, <3>1, QueueType
         DEF RouteQueue, UpsertQueueItem, OrmWrite, HasItem, StoreTypeOK
    <3>2. CASE a.seen # "none"
      BY <1>6, <2>1, <3>2, NothingVanishes DEF RouteQueue, AttemptsInv
    <3> QED  BY <3>1, <3>2
  <2> QED  BY <1>3, <1>6, <2>2 DEF RouteQueue
<1>7. ASSUME NEW a \in attempts, LoadReportRow(a) \/ MarkStatus(a) \/ PublishTriaged(a)
      PROVE  AttemptEffect
  BY <1>3, <1>7, MarkDef DEF LoadReportRow, MarkStatus, PublishTriaged
<1>8. ASSUME NEW a \in attempts, PublishRouted(a)  PROVE AttemptEffect
  BY <1>3, <1>8 DEF PublishRouted, AttemptsInv
<1>9. CASE WorkflowNext
  BY <1>1, <1>2, <1>4, <1>5, <1>6, <1>7, <1>8, <1>9, StopWaitingSubset
     DEF WorkflowNext, AttemptStep, WindowStep, temporalVars, Timeout, Return, Raise, Vanish
<1>10. CASE ApiNext
  BY <1>1, <1>10, StopWaitingSubset
     DEF ApiNext, CreateStep, ReprocessStep, StartStep, GetStep, LookupKey, InsertReport,
         LookupAgain, LoadReport, ResetStatus, StartWorkflow, StartFails, ReloadReport,
         MarkStartFailed, GetStatus, GetRows, Abort, temporalVars, StartRun
<1> QED  BY <1>9, <1>10 DEF Next

LEMMA AttemptsInvStep ==
  ASSUME TypeInv, RowsInv, RunsInv, AttemptsInv, StoreEffect, AttemptEffect
  PROVE  AttemptsInv'
<1> SUFFICES ASSUME NEW b \in attempts'
             PROVE  /\ b.step \in AfterPersist => HasClassification(b.report)'
                    /\ b.step \in AfterRoute => HasItem(b.report)'
                    /\ b.step = "persist" /\ (b.phase = "done" \/ (b.phase = "read" /\ b.seen # "none"))
                         => HasClassification(b.report)'
                    /\ b.step = "route" /\ (b.phase = "done" \/ (b.phase = "read" /\ b.seen # "none"))
                         => HasItem(b.report)'
                    /\ b.phase = "announced" => b.step = "publish"
  BY DEF AttemptsInv
<1>1. \A r \in Reports : /\ HasClassification(r) => HasClassification(r)'
                         /\ HasItem(r) => HasItem(r)'
  BY NothingVanishes
<1>2. \A a \in attempts : a.report \in Reports
  BY DEF TypeInv, TypeOK, WorkflowTypeOK, Attempts
<1>3. CASE b \in attempts
  BY <1>1, <1>2, <1>3 DEF AttemptsInv
<1>4. CASE /\ b.report \in Reports /\ b.step = run[b.report].step
           /\ b.phase = "start" \/ (b.phase = "done" /\ b.step \in PureActivities)
  BY <1>1, <1>4 DEF RunsInv, PureActivities
<1>5. ASSUME NEW a \in attempts,
             b.report = a.report, b.step = a.step, b.phase = "announced" => b.step = "publish",
             b.step = "persist" => \/ b.phase = "read" /\ b.seen = classification[b.report]
                                   \/ b.phase = "done" /\ HasClassification(b.report)',
             b.step = "route" => \/ b.phase = "read" /\ b.seen = queueItem[b.report]
                                 \/ b.phase = "done" /\ HasItem(b.report)'
      PROVE  /\ b.step \in AfterPersist => HasClassification(b.report)'
             /\ b.step \in AfterRoute => HasItem(b.report)'
             /\ b.step = "persist" /\ (b.phase = "done" \/ (b.phase = "read" /\ b.seen # "none"))
                  => HasClassification(b.report)'
             /\ b.step = "route" /\ (b.phase = "done" \/ (b.phase = "read" /\ b.seen # "none"))
                  => HasItem(b.report)'
  <2>1. b.step \in AfterPersist => HasClassification(b.report)'
    BY <1>1, <1>2, <1>5 DEF AttemptsInv
  <2>2. b.step \in AfterRoute => HasItem(b.report)'
    BY <1>1, <1>2, <1>5 DEF AttemptsInv
  <2>3. classification[b.report] # "none" => HasClassification(b.report)'
    BY <1>1, <1>2, <1>5 DEF HasClassification
  <2>4. queueItem[b.report] # "none" => HasItem(b.report)'
    BY <1>1, <1>2, <1>5 DEF HasItem
  <2> QED  BY <1>5, <2>1, <2>2, <2>3, <2>4
<1> QED  BY <1>3, <1>4, <1>5 DEF AttemptEffect
-----------------------------------------------------------------------------
(* Events follow the rows they announce.                                   *)

\* Publishing leaves the stream's messages in place and the message in it: at
\* its end if it was not in the duplicate window.
LEMMA PublishEffect ==
  ASSUME StreamTypeOK, NEW subject \in Subjects, NEW r \in Reports, Publish(subject, r)
  PROVE  LET m == [subject |-> subject, report |-> r]
         IN  /\ Len(stream) \in Nat /\ Len(stream') \in Nat
             /\ Len(stream) <= Len(stream')
             /\ \A i \in 1..Len(stream) : stream'[i] = stream[i]
             /\ \A i \in 1..Len(stream') : i \in 1..Len(stream) \/ (stream'[i] = m /\ i = Len(stream) + 1)
             /\ \E i \in 1..Len(stream') : stream'[i] = m
<1> DEFINE m == [subject |-> subject, report |-> r]
<1>1. m \in Messages
  BY DEF Messages
<1>2. Len(stream) \in Nat /\ forgotten \in Nat
  BY DEF StreamTypeOK
<1> HIDE DEF m
<1>3. CASE InWindow(m)
  <2>1. stream' = stream
    BY <1>3 DEF Publish, m
  <2>2. PICK i \in (forgotten + 1)..Len(stream) : stream[i] = m
    BY <1>3 DEF InWindow
  <2> QED  BY <1>2, <2>1, <2>2 DEF m
<1>4. CASE ~InWindow(m)
  <2>1. stream' = Append(stream, m)
    BY <1>4 DEF Publish, m
  <2>2. /\ Len(stream') = Len(stream) + 1
        /\ \A i \in 1..Len(stream) : stream'[i] = stream[i]
        /\ stream'[Len(stream) + 1] = m
    BY <1>1, <1>2, <2>1 DEF StreamTypeOK
  <2> QED  BY <1>2, <2>2 DEF m
<1> QED  BY <1>3, <1>4

LEMMA EventsInvStep ==
  ASSUME TypeInv, AttemptsInv, EventsInv, Next, StoreEffect
  PROVE  EventsInv'
<1> USE DEF TypeInv, TypeOK, WorkflowTypeOK
<1>1. \A r \in Reports : HasItem(r) => HasItem(r)'
  BY NothingVanishes
<1>2. /\ Len(stream) \in Nat
      /\ \A i \in 1..Len(stream) : stream[i].report \in Reports
      /\ \A a \in attempts : a.report \in Reports
  <2>1. /\ Len(stream) \in Nat
        /\ \A i \in 1..Len(stream) : stream[i] \in Messages
    BY DEF StreamTypeOK
  <2>2. \A a \in attempts : a.report \in Reports
    BY DEF Attempts
  <2> QED  BY <2>1, <2>2 DEF Messages
<1>3. ASSUME UNCHANGED stream,
             \A b \in attempts' : b.phase = "announced" => \E a \in attempts : b = a
      PROVE  EventsInv'
  BY <1>1, <1>2, <1>3 DEF EventsInv, Triaged
<1>4. ASSUME NEW a \in attempts, NEW phase, NEW seen, Proceed(a, phase, seen),
             NEW b \in attempts', b.phase = "announced"
      PROVE  b \in attempts \/ (phase = "announced" /\ b.report = a.report)
  BY <1>4 DEF Proceed, Attempts
<1>5. ASSUME NEW a \in attempts, PublishTriaged(a)  PROVE EventsInv'
  <2> DEFINE m == [subject |-> "triaged", report |-> a.report]
  <2>1. /\ Len(stream') \in Nat /\ Len(stream) <= Len(stream')
        /\ \A i \in 1..Len(stream) : stream'[i] = stream[i]
        /\ \A i \in 1..Len(stream') : i \in 1..Len(stream) \/ stream'[i] = m
        /\ \E i \in 1..Len(stream') : stream'[i] = m
    BY <1>2, <1>5, PublishEffect DEF PublishTriaged, Subjects
  <2>2. HasItem(a.report)'
    BY <1>1, <1>2, <1>5 DEF PublishTriaged, AttemptsInv, AfterRoute
  <2>3. m.subject = "triaged" /\ m.report = a.report
    OBVIOUS
  <2>4. ASSUME NEW i \in 1..Len(stream')
        PROVE  /\ HasItem(stream[i].report)'
               /\ (stream[i].subject = "routed" => Triaged(stream[i].report, i - 1))'
    <3>1. CASE i \in 1..Len(stream)
      <4>1. stream'[i] = stream[i] /\ HasItem(stream[i].report)'
        BY <1>1, <1>2, <2>1, <3>1 DEF EventsInv
      <4>2. stream[i].subject = "routed" => Triaged(stream[i].report, i - 1)
        BY <3>1 DEF EventsInv
      <4>3. ASSUME stream[i].subject = "routed" PROVE Triaged(stream[i].report, i - 1)'
        BY <1>2, <2>1, <3>1, <4>1, <4>2, <4>3 DEF Triaged
      <4> QED BY <4>1, <4>3
    <3>2. CASE stream'[i] = m
      BY <2>2, <2>3, <3>2
    <3> QED  BY <2>1, <3>1, <3>2
  <2>5. ASSUME NEW b \in attempts', b.phase = "announced"
        PROVE  Triaged(b.report, Len(stream))'
    <3>1. CASE b \in attempts
      BY <1>2, <2>1, <2>5, <3>1 DEF EventsInv, Triaged
    <3>2. CASE b.report = a.report
      BY <2>1, <3>2 DEF Triaged
    <3> QED  BY <1>4, <1>5, <2>5, <3>1, <3>2 DEF PublishTriaged
  <2> QED  BY <2>4, <2>5 DEF EventsInv
<1>6. ASSUME NEW a \in attempts, PublishRouted(a)  PROVE EventsInv'
  <2> DEFINE m == [subject |-> "routed", report |-> a.report]
  <2>1. /\ Len(stream') \in Nat /\ Len(stream) <= Len(stream')
        /\ \A i \in 1..Len(stream) : stream'[i] = stream[i]
        /\ \A i \in 1..Len(stream') :
             i \in 1..Len(stream) \/ (stream'[i] = m /\ i = Len(stream) + 1)
    BY <1>2, <1>6, PublishEffect DEF PublishRouted, Subjects
  <2>2. HasItem(a.report)' /\ Triaged(a.report, Len(stream))
    BY <1>1, <1>2, <1>6 DEF PublishRouted, AttemptsInv, AfterRoute, EventsInv
  <2>3. m.subject = "routed" /\ m.report = a.report
    OBVIOUS
  <2>4. ASSUME NEW i \in 1..Len(stream')
        PROVE  /\ HasItem(stream[i].report)'
               /\ (stream[i].subject = "routed" => Triaged(stream[i].report, i - 1))'
    <3>1. CASE i \in 1..Len(stream)
      <4>1. stream'[i] = stream[i] /\ HasItem(stream[i].report)'
        BY <1>1, <1>2, <2>1, <3>1 DEF EventsInv
      <4>2. stream[i].subject = "routed" => Triaged(stream[i].report, i - 1)
        BY <3>1 DEF EventsInv
      <4>3. ASSUME stream[i].subject = "routed" PROVE Triaged(stream[i].report, i - 1)'
        BY <1>2, <2>1, <3>1, <4>1, <4>2, <4>3 DEF Triaged
      <4> QED BY <4>1, <4>3
    <3>2. CASE stream'[i] = m /\ i = Len(stream) + 1
      BY <1>2, <2>1, <2>2, <2>3, <3>2 DEF Triaged
    <3> QED  BY <2>1, <3>1, <3>2
  <2>5. ASSUME NEW b \in attempts', b.phase = "announced"
        PROVE  Triaged(b.report, Len(stream))'
    <3>1. b \in attempts
      BY <1>4, <1>6, <2>5 DEF PublishRouted
    <3> QED  BY <1>2, <2>1, <2>5, <3>1 DEF EventsInv, Triaged
  <2> QED  BY <2>4, <2>5 DEF EventsInv
<1>7. ASSUME NEW a \in attempts, LoadReportRow(a) \/ ReadRow(a) \/ MarkStatus(a)
                                   \/ PersistClassification(a) \/ RouteQueue(a)
      PROVE  EventsInv'
  BY <1>3, <1>4, <1>7
     DEF LoadReportRow, ReadRow, MarkStatus, PersistClassification, RouteQueue, streamVars
<1>8. ASSUME NEW r \in Reports, BeginActivity(r)  PROVE EventsInv'
  BY <1>3, <1>8 DEF BeginActivity, Dispatch, streamVars
<1>9. CASE WorkflowNext
  BY <1>3, <1>5, <1>6, <1>7, <1>8, <1>9, StopWaitingSubset
     DEF WorkflowNext, AttemptStep, WindowStep, ForgetOldest, temporalVars, streamVars, Timeout,
         Return, Raise, Vanish
<1>10. CASE ApiNext /\ UNCHANGED streamVars
  BY <1>3, <1>10, StopWaitingSubset
     DEF streamVars, ApiNext, CreateStep, ReprocessStep, StartStep, GetStep, LookupKey,
         InsertReport, LookupAgain, LoadReport, ResetStatus, StartWorkflow, StartFails,
         ReloadReport, MarkStartFailed, GetStatus, GetRows, Abort, temporalVars, StartRun
<1> QED  BY <1>9, <1>10 DEF Next
-----------------------------------------------------------------------------
(* What a GET answers.                                                     *)

LEMMA CallsInvStep ==
  ASSUME TypeInv, RowsInv, CallsInv, Next, StoreEffect
  PROVE  CallsInv'
<1> USE DEF TypeInv, TypeOK, WorkflowTypeOK, ApiTypeOK
<1>1. \A r \in Reports : HasClassification(r) => HasClassification(r)'
  BY NothingVanishes
<1>2. \A c \in Calls : call[c].at = "rows" => call[c].report \in Reports
  BY DEF CallsHaveReports
<1>3. CASE UNCHANGED call
  BY <1>1, <1>2, <1>3 DEF CallsInv
\* A call that becomes anything else than these two says nothing about rows.
<1>4. ASSUME NEW c \in Calls, NEW point, NEW r, NEW s, NEW rows, NEW code,
             Become(c, point, r, s, rows, code),
             code # 0 => point = "answered",
             point = "rows" /\ s = "classified" => HasClassification(r)',
             code = 200 /\ s = "classified" => rows # "none"
      PROVE  CallsInv'
  <2>1. /\ call'[c] = [at |-> point, report |-> r, seen |-> s, shown |-> rows, code |-> code]
        /\ \A d \in Calls : d # c => call'[d] = call[d]
    BY <1>4 DEF Become
  <2>2. /\ call'[c].at = point /\ call'[c].report = r /\ call'[c].seen = s
        /\ call'[c].shown = rows /\ call'[c].code = code
    BY <2>1
  <2>3. ASSUME NEW d \in Calls
        PROVE  /\ call'[d].code # 0 => call'[d].at = "answered"
               /\ call'[d].at = "rows" /\ call'[d].seen = "classified" =>
                    HasClassification(call[d].report)'
               /\ call'[d].code = 200 /\ call'[d].seen = "classified" => call'[d].shown # "none"
    <3>1. CASE d = c
      BY <1>4, <2>2, <3>1
    <3>2. CASE d # c
      BY <1>1, <1>2, <2>1, <3>2 DEF CallsInv
    <3> QED  BY <3>1, <3>2
  <2> QED  BY <2>3 DEF CallsInv
<1>5. ASSUME NEW c \in Calls, NEW point, NEW r, NEW s, GoWith(c, point, r, s), point # "rows"
      PROVE  CallsInv'
  BY <1>4, <1>5 DEF GoWith
<1>6. ASSUME NEW c \in Calls, NEW code, NEW r, NEW s, Answer(c, code, r, s), code # 200
      PROVE  CallsInv'
  BY <1>4, <1>6 DEF Answer
<1>7. ASSUME NEW c \in CreateCalls, CreateStep(c)  PROVE CallsInv'
  BY <1>5, <1>6, <1>7 DEF CreateStep, LookupKey, InsertReport, LookupAgain, Go, Calls
<1>8. ASSUME NEW c \in ReprocessCalls, ReprocessStep(c)  PROVE CallsInv'
  BY <1>5, <1>6, <1>8 DEF ReprocessStep, LoadReport, ResetStatus, Calls
<1>9. ASSUME NEW c \in Calls, StartStep(c) \/ Abort(c)  PROVE CallsInv'
  <2>1. CASE StartStep(c)
    BY <1>5, <1>6, <2>1
       DEF StartStep, StartWorkflow, StartFails, AfterStartFailure, ReloadReport, MarkStartFailed, Go
  <2>2. CASE Abort(c)
    <3>1. PICK r \in {NoReport, call[c].report} : GoWith(c, "aborted", r, "none")
      BY <2>2 DEF Abort
    <3> QED  BY <1>5, <3>1
  <2> QED  BY <1>9, <2>1, <2>2
<1>10. ASSUME NEW c \in GetCalls, GetStatus(c)  PROVE CallsInv'
  <2>1. PICK r \in Reports : \/ Answer(c, 404, NoReport, "none")
                             \/ GoWith(c, "rows", r, status[r])
    BY <1>10 DEF GetStatus
  <2>2. status[r] = "classified" => HasClassification(r)'
    BY <1>1 DEF RowsInv
  <2>3. c \in Calls
    BY DEF Calls
  <2> QED  BY <1>4, <1>6, <2>1, <2>2, <2>3 DEF GoWith
<1>11. ASSUME NEW c \in GetCalls, GetRows(c)  PROVE CallsInv'
  <2>1. c \in Calls
    BY DEF Calls
  <2>2. call[c].seen = "classified" => classification[call[c].report] # "none"
    BY <1>11, <2>1 DEF GetRows, CallsInv, HasClassification
  <2>3. Become(c, "answered", call[c].report, call[c].seen, classification[call[c].report], 200)
    BY <1>11 DEF GetRows
  <2> QED  BY <1>4, <2>1, <2>2, <2>3
<1> QED
  BY <1>3, <1>7, <1>8, <1>9, <1>10, <1>11 DEF Next, ApiNext, GetStep
-----------------------------------------------------------------------------
(* The theorems.                                                           *)

LEMMA InitInv == Init => IInv
<1> SUFFICES ASSUME Init PROVE IInv
  OBVIOUS
<1>1. TypeInv
  BY InitType
<1>2. RowsInv /\ RunsInv
  BY DEF Init, StoreInit, TemporalInit, NoRun, RowsInv, RunsInv, HasItem, HasClassification,
         AfterPersist, AfterRoute
<1>3. AttemptsInv /\ EventsInv
  BY DEF Init, TemporalInit, StreamInit, AttemptsInv, EventsInv
<1>4. CallsInv
  BY DEF Init, ApiInit, Arrived, CallsInv
<1> QED  BY <1>1, <1>2, <1>3, <1>4 DEF IInv

LEMMA NextInv == IInv /\ [Next]_vars => IInv'
<1> SUFFICES ASSUME IInv, [Next]_vars PROVE IInv'
  OBVIOUS
<1>1. CASE Next
  <2>1. StoreEffect
    BY <1>1, WorkflowStoreEffect, ApiStoreEffect DEF IInv, Next
  <2>2. TypeOK'
    BY <1>1, WorkflowNextType, ApiNextType DEF IInv, TypeInv, Next
  <2>3. CallsHaveReports'
    BY <1>1, <2>1, CallsStep DEF IInv
  <2>4. RunEffect /\ AttemptEffect
    BY <1>1, <2>1, NextRunEffect, NextAttemptEffect DEF IInv
  <2>5. RowsInv' /\ RunsInv' /\ AttemptsInv'
    BY <2>1, <2>4, RowsInvStep, RunsInvStep, AttemptsInvStep DEF IInv
  <2>6. EventsInv' /\ CallsInv'
    BY <1>1, <2>1, EventsInvStep, CallsInvStep DEF IInv
  <2> QED  BY <2>2, <2>3, <2>5, <2>6 DEF IInv, TypeInv
<1>2. CASE UNCHANGED vars
  <2> USE <1>2 DEF vars, storeVars, temporalVars, streamVars
  <2>1. TypeInv'
    BY DEF IInv, TypeInv, TypeOK, WorkflowTypeOK, ApiTypeOK, StoreTypeOK, StreamTypeOK,
           CallsHaveReports, Exists
  <2>2. RowsInv' /\ RunsInv' /\ AttemptsInv'
    BY DEF IInv, RowsInv, RunsInv, AttemptsInv, HasItem, HasClassification, Queue
  <2>3. EventsInv' /\ CallsInv'
    BY DEF IInv, EventsInv, CallsInv, Triaged, HasItem, HasClassification
  <2> QED  BY <2>1, <2>2, <2>3 DEF IInv
<1> QED  BY <1>1, <1>2

\* The inductive invariant holds in every behaviour of the triage agent.
THEOREM Invariance == Spec => []IInv
  BY InitInv, NextInv, PTL DEF Spec

\* The variables keep their types, whatever handlers, attempts and runs overlap.
THEOREM TypeCorrect == Spec => []TypeOK
<1>1. IInv => TypeOK
  BY DEF IInv, TypeInv
<1> QED  BY <1>1, Invariance, PTL

\* A report never reads classified before its classification and its queue item
\* are committed, and these agree (persist, route and mark_classified of the
\* workflow, against the status writes of every other actor).
THEOREM StatusBehindRows == Spec => []ClassifiedHasRows
<1>1. IInv => ClassifiedHasRows
  BY QueueType DEF IInv, RowsInv, ClassifiedHasRows, HasItem, HasClassification
<1> QED  BY <1>1, Invariance, PTL

\* No event is on the stream before the rows it announces, and none says routed
\* before one said triaged, with any number of overlapping publish attempts and
\* of messages dropped in the duplicate window.
THEOREM EventsBehindRows == Spec => []EventsFollowRows
<1>1. IInv => EventsFollowRows
  BY DEF IInv, EventsInv, EventsFollowRows, Triaged, HasItem
<1> QED  BY <1>1, Invariance, PTL

\* GET /reports/{report_id} never answers classified without a classification,
\* although it reads the two in separate statements.
THEOREM AnswersComplete == Spec => []GetNeverBlank
<1>1. IInv => GetNeverBlank
  BY DEF IInv, CallsInv, GetNeverBlank, Calls
<1> QED  BY <1>1, Invariance, PTL
=============================================================================
