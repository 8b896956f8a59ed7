---------------------- MODULE TriageCompositionProofs ----------------------
(***************************************************************************)
(* What the request handlers and the workflow promise together.  A run     *)
(* that closed is the last word on the status of its report, unless a late *)
(* attempt has overtaken it; what the handlers promise by themselves they  *)
(* promise in the whole system, where they share the store and the runs    *)
(* with the workers; and the system implements ReportProgress.             *)
(***************************************************************************)
EXTENDS LateWrites, TriageSystemProofs, ReportsApiProofs

-----------------------------------------------------------------------------
(* A call disturbs a report from the moment it writes, or is about to      *)
(* write, its status until the run that it starts: a call that never gets  *)
(* that far disturbs it for good.  While nothing disturbs a report and no  *)
(* late attempt has overtaken its run, its status follows its run.         *)

Disturbing(state) ==
  state.at \in {"start", "reload", "mark", "aborted"} \/ state.code = 503

Disturbed(r) == \E c \in Calls : call[c].report = r /\ Disturbing(call[c])

Settled(r) == Disturbed(r) \/ r \in overtaken \/ StatusFollows(r)

SettleInv == TasksInv /\ \A r \in Reports : Settled(r)

\* Call c takes a step that starts no run: what it disturbed it still disturbs, and
\* if it changes the status of a report, it disturbs that one.
CallEffect(c) ==
  /\ call[c].at \notin {"answered", "aborted"}
  /\ \A d \in Calls \ {c} : call'[d] = call[d]
  /\ Disturbing(call[c]) => Disturbing(call'[c]) /\ call'[c].report = call[c].report
  /\ \A r \in Reports : status'[r] # status[r] => Disturbing(call'[c]) /\ call'[c].report = r

\* A report stays overtaken until its next run starts.
LEMMA OvertakenStays ==
  ASSUME Watch, NEW r \in Reports, r \in overtaken, run'[r] = run[r]
  PROVE  r \in overtaken'
  BY DEF Watch

LEMMA CallEffectKeeps ==
  ASSUME SettleInv, Watch, UNCHANGED temporalVars, NEW c \in Calls, CallEffect(c)
  PROVE  SettleInv'
<1>1. run' = run /\ attempts' = attempts
  BY DEF temporalVars
<1>2. TasksInv'
  BY <1>1 DEF SettleInv, TasksInv, BehindRun, SameTask, IsCurrent
<1>3. ASSUME NEW r \in Reports, Disturbed(r)  PROVE Disturbed(r)'
  BY <1>3 DEF Disturbed, CallEffect
<1>4. ASSUME NEW r \in Reports, StatusFollows(r)  PROVE (Disturbed(r) \/ StatusFollows(r))'
  <2>1. CASE status'[r] = status[r]
    BY <1>1, <1>4, <2>1 DEF StatusFollows, IsCurrent
  <2>2. CASE status'[r] # status[r]
    BY <2>2 DEF Disturbed, CallEffect
  <2> QED  BY <2>1, <2>2
<1> QED  BY <1>1, <1>2, <1>3, <1>4, OvertakenStays DEF SettleInv, Settled

\* A run starts: the attempts of the runs before it are late.
LEMMA StartKeeps ==
  ASSUME SettleInv, TypeInv, Watch, NEW c \in Calls, call[c].report \in Reports,
         StartRun(call[c].report, "load"), status' = status,
         \A d \in Calls \ {c} : call'[d] = call[d]
  PROVE  SettleInv'
<1> PICK q : q = call[c].report
  OBVIOUS
<1>1. /\ WorkflowTypeOK /\ run \in [Reports -> Runs] /\ q \in Reports
      /\ StartRun(q, "load") /\ attempts' \subseteq attempts
  BY StopWaitingSubset DEF TypeInv, TypeOK, WorkflowTypeOK, StartRun
<1>2. /\ run'[q].step = "load" /\ run'[q].dispatched = FALSE
      /\ run'[q].number = run[q].number + 1
      /\ \A p \in Reports \ {q} : run'[p] = run[p]
      /\ run' \in [Reports -> Runs]
  BY <1>1, StartRunEffect, StartRunType
<1>3. TasksInv'
  BY <1>1, <1>2, TasksLeft DEF SettleInv
<1>4. StatusFollows(q)'
  <2>1. \A a \in attempts' : a.report = q => ~IsCurrent(a)'
    BY <1>2 DEF IsCurrent
  <2> QED  BY <1>2, <2>1 DEF StatusFollows
<1>5. ASSUME NEW r \in Reports, r # q  PROVE Settled(r)'
  <2>1. CASE Disturbed(r)
    BY <1>5, <2>1 DEF Disturbed, Settled
  <2>2. CASE r \in overtaken
    BY <1>2, <1>5, <2>2, OvertakenStays DEF Settled
  <2>3. CASE StatusFollows(r)
    <3>1. FollowedBy(r)
      BY <1>1, <1>2, <1>5, LeftFollows, Zenon DEF FollowedBy
    <3> QED  BY <2>3, <3>1, FollowsStep DEF Settled
  <2> QED  BY <2>1, <2>2, <2>3 DEF SettleInv, Settled
<1> QED  BY <1>3, <1>4, <1>5 DEF SettleInv, Settled

LEMMA WriteEffect ==
  ASSUME TypeInv, NEW r \in Reports, NEW seen, NEW new, UpdateStatus(r, seen, new)
  PROVE  \A q \in Reports : status'[q] # status[q] => q = r
  BY DEF UpdateStatus, OrmWrite, TypeInv, TypeOK, WorkflowTypeOK, StoreTypeOK
-----------------------------------------------------------------------------
LEMMA ApiKeepsSettled ==
  ASSUME IInv, SettleInv, ApiNext, Watch
  PROVE  SettleInv'
<1>1. /\ TypeInv /\ call \in [Calls -> CallStates]
      /\ CreateCalls \subseteq Calls /\ ReprocessCalls \subseteq Calls /\ GetCalls \subseteq Calls
  BY DEF IInv, TypeInv, TypeOK, ApiTypeOK, Calls
<1>2. \A c \in Calls : /\ call[c].at # "answered" => call[c].code = 0
                       /\ call[c].at \in {"reset", "start", "reload", "mark"} =>
                            call[c].report \in Reports
  BY <1>1 DEF IInv, CallsInv, TypeInv, CallsHaveReports
<1>3. UNCHANGED storeVars => status' = status
  BY DEF storeVars
<1>4. ASSUME NEW c \in CreateCalls, CreateStep(c)  PROVE CallEffect(c) /\ UNCHANGED temporalVars
  <2>1. call[c].at \in {"arrived", "insert", "relookup"} /\ ~Disturbing(call[c])
    BY <1>1, <1>2, <1>4 DEF CreateStep, LookupKey, InsertReport, LookupAgain, Disturbing
  <2>2. \A d \in Calls \ {c} : call'[d] = call[d]
    BY <1>1, <1>4, BecomeEffect
       DEF CreateStep, LookupKey, InsertReport, LookupAgain, Answer, Go, GoWith
  <2>3. CASE status' = status
    BY <1>4, <2>1, <2>2, <2>3
       DEF CallEffect, CreateStep, LookupKey, InsertReport, LookupAgain
  <2>4. ASSUME NEW r \in Reports, CreateReport(r, KeyOf[c]), GoWith(c, "start", r, "queued")
        PROVE  CallEffect(c)
    <3>1. call'[c].at = "start" /\ call'[c].report = r
      BY <1>1, <2>4, BecomeEffect DEF GoWith
    <3>2. \A q \in Reports : status'[q] # status[q] => q = r
      BY <1>1, <2>4 DEF CreateReport, TypeInv, TypeOK, WorkflowTypeOK, StoreTypeOK
    <3> QED  BY <2>1, <2>2, <3>1, <3>2 DEF CallEffect, Disturbing
  <2>5. UNCHANGED temporalVars
    BY <1>4 DEF CreateStep, LookupKey, InsertReport, LookupAgain
  <2> QED
    BY <1>3, <1>4, <2>3, <2>4, <2>5 DEF CreateStep, LookupKey, InsertReport, LookupAgain
<1>5. ASSUME NEW c \in ReprocessCalls, ReprocessStep(c)
      PROVE  CallEffect(c) /\ UNCHANGED temporalVars
  <2>1. call[c].at \in {"arrived", "reset"} /\ ~Disturbing(call[c]) /\ UNCHANGED temporalVars
    BY <1>1, <1>2, <1>5 DEF ReprocessStep, LoadReport, ResetStatus, Disturbing
  <2>2. \A d \in Calls \ {c} : call'[d] = call[d]
    BY <1>1, <1>5, BecomeEffect DEF ReprocessStep, LoadReport, ResetStatus, Answer, GoWith
  <2>3. CASE LoadReport(c)
    BY <1>3, <2>1, <2>2, <2>3 DEF CallEffect, LoadReport
  <2>4. CASE ResetStatus(c)
    <3>1. call'[c].at = "start" /\ call'[c].report = call[c].report
      BY <1>1, <2>4, BecomeEffect DEF ResetStatus, GoWith
    <3>2. \A q \in Reports : status'[q] # status[q] => q = call[c].report
      BY <1>1, <1>2, <2>4, WriteEffect DEF ResetStatus
    <3> QED  BY <2>1, <2>2, <3>1, <3>2 DEF CallEffect, Disturbing
  <2> QED  BY <1>5, <2>1, <2>3, <2>4 DEF ReprocessStep
<1>6. ASSUME NEW c \in GetCalls, GetStep(c)  PROVE CallEffect(c) /\ UNCHANGED temporalVars
  <2>1. /\ call[c].at \in {"arrived", "rows"} /\ ~Disturbing(call[c])
        /\ UNCHANGED temporalVars /\ status' = status
    BY <1>1, <1>2, <1>3, <1>6 DEF GetStep, GetStatus, GetRows, Disturbing
  <2>2. \A d \in Calls \ {c} : call'[d] = call[d]
    BY <1>1, <1>6, BecomeEffect DEF GetStep, GetStatus, GetRows, Answer, GoWith
  <2> QED  BY <2>1, <2>2 DEF CallEffect
<1>7. ASSUME NEW c \in Calls, StartWorkflow(c)  PROVE SettleInv'
  <2>1. \A d \in Calls \ {c} : call'[d] = call[d]
    BY <1>1, <1>7, BecomeEffect DEF StartWorkflow, Answer
  <2> QED  BY <1>1, <1>2, <1>3, <1>7, <2>1, StartKeeps DEF StartWorkflow
<1>8. ASSUME NEW c \in Calls, StartFails(c)  PROVE SettleInv'
  <2>1. /\ call'[c].at \in {"reload", "mark"} /\ call'[c].report = call[c].report
        /\ \A d \in Calls \ {c} : call'[d] = call[d]
    BY <1>1, <1>8, BecomeEffect DEF StartFails, AfterStartFailure, Go, GoWith
  <2>2. CASE StartRun(call[c].report, "load")
    BY <1>1, <1>2, <1>3, <1>8, <2>1, <2>2, StartKeeps DEF StartFails
  <2>3. CASE UNCHANGED temporalVars
    <3>1. CallEffect(c)
      BY <1>3, <1>8, <2>1 DEF StartFails, CallEffect, Disturbing
    <3> QED  BY <2>3, <3>1, CallEffectKeeps
  <2> QED  BY <1>8, <2>2, <2>3 DEF StartFails
<1>9. ASSUME NEW c \in Calls, ReloadReport(c) \/ MarkStartFailed(c) \/ Abort(c)
      PROVE  CallEffect(c) /\ UNCHANGED temporalVars
  <2>1. CASE ReloadReport(c)
    <3>1. /\ call'[c].at = "mark" /\ call'[c].report = call[c].report
          /\ \A d \in Calls \ {c} : call'[d] = call[d]
      BY <1>1, <2>1, BecomeEffect DEF ReloadReport, GoWith
    <3> QED  BY <1>3, <2>1, <3>1 DEF ReloadReport, CallEffect, Disturbing
  <2>2. CASE MarkStartFailed(c)
    <3>1. /\ call'[c].code = 503 /\ call'[c].report = call[c].report
          /\ \A d \in Calls \ {c} : call'[d] = call[d]
      BY <1>1, <2>2, BecomeEffect DEF MarkStartFailed, Answer
    <3>2. \A q \in Reports : status'[q] # status[q] => q = call[c].report
      BY <1>1, <1>2, <1>3, <2>2, WriteEffect DEF MarkStartFailed
    <3> QED  BY <2>2, <3>1, <3>2 DEF MarkStartFailed, CallEffect, Disturbing
  <2>3. CASE Abort(c)
    <3>1. /\ call'[c].at = "aborted"
          /\ call[c].at # "reset" => call'[c].report = call[c].report
          /\ \A d \in Calls \ {c} : call'[d] = call[d]
      BY <1>1, <2>3, BecomeEffect DEF Abort, GoWith
    <3>2. call[c].at = "reset" => ~Disturbing(call[c])
      BY <1>2 DEF Disturbing
    <3> QED  BY <1>3, <2>3, <3>1, <3>2 DEF Abort, InProgress, CallEffect, Disturbing
  <2> QED  BY <1>9, <2>1, <2>2, <2>3
<1> QED
  BY <1>1, <1>4, <1>5, <1>6, <1>7, <1>8, <1>9, CallEffectKeeps DEF ApiNext, StartStep

LEMMA WorkflowKeepsSettled ==
  ASSUME TypeInv, SettleInv, WorkflowNext, Watch, UNCHANGED call
  PROVE  SettleInv'
<1>1. WorkflowTypeOK /\ TasksInv /\ TasksInv'
  BY WorkflowTasks DEF TypeInv, TypeOK, SettleInv
<1>2. ASSUME NEW r \in Reports, r \notin overtaken'
      PROVE  r \notin overtaken /\ NoLateWrite(r)
  <2>1. run'[r].number = run[r].number
    BY <1>1, NumbersStay
  <2> QED  BY <1>2, <2>1 DEF Watch, LateWrite, NoLateWrite
<1>3. ASSUME NEW r \in Reports  PROVE Settled(r)'
  <2>1. CASE Disturbed(r)
    BY <2>1 DEF Disturbed, Settled
  <2>2. CASE r \in overtaken'
    BY <2>2 DEF Settled
  <2>3. CASE r \notin overtaken' /\ ~Disturbed(r)
    <3>1. StatusFollows(r) /\ NoLateWrite(r)
      BY <1>2, <2>3 DEF SettleInv, Settled
    <3> QED  BY <1>1, <3>1, WorkflowFollows DEF Settled
  <2> QED  BY <2>1, <2>2, <2>3
<1> QED  BY <1>1, <1>3 DEF SettleInv

\* A watched behaviour is one of the system.
LEMMA WatchedIsSpec == WatchedSpec => Spec
<1>1. [Next /\ Watch]_watchedVars => [Next]_vars
  BY DEF watchedVars
<1> QED  BY <1>1, PTL DEF WatchedSpec, WatchedInit, Spec

\* The last run that closed decides the status of a report, however many calls, runs,
\* retries, timeouts and late attempts there are, unless a late attempt has changed
\* the status since that run started, and while no call about the report is under
\* way, cut off or unable to start its run.
THEOREM RunsSettle == WatchedSpec => []SettledUnlessOvertaken
<1>1. WatchedInit => SettleInv
  <2> SUFFICES ASSUME WatchedInit PROVE SettleInv
    OBVIOUS
  <2>1. TasksInv
    BY DEF WatchedInit, Init, TemporalInit, TasksInv
  <2>2. \A r \in Reports : run[r].step = "none"
    BY DEF WatchedInit, Init, TemporalInit, NoRun
  <2>3. \A r \in Reports : StatusFollows(r)
    BY <2>2 DEF WatchedInit, Init, TemporalInit, StatusFollows
  <2> QED  BY <2>1, <2>3 DEF SettleInv, Settled
<1>2. IInv /\ SettleInv /\ [Next /\ Watch]_watchedVars => SettleInv'
  <2>1. IInv /\ SettleInv /\ Next /\ Watch => SettleInv'
    BY ApiKeepsSettled, WorkflowKeepsSettled DEF IInv, Next
  <2>2. SettleInv /\ UNCHANGED watchedVars => SettleInv'
    BY DEF watchedVars, vars, storeVars, temporalVars, SettleInv, Settled, TasksInv, BehindRun,
           SameTask, IsCurrent, StatusFollows, Disturbed
  <2> QED  BY <2>1, <2>2
<1>3. SettleInv => SettledUnlessOvertaken
  <2> SUFFICES ASSUME SettleInv, NEW r \in Reports \ overtaken, CallsSettled(r)
               PROVE  /\ run[r].step = "completed" => status[r] = "classified"
                      /\ run[r].step = "failed" => status[r] = "failed"
    BY DEF SettledUnlessOvertaken
  <2>1. ~Disturbed(r)
    BY DEF CallsSettled, Disturbed, Disturbing
  <2> QED  BY <2>1 DEF SettleInv, Settled, StatusFollows
<1> QED  BY <1>1, <1>2, <1>3, Invariance, WatchedIsSpec, PTL DEF WatchedSpec
-----------------------------------------------------------------------------
(* The workflow beside the handlers.  It neither makes nor removes a       *)
(* report: a session that writes a status found the row.                   *)

ReadersFoundRow ==
  \A a \in attempts : a.step \in MarkActivities /\ a.phase = "read" => Exists(a.report)

LEMMA ReadersStep ==
  ASSUME TypeInv, StoreEffect, ReadersFoundRow, Next
  PROVE  ReadersFoundRow'
<1>1. /\ attempts \subseteq Attempts
      /\ \A a \in attempts : a.report \in Reports
      /\ \A r \in Reports : Exists(r) => Exists(r)'
  BY NothingVanishes DEF TypeInv, TypeOK, WorkflowTypeOK, Attempts
<1>2. CASE attempts' \subseteq attempts
  BY <1>1, <1>2 DEF ReadersFoundRow
<1>3. ASSUME NEW r \in Reports, BeginActivity(r)  PROVE ReadersFoundRow'
  <2> PICK fresh :
        fresh = [report |-> r, number |-> run[r].number, step |-> run[r].step,
                 try |-> run[r].try, seen |-> "none",
                 phase |-> IF run[r].step \in PureActivities THEN "done" ELSE "start"]
    OBVIOUS
  <2>1. attempts' = attempts \cup {fresh} /\ fresh.phase # "read"
    BY <1>3 DEF BeginActivity, Dispatch
  <2> QED  BY <1>1, <2>1 DEF ReadersFoundRow
<1>4. ASSUME NEW a \in attempts, NEW phase, NEW seen, Proceed(a, phase, seen),
             phase = "read" /\ a.step \in MarkActivities => Exists(a.report)
      PROVE  ReadersFoundRow'
  <2> PICK moved : moved = [a EXCEPT !.phase = phase, !.seen = seen]
    OBVIOUS
  <2>1. moved.report = a.report /\ moved.step = a.step /\ moved.phase = phase
    BY <1>1 DEF Attempts
  <2>2. attempts' \subseteq attempts \cup {moved}
    BY <1>4 DEF Proceed
  <2> QED  BY <1>1, <1>4, <2>1, <2>2 DEF ReadersFoundRow
<1>5. ASSUME NEW a \in attempts, AttemptStep(a)  PROVE ReadersFoundRow'
  <2>1. MarkActivities = {"mark_processing", "mark_classified", "mark_failed"}
    BY MarkDef
  <2>2. CASE ReadRow(a)
    BY <1>4, <2>1, <2>2 DEF ReadRow
  <2>3. CASE \/ LoadReportRow(a) \/ MarkStatus(a) \/ PersistClassification(a) \/ RouteQueue(a)
             \/ PublishTriaged(a) \/ PublishRouted(a)
    BY <1>4, <2>3 DEF LoadReportRow, MarkStatus, PersistClassification, RouteQueue,
                      PublishTriaged, PublishRouted
  <2>4. CASE Return(a) \/ Raise(a) \/ Vanish(a)
    BY <1>2, <2>4 DEF Return, Raise, Vanish
  <2> QED  BY <1>5, <2>2, <2>3, <2>4 DEF AttemptStep
<1>6. CASE WorkflowNext
  <2>1. ASSUME NEW r \in Reports, Timeout(r)  PROVE ReadersFoundRow'
    BY <1>2, <2>1, StopWaitingSubset DEF Timeout
  <2> QED  BY <1>2, <1>3, <1>5, <1>6, <2>1 DEF WorkflowNext, WindowStep, temporalVars
<1>7. CASE ApiNext
  <2>1. attempts' \subseteq attempts
    BY <1>7, StopWaitingSubset
       DEF ApiNext, CreateStep, LookupKey, InsertReport, LookupAgain, ReprocessStep, LoadReport,
           ResetStatus, GetStep, GetStatus, GetRows, StartStep, StartWorkflow, StartFails,
           ReloadReport, MarkStartFailed, Abort, StartRun, temporalVars
  <2> QED  BY <1>2, <2>1
<1> QED  BY <1>6, <1>7 DEF Next

\* A step of the workflow is the step of somebody else for the handlers.
LEMMA WorkflowKeepsReports ==
  ASSUME TypeInv, StoreEffect, ReadersFoundRow, WorkflowNext, StoreTypeOK'
  PROVE  StoreKept
<1>1. status' \in [Reports -> Statuses \cup {"absent"}] /\ classification' \in [Reports -> Rows]
  BY DEF StoreTypeOK
<1>2. CASE UNCHANGED status /\ UNCHANGED idempotencyKey
  BY <1>1, <1>2 DEF StoreKept, Exists
<1>3. ASSUME NEW a \in attempts, MarkStatus(a)  PROVE StoreKept
  <2>1. /\ a.report \in Reports /\ Exists(a.report) /\ idempotencyKey' = idempotencyKey
        /\ StatusWrites[a.step] # "absent"
        /\ status' = OrmWrite(status, a.report, a.seen, StatusWrites[a.step])
    BY <1>3, MarkDef
       DEF MarkStatus, UpdateStatus, ReadersFoundRow, TypeInv, TypeOK, WorkflowTypeOK, Attempts
  <2>2. status \in [Reports -> Statuses \cup {"absent"}]
    BY DEF TypeInv, TypeOK, WorkflowTypeOK, StoreTypeOK
  <2>3. \A r \in Reports : Exists(r)' = Exists(r)
    <3>1. CASE a.seen = StatusWrites[a.step]
      BY <2>1, <3>1 DEF OrmWrite, Exists
    <3>2. CASE a.seen # StatusWrites[a.step]
      BY <2>1, <2>2, <3>2 DEF OrmWrite, Exists
    <3> QED  BY <3>1, <3>2
  <2> QED  BY <1>1, <2>1, <2>3 DEF StoreKept
<1>4. ASSUME NEW a \in attempts, AttemptStep(a)  PROVE StoreKept
  <2>1. CASE PersistClassification(a) \/ RouteQueue(a)
    BY <1>2, <2>1 DEF PersistClassification, RouteQueue, UpsertClassification, UpsertQueueItem
  <2>2. CASE UNCHANGED storeVars
    BY <1>2, <2>2 DEF storeVars
  <2> QED
    BY <1>3, <1>4, <2>1, <2>2
       DEF AttemptStep, LoadReportRow, ReadRow, PublishTriaged, PublishRouted, Return, Raise, Vanish
<1>5. ASSUME NEW r \in Reports, BeginActivity(r) \/ Timeout(r)  PROVE StoreKept
  BY <1>2, <1>5 DEF BeginActivity, Timeout, storeVars
<1> QED  BY <1>2, <1>4, <1>5 DEF WorkflowNext, WindowStep, storeVars

\* What the handlers count and what the workflow and the store give each other.
ComposedInv == IInv /\ ReadersFoundRow /\ ApiInv /\ CountInv

LEMMA ComposedInit == Init => ComposedInv
<1> SUFFICES ASSUME Init PROVE ComposedInv
  OBVIOUS
<1>1. HandlersInit /\ attempts = {}
  BY DEF Init, HandlersInit, TemporalInit
<1> QED
  BY <1>1, InitInv, ApiInitInv, CountInit DEF ComposedInv, ReadersFoundRow, HandlersInit

LEMMA ComposedStep ==
  ASSUME ComposedInv, [Next]_vars
  PROVE  ComposedInv' /\ [Promise!Next]_(Promise!vars)
<1>1. IInv' /\ IInv /\ TypeInv /\ AboutReports /\ StartsInv
      /\ status \in [Reports -> Statuses \cup {"absent"}]
  BY NextInv DEF ComposedInv, IInv, TypeInv, TypeOK, ApiTypeOK, StoreTypeOK, CallsHaveReports,
                 AboutReports, CountInv
<1>2. StoreTypeOK' /\ run' \in [Reports -> Runs]
  BY <1>1 DEF IInv, TypeInv, TypeOK, ApiTypeOK
<1>3. run' = [r \in Reports |-> run'[r]]
  BY <1>2
<1>4. CASE UNCHANGED vars
  <2>1. call' = call /\ run' = run /\ status' = status /\ attempts' = attempts /\ UNCHANGED storeVars
    BY <1>4 DEF vars, storeVars, temporalVars
  <2>2. PromiseStep
    BY <2>1, KeptWhenUnchanged, OthersStep DEF ComposedInv, ApiInv
  <2>3. CountInv'
    BY <1>3, <2>1, OthersCount DEF ComposedInv, Exists
  <2>4. ReadersFoundRow'
    BY <2>1 DEF ComposedInv, ReadersFoundRow, Exists
  <2> QED  BY <1>1, <2>2, <2>3, <2>4 DEF ComposedInv, PromiseStep
<1>5. CASE Next
  <2>1. StoreEffect
    BY <1>1, <1>5, WorkflowStoreEffect, ApiStoreEffect DEF IInv, Next
  <2>2. ReadersFoundRow'
    BY <1>1, <1>5, <2>1, ReadersStep DEF ComposedInv
  <2>3. CASE WorkflowNext /\ UNCHANGED call
    <3>1. StoreKept
      BY <1>1, <1>2, <2>1, <2>3, WorkflowKeepsReports DEF ComposedInv
    <3>2. PromiseStep
      BY <2>3, <3>1, OthersStep DEF ComposedInv
    <3>3. \A r \in Reports : run'[r].number = run[r].number
      BY <1>1, <2>3, NumbersStay DEF TypeInv, TypeOK
    <3>4. CountInv'
      BY <1>3, <2>3, <3>1, <3>3, OthersCount DEF ComposedInv, StoreKept
    <3> QED  BY <1>1, <2>2, <3>2, <3>4 DEF ComposedInv, PromiseStep
  <2>4. CASE ApiNext /\ UNCHANGED streamVars
    <3>1. PromiseStep
      BY <2>4, ApiNextStep DEF ComposedInv
    <3>2. CountInv'
      BY <1>1, <2>4, ApiMoves, CountStep DEF ComposedInv
    <3> QED  BY <1>1, <2>2, <3>1, <3>2 DEF ComposedInv, PromiseStep
  <2> QED  BY <1>5, <2>3, <2>4 DEF Next
<1> QED  BY <1>4, <1>5

\* Handlers beside the workflow keep the handlers' own invariants: the workers and
\* the runs are somebody else that neither makes nor removes a report, nor moves a
\* request, nor starts a run.
THEOREM ComposedInvariance == Spec => []ComposedInv
<1>1. ComposedInv /\ [Next]_vars => ComposedInv'
  BY ComposedStep
<1> QED  BY <1>1, ComposedInit, PTL DEF Spec

\* The whole system keeps the promise of the Idempotency-Key: whatever the workers,
\* the retries and the runs write to the store meanwhile, the report of a key and
\* the answer of a call, once given, never change.
THEOREM SystemKeepsPromise == Spec => KeyedCreates
<1>1. Init => Promise!Init
  <2> SUFFICES ASSUME Init PROVE Promise!Init
    OBVIOUS
  <2>1. HandlersInit
    BY DEF Init, HandlersInit
  <2> QED  BY <2>1, PromiseInit
<1>2. ComposedInv /\ [Next]_vars => [Promise!Next]_(Promise!vars)
  BY ComposedStep
<1> QED  BY <1>1, <1>2, ComposedInvariance, PTL DEF Spec, KeyedCreates, Promise!Spec

\* Accepted create calls name the same report exactly when they carry the same key,
\* in the whole system.
THEOREM SystemAnswersAgree == Spec => []KeyedAnswersAgree
<1>1. ComposedInv => KeyedAnswersAgree
  BY AnswersAgree DEF ComposedInv
<1> QED  BY <1>1, ComposedInvariance, PTL

\* In the whole system too, no retry, timeout or failure of an activity starts a run:
\* the create calls account for one at most, the reprocess calls for the others.
THEOREM SystemRunsAccounted == Spec => []RunsAreAccountedFor
<1>1. ComposedInv => RunsAreAccountedFor
  BY CountImplies DEF ComposedInv
<1> QED  BY <1>1, ComposedInvariance, PTL
-----------------------------------------------------------------------------
(* TriageSystem implements ReportProgress for every report.  Each step     *)
(* that touches a report takes one step of its progress, or none; the      *)
(* invariant of TriageSystemProofs supplies the guards.                    *)

ProgressStep(r) == Progress(r)!Next \/ UNCHANGED Progress(r)!vars

LEMMA Untouched ==
  ASSUME NEW r \in Reports, status'[r] = status[r], classification'[r] = classification[r],
         queueItem'[r] = queueItem[r], stream' = stream
  PROVE  ProgressStep(r)
BY DEF ProgressStep, Progress!vars, Filed, Shown, Announced

\* A new status of a report that exists.
LEMMA StatusProgress ==
  ASSUME IInv, NEW r \in Reports, NEW q \in Reports, NEW seen, NEW new \in Statuses,
         UpdateStatus(q, seen, new), Exists(q), new = "classified" => HasItem(q), stream' = stream
  PROVE  ProgressStep(r)
<1>1. /\ status'[r] = status[r] \/ (q = r /\ status'[r] = new)
      /\ UNCHANGED <<classification, queueItem>>
  BY DEF UpdateStatus, OrmWrite, IInv, TypeInv, TypeOK, WorkflowTypeOK, StoreTypeOK
<1>2. Filed(r)' = Filed(r) /\ Announced(r)' = Announced(r)
  BY <1>1 DEF Filed, Announced
<1>3. CASE Shown(r)' = Shown(r)
  BY <1>2, <1>3 DEF ProgressStep, Progress!vars
<1>4. CASE Shown(r)' # Shown(r)
  <2>1. q = r /\ status'[r] = new /\ new # status[r] /\ status[r] # "absent"
    BY <1>1, <1>4 DEF Shown, Exists
  <2>2. CASE new = "classified"
    <3>1. Shown(r) = "open" /\ Shown(r)' = "classified" /\ Filed(r) = "queue item"
      BY <2>1, <2>2 DEF Shown, Filed, HasItem
    <3> QED  BY <1>2, <3>1 DEF ProgressStep, Progress!Next, Progress!Show
  <2>3. CASE new # "classified"
    <3>1. Shown(r) = "classified" /\ Shown(r)' = "open"
      BY <1>4, <2>1, <2>3 DEF Shown, Statuses
    <3> QED  BY <1>2, <3>1 DEF ProgressStep, Progress!Next, Progress!Reopen
  <2> QED  BY <2>2, <2>3
<1> QED  BY <1>3, <1>4

LEMMA CreateProgress ==
  ASSUME IInv, NEW r \in Reports, NEW q \in Reports, NEW k, CreateReport(q, k), stream' = stream
  PROVE  ProgressStep(r)
<1>1. CASE q # r
  BY <1>1, Untouched DEF CreateReport, IInv, TypeInv, TypeOK, WorkflowTypeOK, StoreTypeOK
<1>2. CASE q = r
  <2>1. Shown(r) = "absent" /\ Shown(r)' = "open"
    BY <1>2 DEF CreateReport, InsertConflicts, Exists, Shown, IInv, TypeInv, TypeOK,
                WorkflowTypeOK, StoreTypeOK
  <2>2. Filed(r)' = Filed(r) /\ Announced(r)' = Announced(r)
    BY DEF CreateReport, Filed, Announced
  <2> QED  BY <2>1, <2>2 DEF ProgressStep, Progress!Next, Progress!Create
<1> QED  BY <1>1, <1>2

\* A classification or a queue item is committed.
LEMMA FileProgress ==
  ASSUME IInv, NEW r \in Reports, NEW a \in attempts, PersistClassification(a) \/ RouteQueue(a)
  PROVE  ProgressStep(r)
<1> USE DEF IInv, TypeInv, TypeOK, WorkflowTypeOK, StoreTypeOK
<1>1. a.report \in Reports
  BY DEF Attempts
<1>2. UNCHANGED <<status, stream>>
  BY DEF PersistClassification, RouteQueue, UpsertClassification, UpsertQueueItem, streamVars
<1>3. Shown(r)' = Shown(r) /\ Announced(r)' = Announced(r)
  BY <1>2 DEF Shown, Announced
<1>4. CASE Filed(r)' = Filed(r)
  BY <1>3, <1>4 DEF ProgressStep, Progress!vars
<1>5. CASE PersistClassification(a) /\ Filed(r)' # Filed(r)
  <2>1. /\ UNCHANGED queueItem
        /\ classification'[r] \in {classification[r], Queue(r)}
    BY <1>1, <1>5 DEF PersistClassification, UpsertClassification, OrmWrite
  <2>2. Filed(r) = "nothing" /\ Filed(r)' = "classification"
    BY <1>5, <2>1, QueueType DEF Filed, RowsInv, HasItem, HasClassification
  <2> QED  BY <1>3, <2>2 DEF ProgressStep, Progress!Next, Progress!FileClassification
<1>6. CASE RouteQueue(a) /\ Filed(r)' # Filed(r)
  <2>1. /\ UNCHANGED classification
        /\ queueItem'[r] = queueItem[r] \/ (a.report = r /\ queueItem'[r] = Queue(r))
    BY <1>1, <1>6 DEF RouteQueue, UpsertQueueItem, OrmWrite
  <2>2. HasClassification(a.report)
    BY <1>6 DEF RouteQueue, AttemptsInv, AfterPersist
  <2>3. Queue(r) # "none"
    BY QueueType
  <2>4. queueItem[r] = "none" /\ a.report = r /\ queueItem'[r] # "none"
    BY <1>6, <2>1, <2>3 DEF Filed
  <2>5. Filed(r) = "classification" /\ Filed(r)' = "queue item"
    BY <2>2, <2>4 DEF Filed, HasClassification
  <2> QED  BY <1>3, <2>5 DEF ProgressStep, Progress!Next, Progress!FileItem
<1> QED  BY <1>4, <1>5, <1>6

\* A message is published, or dropped as a duplicate.
LEMMA AnnounceProgress ==
  ASSUME IInv, NEW r \in Reports, NEW a \in attempts, PublishTriaged(a) \/ PublishRouted(a)
  PROVE  ProgressStep(r)
<1> USE DEF IInv, TypeInv, TypeOK, WorkflowTypeOK
<1>1. a.report \in Reports /\ UNCHANGED storeVars
  BY DEF Attempts, PublishTriaged, PublishRouted
<1>2. PICK subject \in Subjects :
        /\ Publish(subject, a.report)
        /\ subject = "routed" => a.phase = "announced"
  BY DEF PublishTriaged, PublishRouted, Subjects
<1>3. HasItem(a.report)
  BY DEF PublishTriaged, PublishRouted, AttemptsInv, AfterRoute
<1>4. subject = "routed" => "triaged" \in Announced(a.report)
  BY <1>2 DEF EventsInv, Triaged, Announced, Subjects
<1>5. Filed(r)' = Filed(r) /\ Shown(r)' = Shown(r)
  BY <1>1 DEF Filed, Shown, storeVars
<1>6. Announced(r)' = IF a.report = r THEN Announced(r) \cup {subject} ELSE Announced(r)
  <2> DEFINE m == [subject |-> subject, report |-> a.report]
  <2>1. /\ Len(stream) \in Nat /\ Len(stream') \in Nat /\ Len(stream) <= Len(stream')
        /\ \A i \in 1..Len(stream) : stream'[i] = stream[i]
        /\ \A i \in 1..Len(stream') : i \in 1..Len(stream) \/ stream'[i] = m
        /\ \E i \in 1..Len(stream') : stream'[i] = m
    BY <1>1, <1>2, PublishEffect
  <2>2. ASSUME NEW s \in Subjects
        PROVE  s \in Announced(r)' <=> s \in Announced(r) \/ (a.report = r /\ s = subject)
    <3>1. [subject |-> s, report |-> r] = m <=> a.report = r /\ s = subject
      OBVIOUS
    <3> DEFINE n == [subject |-> s, report |-> r]
    <3>2. (\E i \in 1..Len(stream') : stream'[i] = n)
            <=> (\E i \in 1..Len(stream) : stream[i] = n) \/ n = m
      <4> HIDE DEF m, n
      <4> QED  BY <2>1
    <3> QED  BY <3>1, <3>2 DEF Announced
  <2>3. Announced(r) \subseteq Subjects /\ Announced(r)' \subseteq Subjects
    BY DEF Announced
  <2> QED  BY <2>2, <2>3
<1>7. CASE a.report # r
  BY <1>5, <1>6, <1>7 DEF ProgressStep, Progress!vars
<1>8. CASE a.report = r
  <2>1. Filed(r) = "queue item"
    BY <1>3, <1>8 DEF Filed, HasItem
  <2>2. Progress(r)!Announce(subject)
    BY <1>4, <1>5, <1>6, <1>8, <2>1 DEF Progress!Announce
  <2> QED  BY <2>2 DEF ProgressStep, Progress!Next, Subjects
<1> QED  BY <1>7, <1>8

LEMMA EveryStep ==
  ASSUME IInv, ReadersFoundRow, [Next]_vars, NEW r \in Reports
  PROVE  ProgressStep(r)
<1>1. CASE UNCHANGED <<storeVars, stream>>
  BY <1>1, Untouched DEF storeVars
<1>2. ASSUME NEW a \in attempts, MarkStatus(a)  PROVE ProgressStep(r)
  <2>1. /\ a.report \in Reports /\ Exists(a.report)
        /\ a.step \in MarkActivities /\ StatusWrites[a.step] \in Statuses
        /\ StatusWrites[a.step] = "classified" => a.step = "mark_classified"
    BY <1>2, MarkDef
       DEF MarkStatus, ReadersFoundRow, IInv, TypeInv, TypeOK, WorkflowTypeOK, Attempts, Statuses
  <2>2. StatusWrites[a.step] = "classified" => HasItem(a.report)
    BY <2>1 DEF IInv, AttemptsInv, AfterRoute
  <2> QED  BY <1>2, <2>1, <2>2, StatusProgress DEF MarkStatus, streamVars
<1>3. CASE WorkflowNext
  BY <1>1, <1>2, <1>3, FileProgress, AnnounceProgress
     DEF WorkflowNext, AttemptStep, BeginActivity, Timeout, WindowStep, ForgetOldest, streamVars,
         LoadReportRow, ReadRow, Return, Raise, Vanish
<1>4. ASSUME NEW c \in Calls, NEW new \in {"queued", "workflow_start_failed"},
             call[c].at \in {"reset", "mark"}, UpdateStatus(call[c].report, call[c].seen, new),
             stream' = stream
      PROVE  ProgressStep(r)
  <2>1. call[c].report \in Reports /\ Exists(call[c].report)
    BY <1>4 DEF IInv, TypeInv, CallsHaveReports
  <2>2. new \in Statuses /\ new # "classified"
    BY DEF Statuses
  <2> QED  BY <1>4, <2>1, <2>2, StatusProgress
<1>5. ASSUME NEW c \in Calls, LookupKey(c) \/ LookupAgain(c) \/ LoadReport(c) \/ StartWorkflow(c)
                                \/ StartFails(c) \/ ReloadReport(c) \/ GetStep(c) \/ Abort(c),
             UNCHANGED streamVars
      PROVE  ProgressStep(r)
  BY <1>1, <1>5 DEF LookupKey, LookupAgain, LoadReport, StartWorkflow, StartFails, ReloadReport,
                    GetStep, GetStatus, GetRows, Abort, streamVars
<1>6. ASSUME NEW c \in Calls, InsertReport(c), UNCHANGED streamVars  PROVE ProgressStep(r)
  BY <1>1, <1>6, CreateProgress DEF InsertReport, streamVars
<1>7. ASSUME NEW c \in Calls, ResetStatus(c) \/ MarkStartFailed(c), UNCHANGED streamVars
      PROVE  ProgressStep(r)
  BY <1>1, <1>4, <1>7 DEF ResetStatus, MarkStartFailed, streamVars
<1>8. CASE ApiNext /\ UNCHANGED streamVars
  BY <1>5, <1>6, <1>7, <1>8 DEF ApiNext, CreateStep, ReprocessStep, StartStep, Calls
<1>9. CASE UNCHANGED vars
  BY <1>1, <1>9 DEF vars, streamVars
<1> QED  BY <1>3, <1>8, <1>9 DEF Next

LEMMA InitProgress == Init => \A r \in Reports : Progress(r)!Init
<1> SUFFICES ASSUME Init, NEW r \in Reports PROVE Progress(r)!Init
  OBVIOUS
<1>1. Announced(r) = {}
  BY DEF Init, StreamInit, Announced
<1>2. Filed(r) = "nothing" /\ Shown(r) = "absent"
  BY DEF Init, StoreInit, Filed, Shown
<1> QED  BY <1>1, <1>2 DEF Progress!Init
-----------------------------------------------------------------------------
\* The system implements ReportProgress for every report: results and events are
\* never taken back and never out of order, whatever overlaps.
THEOREM ProgressImplemented == Spec => ReportsProgress
<1>1. IInv /\ ReadersFoundRow /\ [Next]_vars => ProgressSteps
  BY EveryStep DEF ProgressStep, ProgressSteps
<1>2. IInv /\ ReadersFoundRow /\ [Next]_vars => [ProgressSteps]_<<storeVars, stream>>
  BY <1>1
<1>3. Spec => [][ProgressSteps]_<<storeVars, stream>>
  <2>1. ComposedInv => IInv /\ ReadersFoundRow
    BY DEF ComposedInv
  <2> QED  BY <1>2, <2>1, ComposedInvariance, PTL DEF Spec
<1>4. Spec => \A r \in Reports : Progress(r)!Init
  BY InitProgress DEF Spec
<1> QED  BY <1>3, <1>4 DEF ReportsProgress
=============================================================================
