---------------------------- MODULE TriageSystem ----------------------------
(***************************************************************************)
(* The triage agent from the API to the event stream: the request handlers *)
(* and the workflow's activities share the report store and the Temporal   *)
(* server.                                                                 *)
(***************************************************************************)
EXTENDS TriageWorkflow, ReportsApi

vars == <<storeVars, temporalVars, streamVars, call>>

TypeOK == WorkflowTypeOK /\ ApiTypeOK

Init == StoreInit /\ TemporalInit /\ StreamInit /\ ApiInit

Next == \/ WorkflowNext /\ UNCHANGED call
        \/ ApiNext /\ UNCHANGED streamVars

Spec == Init /\ [][Next]_vars
-----------------------------------------------------------------------------
Filed(r) == IF queueItem[r] # "none" THEN "queue item"
            ELSE IF classification[r] # "none" THEN "classification"
            ELSE "nothing"

Shown(r) == IF status[r] \in {"absent", "classified"} THEN status[r] ELSE "open"

Announced(r) ==
  {s \in Subjects : \E i \in 1..Len(stream) : stream[i] = [subject |-> s, report |-> r]}

Progress(r) == INSTANCE ReportProgress WITH
                 filed <- Filed(r), shown <- Shown(r), announced <- Announced(r)

\* A step of the promise for each report, or none: most leave rows and stream alone,
\* which TLC tries first.
ProgressSteps ==
  \/ UNCHANGED <<storeVars, stream>>
  \/ \A r \in Reports : UNCHANGED Progress(r)!vars \/ Progress(r)!Next

\* The handlers, runs and attempts together implement ReportProgress for every
\* report: no race, retry, termination, late attempt or reset takes a filed
\* result or an event back, skips a step, or lets a report read classified
\* before its result is there.  This is Progress(r)!Spec for every r.
ReportsProgress ==
  /\ \A r \in Reports : Progress(r)!Init
  /\ [][ProgressSteps]_<<storeVars, stream>>

\* A GET that answers classified also shows a classification, although it reads
\* the status before the rows and both are being written meanwhile: rows are
\* committed first and a reprocess keeps them (reset_report_for_reprocess).
GetNeverBlank ==
  \A c \in GetCalls : call[c].code = 200 /\ call[c].seen = "classified" => call[c].shown # "none"

\* Every call about r was answered, and none failed to start its run.
CallsSettled(r) ==
  \A c \in Calls : call[c].report = r => call[c].at = "answered" /\ call[c].code # 503

\* Moreover nothing that could write the status of r again is on its way.
Quiet(r) == CallsSettled(r) /\ \A a \in attempts : a.report # r

\* A completed run is the last word on its report: README.md:208 and
\* docs/06-workflow-and-events.md:14 say that the result of the new run
\* overwrites that of the old, whose late writes are cut off.
SettledStatus ==
  \A r \in Reports : Quiet(r) /\ run[r].step = "completed" => status[r] = "classified"

\* db/enums.py:15: workflow_start_failed tells an operator that the report was
\* not even tried, so there is no classification of it.
StartFailedMeansUntried ==
  \A r \in Reports : status[r] = "workflow_start_failed" => classification[r] = "none"
=============================================================================
