----------------------------- MODULE ReportsApi -----------------------------
(***************************************************************************)
(* The handlers of api/reports.py: create_report, reprocess_report and     *)
(* get_report.  A call is one request; its handler runs in a task of its   *)
(* own and gives way to the others at every await, so each of its actions  *)
(* is the code between two accesses to the store or to Temporal.  A call   *)
(* may end at any of them: the API process dies, or the store raises.      *)
(***************************************************************************)
EXTENDS ReportStore, TemporalServer

CONSTANTS CreateCalls,     \* the calls to POST /reports
          ReprocessCalls,  \* the calls to POST /reports/{report_id}/reprocess
          GetCalls,        \* the calls to GET /reports/{report_id}
          KeyOf,           \* the Idempotency-Key of each create call
          NoReport         \* the report of a call that has none

ASSUME KeyOfAssumption == KeyOf \in [CreateCalls -> Keys \cup {NoKey}]
ASSUME CallsAssumption ==
  /\ CreateCalls \cap ReprocessCalls = {}
  /\ CreateCalls \cap GetCalls = {}
ASSUME NoReportAssumption == NoReport \notin Reports

VARIABLE call  \* the state of each request

apiVars == <<storeVars, temporalVars, call>>

Calls == CreateCalls \cup ReprocessCalls \cup GetCalls

\* The next await of the handler, or how the call ended.
Points == {"arrived", "insert", "relookup", "reset", "start", "reload", "mark", "rows",
           "answered", "aborted"}

\* HTTP status codes; 0 before there is an answer.
Codes == {0, 200, 202, 404, 500, 503}

\* seen: the status loaded or answered; shown: the classification it shows.
CallStates == [at : Points, report : Reports \cup {NoReport}, seen : Statuses \cup {"none"},
               shown : Rows, code : Codes]

ApiTypeOK ==
  /\ StoreTypeOK
  /\ run \in [Reports -> Runs]
  /\ call \in [Calls -> CallStates]

Arrived == [at |-> "arrived", report |-> NoReport, seen |-> "none", shown |-> "none", code |-> 0]

ApiInit == call = [c \in Calls |-> Arrived]
-----------------------------------------------------------------------------
Become(c, point, r, s, rows, code) ==
  call' = [call EXCEPT ![c] =
             [at |-> point, report |-> r, seen |-> s, shown |-> rows, code |-> code]]

GoWith(c, point, r, s) == Become(c, point, r, s, "none", 0)

Go(c, point) == GoWith(c, point, call[c].report, call[c].seen)

Answer(c, code, r, s) == Become(c, "answered", r, s, "none", code)
-----------------------------------------------------------------------------
(* POST /reports *)

\* Without a key there is no lookup.
LookupKey(c) ==
  /\ call[c].at = "arrived"
  /\ \/ \E r \in ReportsOfKey(KeyOf[c]) : Answer(c, 202, r, status[r])
     \/ ReportsOfKey(KeyOf[c]) = {} /\ Go(c, "insert")
  /\ UNCHANGED <<storeVars, temporalVars>>

\* new_report_id may return an id that is taken.  IntegrityError is caught.
InsertReport(c) ==
  /\ call[c].at = "insert"
  /\ \E r \in Reports :
       \/ CreateReport(r, KeyOf[c]) /\ GoWith(c, "start", r, "queued")
       \/ /\ InsertConflicts(r, KeyOf[c])
          /\ \/ KeyOf[c] = NoKey /\ Answer(c, 500, NoReport, "none")
             \/ KeyOf[c] # NoKey /\ Go(c, "relookup")
          /\ UNCHANGED storeVars
  /\ UNCHANGED temporalVars

\* Mutant: the loser of a race on a key starts the workflow again.
Mut_LoserStarts(c) ==
  /\ call[c].at = "relookup"
  /\ \/ \E r \in ReportsOfKey(KeyOf[c]) : GoWith(c, "start", r, status[r])
     \/ ReportsOfKey(KeyOf[c]) = {} /\ Answer(c, 500, NoReport, "none")
  /\ UNCHANGED <<storeVars, temporalVars>>

LookupAgain(c) ==
  /\ call[c].at = "relookup"
  /\ \/ \E r \in ReportsOfKey(KeyOf[c]) : Answer(c, 202, r, status[r])
     \/ ReportsOfKey(KeyOf[c]) = {} /\ Answer(c, 500, NoReport, "none")
  /\ UNCHANGED <<storeVars, temporalVars>>
-----------------------------------------------------------------------------
(* POST /reports/{report_id}/reprocess *)

LoadReport(c) ==
  /\ call[c].at = "arrived"
  /\ \E r \in Reports :
       \/ ~Exists(r) /\ Answer(c, 404, NoReport, "none")
       \/ Exists(r) /\ GoWith(c, "reset", r, status[r])
  /\ UNCHANGED <<storeVars, temporalVars>>

\* Mutant: the reset drops the earlier result.
Mut_ResetDropsResult(c) ==
  /\ call[c].at = "reset"
  /\ status' = OrmWrite(status, call[c].report, call[c].seen, "queued")
  /\ classification' = [classification EXCEPT ![call[c].report] = "none"]
  /\ queueItem' = [queueItem EXCEPT ![call[c].report] = "none"]
  /\ GoWith(c, "start", call[c].report, "queued")
  /\ UNCHANGED <<idempotencyKey, temporalVars>>

\* The session still holds the Report it loaded: no new SELECT.
ResetStatus(c) ==
  /\ call[c].at = "reset"
  /\ UpdateStatus(call[c].report, call[c].seen, "queued")
  /\ GoWith(c, "start", call[c].report, "queued")
  /\ UNCHANGED temporalVars
-----------------------------------------------------------------------------
(* Both: start_workflow, and the sentinel status when it fails.            *)

StartWorkflow(c) ==
  /\ call[c].at = "start"
  /\ StartRun(call[c].report, "load")
  /\ Answer(c, 202, call[c].report, "queued")
  /\ UNCHANGED storeVars

\* The create handler dropped the Report it inserted, the session has to load
\* it again; the reprocess handler still holds its own.
AfterStartFailure(c) == Go(c, IF c \in CreateCalls THEN "reload" ELSE "mark")

\* start_workflow raises: the server refused or was unreachable, or it started
\* the run and the answer was lost.
StartFails(c) ==
  /\ call[c].at = "start"
  /\ AfterStartFailure(c)
  /\ \/ UNCHANGED temporalVars
     \/ StartRun(call[c].report, "load")
  /\ UNCHANGED storeVars

ReloadReport(c) ==
  /\ call[c].at = "reload"
  /\ GoWith(c, "mark", call[c].report, status[call[c].report])
  /\ UNCHANGED <<storeVars, temporalVars>>

\* The inner try swallows an exception of the update: 503 in both cases.
MarkStartFailed(c) ==
  /\ \/ /\ call[c].at = "mark"
        /\ UpdateStatus(call[c].report, call[c].seen, "workflow_start_failed")
     \/ /\ call[c].at \in {"reload", "mark"}
        /\ UNCHANGED storeVars
  /\ Answer(c, 503, call[c].report, "workflow_start_failed")
  /\ UNCHANGED temporalVars
-----------------------------------------------------------------------------
(* GET /reports/{report_id}: one SELECT for the report, then one for each  *)
(* relationship (selectinload).                                            *)

GetStatus(c) ==
  /\ call[c].at = "arrived"
  /\ \E r \in Reports :
       \/ ~Exists(r) /\ Answer(c, 404, NoReport, "none")
       \/ Exists(r) /\ GoWith(c, "rows", r, status[r])
  /\ UNCHANGED <<storeVars, temporalVars>>

GetRows(c) ==
  /\ call[c].at = "rows"
  /\ Become(c, "answered", call[c].report, call[c].seen, classification[call[c].report], 200)
  /\ UNCHANGED <<storeVars, temporalVars>>
-----------------------------------------------------------------------------
InProgress(c) == call[c].at \notin {"arrived", "answered", "aborted"}

\* The process dies or an exception that no handler catches ends the request; one
\* that has not reset its report yet has done nothing to it.
Abort(c) ==
  /\ InProgress(c)
  /\ GoWith(c, "aborted", IF call[c].at = "reset" THEN NoReport ELSE call[c].report, "none")
  /\ UNCHANGED <<storeVars, temporalVars>>

CreateStep(c) == LookupKey(c) \/ InsertReport(c) \/ LookupAgain(c)
ReprocessStep(c) == LoadReport(c) \/ ResetStatus(c)
StartStep(c) == StartWorkflow(c) \/ StartFails(c) \/ ReloadReport(c) \/ MarkStartFailed(c)
GetStep(c) == GetStatus(c) \/ GetRows(c)

ApiNext ==
  \/ \E c \in CreateCalls : CreateStep(c)
  \/ \E c \in ReprocessCalls : ReprocessStep(c)
  \/ \E c \in GetCalls : GetStep(c)
  \/ \E c \in Calls : StartStep(c) \/ Abort(c)
-----------------------------------------------------------------------------
(* The handlers alone, against a server that accepts runs: the races of    *)
(* requests with each other do not depend on what the workflow does.       *)

HandlersInit == StoreInit /\ TemporalInit /\ ApiInit

ApiSpec == HandlersInit /\ [][ApiNext]_apiVars

Accepted(c) == c \in CreateCalls /\ call[c].code = 202

\* Two accepted create calls name the same report exactly when they carry the
\* same key, and that report is there with that key: the lookup, the unique
\* constraint and the second lookup leave no interleaving in which a retry
\* makes a second report or a report is shared by accident.
KeyedAnswersAgree ==
  \A c, d \in CreateCalls :
    Accepted(c) /\ Accepted(d) =>
      /\ Exists(call[c].report)
      /\ idempotencyKey[call[c].report] = KeyOf[c]
      /\ (call[c].report = call[d].report) <=> (c = d \/ (KeyOf[c] = KeyOf[d] /\ KeyOf[c] # NoKey))

\* The report with key k, as the lookup finds it.
ReportWithKey(k) ==
  IF ReportsOfKey(k) = {} THEN NoReport ELSE CHOOSE r \in Reports : r \in ReportsOfKey(k)

Made        == {r \in Reports : Exists(r)}
KeyedReport == [k \in Keys |-> ReportWithKey(k)]
Answered    == [c \in CreateCalls |-> IF Accepted(c) THEN call[c].report ELSE NoReport]

Promise == INSTANCE KeyedCreate WITH
             Calls <- CreateCalls, made <- Made, reportOf <- KeyedReport, answer <- Answered

\* The handlers, their races, collisions and failures implement the promise of
\* POST /reports to a client that retries (KeyedCreate): the report of a key and
\* the answer of a call, once given, never change.
KeyedCreates == Promise!Spec

\* However many create calls race on a key, they start the workflow of its
\* report at most once; any further run is owed to a reprocess call that has
\* reset the report and is past, or was cut off before, its start_workflow.
RunsAreAccountedFor ==
  \A r \in Reports :
    run[r].number <= 1 + Cardinality({c \in ReprocessCalls :
                           call[c].report = r /\ call[c].at # "reset" /\ call[c].at # "start"})

\* A client that was answered 202 has its report triaged: docs/04-api-spec.md:5
\* says that the call creates the report and starts its workflow,
\* docs/01-overview.md:55 that an accepted report is triaged.  Stated of the
\* states where no request is in progress.
AcceptedMeansStarted ==
  (\A c \in Calls : ~InProgress(c)) =>
    \A c \in CreateCalls : Accepted(c) => run[call[c].report].number >= 1
=============================================================================
