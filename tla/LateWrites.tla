----------------------------- MODULE LateWrites -----------------------------
(***************************************************************************)
(* TriageSystem with a history variable: the reports whose status was      *)
(* changed, since their current run started, by an attempt that the server *)
(* had given up on.  Nothing in the code holds such a write back, so what  *)
(* a run leaves behind can only be promised of the other reports.          *)
(***************************************************************************)
EXTENDS TriageSystem

VARIABLE overtaken

watchedVars == <<vars, overtaken>>

\* An attempt whose run has moved on, or was terminated, changes the status.
LateWrite(a) == status' # status /\ ~IsCurrent(a) /\ MarkStatus(a)

\* The next run starts with a clean record.
Watch ==
  overtaken' = {r \in Reports :
    /\ run'[r].number = run[r].number
    /\ r \in overtaken \/ \E a \in attempts : a.report = r /\ LateWrite(a)}

WatchedInit == Init /\ overtaken = {}

WatchedSpec == WatchedInit /\ [][Next /\ Watch]_watchedVars
-----------------------------------------------------------------------------
\* A run that closed left its outcome in the status: classified when it completed,
\* failed when it failed and recorded that.  Resets, terminations, timeouts, retries,
\* lost answers of start_workflow and statements left out because they seemed to
\* change nothing end with the status of the last run, however late attempts are:
\* except where one of them did change the status after that run had started, and
\* where a call is still under way, was cut off, or could not start its run.
SettledUnlessOvertaken ==
  \A r \in Reports \ overtaken :
    CallsSettled(r) => /\ run[r].step = "completed" => status[r] = "classified"
                       /\ run[r].step = "failed" => status[r] = "failed"
=============================================================================
