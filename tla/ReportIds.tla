----------------------------- MODULE ReportIds -----------------------------
(***************************************************************************)
(* The report ids that new_report_id can return.  A workflow id and a NATS *)
(* message id are made from a report id, so the store, the Temporal server *)
(* and the event stream are all indexed by this set.                       *)
(***************************************************************************)
CONSTANT Reports
=============================================================================
