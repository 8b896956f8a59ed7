---------------------------- MODULE ReportStore ----------------------------
(***************************************************************************)
(* The tables of the report store (db/models.py) and the repository        *)
(* functions over them (services/reports_repo.py), one row of each table   *)
(* per report.  The store is read committed: a read and the later commit   *)
(* of a session are separate steps of the modules that use this one.       *)
(*                                                                         *)
(* A session writes a column only if the new value differs from the one    *)
(* it loaded: SQLAlchemy leaves an attribute without a net change out of   *)
(* the UPDATE.  Hence OrmWrite takes the value the session saw.            *)
(***************************************************************************)
EXTENDS ReportIds, TriageRules

CONSTANTS Keys,  \* the values of the Idempotency-Key header
          NoKey  \* the absent header

ASSUME NoKeyAssumption == NoKey \notin Keys

VARIABLES
  status,          \* reports.status, or "absent" where there is no row
  idempotencyKey,  \* reports.idempotency_key
  classification,  \* report_classifications.routed_queue, or "none"
  queueItem        \* review_queue_items.queue_name, or "none"

storeVars == <<status, idempotencyKey, classification, queueItem>>

Statuses == {"queued", "processing", "classified", "failed", "workflow_start_failed"}
Rows     == Queues \cup {"none"}

StoreTypeOK ==
  /\ status \in [Reports -> Statuses \cup {"absent"}]
  /\ idempotencyKey \in [Reports -> Keys \cup {NoKey}]
  /\ classification \in [Reports -> Rows]
  /\ queueItem \in [Reports -> Rows]

StoreInit ==
  /\ status = [r \in Reports |-> "absent"]
  /\ idempotencyKey = [r \in Reports |-> NoKey]
  /\ classification = [r \in Reports |-> "none"]
  /\ queueItem = [r \in Reports |-> "none"]
-----------------------------------------------------------------------------
Exists(r) == status[r] # "absent"

\* find_report_by_idempotency_key: the reports with this key, at most one
\* because the column is unique (and NULL keys do not collide).
ReportsOfKey(k) == {r \in Reports : k # NoKey /\ Exists(r) /\ idempotencyKey[r] = k}

\* Mutant: the key column is not unique.
Mut_NoUniqueKey(r, k) == Exists(r)

\* The unique constraints that make the INSERT of report r with key k fail.
InsertConflicts(r, k) == Exists(r) \/ ReportsOfKey(k) # {}

\* Mutant: the key is not handed on to the row.
Mut_KeyNotStored(r, k) ==
  /\ ~InsertConflicts(r, k)
  /\ status' = [status EXCEPT ![r] = "queued"]
  /\ UNCHANGED <<idempotencyKey, classification, queueItem>>

\* create_report and its commit.
CreateReport(r, k) ==
  /\ ~InsertConflicts(r, k)
  /\ status' = [status EXCEPT ![r] = "queued"]
  /\ idempotencyKey' = [idempotencyKey EXCEPT ![r] = k]
  /\ UNCHANGED <<classification, queueItem>>

\* The value of report r in a column after the session that loaded seen
\* commits new.
OrmWrite(column, r, seen, new) ==
  IF seen = new THEN column ELSE [column EXCEPT ![r] = new]

\* update_report_status and reset_report_for_reprocess, from the commit on.
UpdateStatus(r, seen, new) ==
  /\ status' = OrmWrite(status, r, seen, new)
  /\ UNCHANGED <<idempotencyKey, classification, queueItem>>

\* The commit of an upsert whose SELECT saw the row seen: an INSERT when it saw
\* none, which the unique report_id refuses if a row is there by now.
UpsertAllowed(table, r, seen) == seen = "none" => table[r] = "none"

UpsertClassification(r, seen, queue) ==
  /\ UpsertAllowed(classification, r, seen)
  /\ classification' = OrmWrite(classification, r, seen, queue)
  /\ UNCHANGED <<status, idempotencyKey, queueItem>>

UpsertQueueItem(r, seen, queue) ==
  /\ UpsertAllowed(queueItem, r, seen)
  /\ queueItem' = OrmWrite(queueItem, r, seen, queue)
  /\ UNCHANGED <<status, idempotencyKey, classification>>
=============================================================================
