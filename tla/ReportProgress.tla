--------------------------- MODULE ReportProgress ---------------------------
(***************************************************************************)
(* What the triage agent promises about one report, whatever calls, runs,  *)
(* retries and late attempts overlap: its result is filed in two steps and *)
(* never taken back; it reads classified only when both are done; its      *)
(* events are announced only then, triaged before routed, and never        *)
(* withdrawn.  What takes classified away again is left open: a reprocess, *)
(* a late attempt that marks the report, or a start that failed.           *)
(***************************************************************************)
VARIABLES
  filed,     \* what of the result is in the store
  shown,     \* whether the report is there and reads classified
  announced  \* the subjects of its events on the stream

vars == <<filed, shown, announced>>

Init == filed = "nothing" /\ shown = "absent" /\ announced = {}

Create == shown = "absent" /\ shown' = "open" /\ UNCHANGED <<filed, announced>>

FileClassification ==
  filed = "nothing" /\ filed' = "classification" /\ UNCHANGED <<shown, announced>>

FileItem == filed = "classification" /\ filed' = "queue item" /\ UNCHANGED <<shown, announced>>

Show == /\ shown = "open"
        /\ filed = "queue item"
        /\ shown' = "classified"
        /\ UNCHANGED <<filed, announced>>

Reopen == shown = "classified" /\ shown' = "open" /\ UNCHANGED <<filed, announced>>

Announce(subject) ==
  /\ filed = "queue item"
  /\ subject = "routed" => "triaged" \in announced
  /\ announced' = announced \cup {subject}
  /\ UNCHANGED <<filed, shown>>

Next == \/ Create \/ FileClassification \/ FileItem \/ Show \/ Reopen
        \/ Announce("triaged") \/ Announce("routed")

Spec == Init /\ [][Next]_vars
=============================================================================
