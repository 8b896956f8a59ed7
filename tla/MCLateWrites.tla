---------------------------- MODULE MCLateWrites ----------------------------
(* Instances of TriageSystem, watched for late writes, for TLC. *)
EXTENDS LateWrites, MCTriageSystem

\* A call that is over takes no further step, and all that the properties ask
\* of it is which report it was about and whether it settled.
Trace(c) ==
  IF call[c].at \in {"answered", "aborted"}
  THEN <<call[c].report, call[c].at = "answered" /\ call[c].code # 503>>
  ELSE call[c]

\* States that differ only in how such calls ended are one.
MCView == <<storeVars, temporalVars, streamVars, overtaken, [c \in Calls |-> Trace(c)]>>
=============================================================================
