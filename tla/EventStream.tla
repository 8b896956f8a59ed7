---------------------------- MODULE EventStream ----------------------------
(***************************************************************************)
(* The JetStream stream of triage events and its duplicate window, as      *)
(* messaging/events.py and messaging/streams.py use them.  The stream is   *)
(* append-only.  A message whose Nats-Msg-Id, a subject and a report, is   *)
(* in the window is acknowledged and not stored.  Message ids leave the    *)
(* window in the order in which they entered it, DUPLICATE_WINDOW_SECONDS  *)
(* later; forgotten counts the messages at the front of the stream whose   *)
(* ids have left.                                                          *)
(***************************************************************************)
EXTENDS ReportIds, Naturals, Sequences

CONSTANT MaxForgotten  \* bound on the ids that leave the window

ASSUME MaxForgottenAssumption == MaxForgotten \in Nat

VARIABLES stream, forgotten

streamVars == <<stream, forgotten>>

Subjects == {"triaged", "routed"}
Messages == [subject : Subjects, report : Reports]

StreamTypeOK == stream \in Seq(Messages) /\ forgotten \in 0..Len(stream)

StreamInit == stream = <<>> /\ forgotten = 0
-----------------------------------------------------------------------------
InWindow(m) == \E i \in (forgotten + 1)..Len(stream) : stream[i] = m

\* publish_triaged and publish_queue_routed.
Publish(subject, r) ==
  LET m == [subject |-> subject, report |-> r]
  IN  /\ stream' = IF InWindow(m) THEN stream ELSE Append(stream, m)
      /\ UNCHANGED forgotten

ForgetOldest ==
  /\ forgotten < MaxForgotten
  /\ forgotten < Len(stream)
  /\ forgotten' = forgotten + 1
  /\ UNCHANGED stream
=============================================================================
