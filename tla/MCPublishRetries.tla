-------------------------- MODULE MCPublishRetries --------------------------
(* The numbers of workflows.py and streams.py for TLC. *)
EXTENDS PublishRetries

MCSpan ==
  LET span[n \in 1..MaxAttempts] ==
        IF n = 1 THEN StartToClose ELSE span[n - 1] + Backoff[n - 1] + StartToClose
  IN  span
=============================================================================
