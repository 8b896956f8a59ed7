-------------------------- MODULE MetricsConsumer --------------------------
(***************************************************************************)
(* The durable JetStream consumers of the two subjects and the handlers    *)
(* that count their messages in event_metrics (messaging/consumer.py,      *)
(* messaging/handlers.py).                                                 *)
(*                                                                         *)
(* JetStream (external) delivers a message until it is acknowledged, again *)
(* and again and in any order; no limit of deliveries is configured.  Each *)
(* subscription has its inbox and calls its handler for one message at a   *)
(* time.  The handler counts, commits and then acknowledges, and every one *)
(* of these may fail.  Messages are named by their place in the stream.    *)
(***************************************************************************)
EXTENDS EventStream, FiniteSets

CONSTANTS MaxCount,  \* counters stop here, standing for every larger count
          MaxInbox   \* bound on the messages waiting in a subscription

ASSUME MaxCountAssumption == MaxCount \in Nat /\ MaxInbox \in Nat

VARIABLES
  metric,   \* event_metrics.count of each subject, 0 where there is no row
  acked,    \* the messages whose acknowledgement reached the server
  inbox,    \* delivered messages that wait for the handler
  handling  \* the message in the handler of each subscription

consumerVars == <<metric, acked, inbox, handling>>

Idle == [at |-> "idle", seq |-> 0]

Handlings == [at : {"idle", "record", "ack"}, seq : Nat]

ConsumerTypeOK ==
  /\ metric \in [Subjects -> 0..MaxCount]
  /\ acked \subseteq 1..Len(stream)
  /\ inbox \in [Subjects -> Seq(1..Len(stream))]
  /\ handling \in [Subjects -> Handlings]

NoMessages == /\ inbox' = [s \in Subjects |-> <<>>]
              /\ handling' = [s \in Subjects |-> Idle]

ConsumerInit == /\ metric = [s \in Subjects |-> 0]
                /\ acked = {}
                /\ inbox = [s \in Subjects |-> <<>>]
                /\ handling = [s \in Subjects |-> Idle]
-----------------------------------------------------------------------------
\* The durable consumer of subject s sends message i, for the first time or again.
Deliver(s, i) ==
  /\ i \in 1..Len(stream) \ acked
  /\ stream[i].subject = s
  /\ Len(inbox[s]) < MaxInbox
  /\ inbox' = [inbox EXCEPT ![s] = Append(inbox[s], i)]
  /\ UNCHANGED <<metric, acked, handling>>

Handle(s, at, i) == handling' = [handling EXCEPT ![s] = [at |-> at, seq |-> i]]

\* The subscription calls its handler.
Take(s) ==
  /\ handling[s].at = "idle"
  /\ inbox[s] # <<>>
  /\ Handle(s, "record", Head(inbox[s]))
  /\ inbox' = [inbox EXCEPT ![s] = Tail(inbox[s])]
  /\ UNCHANGED <<metric, acked>>

\* record_event: one statement, so no increment is lost.
Increment(s) == metric' = [metric EXCEPT ![s] = IF metric[s] < MaxCount THEN metric[s] + 1 ELSE metric[s]]

Count(s) ==
  /\ handling[s].at = "record"
  /\ Increment(s)
  /\ Handle(s, "ack", handling[s].seq)
  /\ UNCHANGED <<acked, inbox>>

\* The statement or the commit raises, before or after the database committed:
\* the handler returns without an acknowledgement.
CountFails(s) ==
  /\ handling[s].at = "record"
  /\ Increment(s) \/ UNCHANGED metric
  /\ Handle(s, "idle", 0)
  /\ UNCHANGED <<acked, inbox>>

Ack(s) ==
  /\ handling[s].at = "ack"
  /\ acked' = acked \cup {handling[s].seq}
  /\ Handle(s, "idle", 0)
  /\ UNCHANGED <<metric, inbox>>

AckLost(s) ==
  /\ handling[s].at = "ack"
  /\ Handle(s, "idle", 0)
  /\ UNCHANGED <<metric, acked, inbox>>

\* Mutant: the message is acknowledged before it is counted.
Mut_AckFirst(s) ==
  \/ /\ handling[s].at = "record"
     /\ acked' = acked \cup {handling[s].seq}
     /\ Handle(s, "ack", handling[s].seq)
     /\ UNCHANGED <<metric, inbox>>
  \/ /\ handling[s].at = "ack"
     /\ Increment(s) \/ UNCHANGED metric
     /\ Handle(s, "idle", 0)
     /\ UNCHANGED <<acked, inbox>>

\* Mutant: the handler relies on an acknowledgement by the client.
Mut_NeverAck(s) == Count(s) \/ CountFails(s) \/ AckLost(s)

HandlerStep(s) == Count(s) \/ CountFails(s) \/ Ack(s) \/ AckLost(s)
-----------------------------------------------------------------------------
\* The messages of a subject that the server will not deliver again.
AckedOf(s) == {i \in acked : stream[i].subject = s}

\* No acknowledged message is missing from its counter, whatever is redelivered,
\* fails, or dies between the commit and the acknowledgement: the counters may
\* run ahead of the stream (at least once), never behind what the server forgets.
AckedAreCounted ==
  \A s \in Subjects : metric[s] # MaxCount => Cardinality(AckedOf(s)) <= metric[s]
=============================================================================
