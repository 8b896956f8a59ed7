--------------------------- MODULE EventPipeline ---------------------------
(***************************************************************************)
(* The way of an event from the worker to the counters, across start, stop *)
(* and crash of both processes: the publish activity of a worker that      *)
(* polls, the stream, and the handlers of a consumer that subscribed.      *)
(***************************************************************************)
EXTENDS ProcessLifecycle, MetricsConsumer

CONSTANT MaxEvents  \* bound on the messages of the stream

ASSUME PipelineAssumption == Processes = {"worker", "consumer"} /\ MaxEvents \in Nat

VARIABLE publisher  \* the publish activity in the worker and its report

pipeVars == <<lifeVars, streamVars, consumerVars, publisher>>

Resting == {[at |-> "idle"]}
Publishers == Resting \cup [at : {"begun", "announced"}, report : Reports]

TypeOK == /\ LifecycleTypeOK
          /\ StreamTypeOK
          /\ ConsumerTypeOK
          /\ publisher \in Publishers

Init == LifecycleInit /\ StreamInit /\ ConsumerInit /\ publisher \in Resting
-----------------------------------------------------------------------------
\* The worker takes publish tasks while it polls.
TakeTask(r) ==
  /\ Serving("worker")
  /\ publisher \in Resting
  /\ publisher' = [at |-> "begun", report |-> r]
  /\ UNCHANGED <<lifeVars, streamVars, consumerVars>>

\* A publish needs the connection; without the stream nobody acknowledges it.
CanPublish == "worker" \in nats /\ ready

PublishTriaged ==
  /\ publisher.at = "begun"
  /\ CanPublish
  /\ Len(stream) < MaxEvents
  /\ Publish("triaged", publisher.report)
  /\ publisher' = [publisher EXCEPT !.at = "announced"]
  /\ UNCHANGED <<lifeVars, consumerVars>>

PublishRouted ==
  /\ publisher.at = "announced"
  /\ CanPublish
  /\ Len(stream) < MaxEvents
  /\ Publish("routed", publisher.report)
  /\ publisher' \in Resting
  /\ UNCHANGED <<lifeVars, consumerVars>>

\* The activity raises or is cancelled.
LeaveTask ==
  /\ publisher \notin Resting
  /\ publisher' \in Resting
  /\ UNCHANGED <<lifeVars, streamVars, consumerVars>>
-----------------------------------------------------------------------------
\* Messages come as soon as subscribe has returned, until the process stops.
Subscribed(s) ==
  proc["consumer"].at \in {"up"} \cup (IF s = "triaged" THEN {"subscribe_routed"} ELSE {})

DeliverEvent(s, i) ==
  /\ Subscribed(s)
  /\ Deliver(s, i)
  /\ UNCHANGED <<lifeVars, streamVars, publisher>>

OnlyHandlers == UNCHANGED <<lifeVars, streamVars, publisher>>

TakeEvent(s) == Take(s) /\ OnlyHandlers

HandleEvent(s) == HandlerStep(s) /\ OnlyHandlers
-----------------------------------------------------------------------------
\* Mutant: the connection is closed while the worker's activities still run.
Mut_CloseAtOnce(p) == TRUE

\* The worker closes its connection when its activities are over ("async with
\* worker" returns); drain lets the handlers of the consumer finish.
Drained(p) ==
  IF p = "worker" THEN publisher \in Resting
  ELSE \A s \in Subjects : handling[s] = Idle /\ inbox[s] = <<>>

\* What is in the memory of a process goes with it.
Memory(p) ==
  IF p = "worker" THEN publisher' \in Resting /\ UNCHANGED consumerVars
  ELSE NoMessages /\ UNCHANGED <<metric, acked, publisher>>

ProcessStep(p) ==
  /\ \/ (Launch(p) \/ StartStep(p) \/ Stop(p)) /\ UNCHANGED <<consumerVars, publisher>>
     \/ Close(p) /\ Drained(p) /\ UNCHANGED <<consumerVars, publisher>>
     \/ Crash(p) /\ Memory(p)
  /\ UNCHANGED streamVars

Next == \/ \E p \in Processes : ProcessStep(p)
        \/ \E r \in Reports : TakeTask(r)
        \/ PublishTriaged \/ PublishRouted \/ LeaveTask
        \/ \E s \in Subjects : TakeEvent(s) \/ HandleEvent(s) \/ \E i \in 1..MaxEvents : DeliverEvent(s, i)
        \/ ForgetOldest /\ UNCHANGED <<lifeVars, consumerVars, publisher>>

\* JetStream delivers a message it has no acknowledgement for again and again.
\* That the database and the server answer at last is an assumption about the
\* environment: a counter that is always out of reach leaves messages behind.
Fairness ==
  /\ \A p \in Processes : WF_pipeVars(ProcessStep(p) /\ StartStep(p))
  /\ \A s \in Subjects :
       /\ WF_pipeVars(TakeEvent(s))
       /\ SF_pipeVars(Count(s) /\ HandleEvent(s))
       /\ SF_pipeVars(Ack(s) /\ HandleEvent(s))
  /\ \A i \in 1..MaxEvents : SF_pipeVars(\E s \in Subjects : DeliverEvent(s, i))

Spec == Init /\ [][Next]_pipeVars /\ Fairness
-----------------------------------------------------------------------------
\* An activity that publishes always finds the connection and the stream: the
\* worker polls only once both are there, and closes the connection only when
\* its activities are over, whichever process starts, stops or dies meanwhile.
PublishFindsStream == publisher \notin Resting => CanPublish

\* Messages pile up while the consumer is down and drain when it is back
\* (README.md:247): one that is in the stream is acknowledged at last, unless
\* the consumer leaves again; failures and lost acknowledgements only delay it.
Drains ==
  \A i \in 1..MaxEvents :
    i <= Len(stream) /\ Serving("consumer") ~> i \in acked \/ ~Serving("consumer")
=============================================================================
