------------------------ MODULE EventPipelineProofs ------------------------
(***************************************************************************)
(* Proofs about the event pipeline, for every number of reports, messages, *)
(* starts and connection attempts: an activity that publishes finds its    *)
(* connection and the stream, and no acknowledged message is missing from  *)
(* its counter.                                                            *)
(***************************************************************************)
EXTENDS EventPipeline, FiniteSetTheorems, TLAPS

\* Where a process can be in its life.
Stations(p) ==
  {"up", "stopping", "down", "failed"} \cup
    IF p = "worker" THEN {"connect_nats", "ensure", "connect_temporal"}
    ELSE {"check", "create", "connect_nats", "ensure", "subscribe_triaged", "subscribe_routed"}

OnRoute == \A p \in Processes : proc[p].at \in Stations(p)

\* The worker has what the steps behind it set up.
SetUp ==
  /\ proc["worker"].at \in {"ensure", "connect_temporal", "up", "stopping"} => "worker" \in nats
  /\ proc["worker"].at \in {"connect_temporal", "up", "stopping"} => ready

LifeInv == LifecycleTypeOK /\ OnRoute /\ SetUp

\* A publish activity runs in a worker that has not closed its connection.
Employed == publisher \notin Resting => proc["worker"].at \in {"up", "stopping"}

\* What a subscription holds are messages of its subject.
OwnMessages ==
  \A s \in Subjects :
    /\ \A k \in 1..Len(inbox[s]) : stream[inbox[s][k]].subject = s
    /\ handling[s].at # "idle" => handling[s].seq \in 1..Len(stream)
                                  /\ stream[handling[s].seq].subject = s

\* The message that is counted and not acknowledged yet is in the counter too.
InHand(s) == IF handling[s].at = "ack" THEN {handling[s].seq} ELSE {}

CountedOf(s) == AckedOf(s) \cup InHand(s)

Covered == \A s \in Subjects : metric[s] # MaxCount => Cardinality(CountedOf(s)) <= metric[s]

DataInv == StreamTypeOK /\ ConsumerTypeOK /\ OwnMessages /\ Covered

PipeInv == LifeInv /\ publisher \in Publishers /\ Employed /\ DataInv
-----------------------------------------------------------------------------
\* The one worker and the one consumer of the composition.
LEMMA TwoProcesses == "worker" \in Processes /\ "consumer" \in Processes
BY PipelineAssumption

\* Enter changes where one process is, and nothing else of proc.
LEMMA EnterMoves ==
  ASSUME LifecycleTypeOK, NEW p \in Processes, NEW point \in Points, NEW saw \in BOOLEAN,
         Enter(p, point, saw)
  PROVE  /\ proc' \in [Processes -> ProcessStates]
         /\ proc'[p].at = point
         /\ \A q \in Processes \ {p} : proc'[q] = proc[q]
<1>1. [at |-> point, tries |-> 0, saw |-> saw] \in ProcessStates
  BY BoundsAssumption DEF ProcessStates
<1> QED BY <1>1 DEF Enter, LifecycleTypeOK

LEMMA LaunchKeepsLife ==
  ASSUME LifeInv, NEW p \in Processes, Launch(p)
  PROVE  LifeInv'
<1>1. After[p].start \in Stations(p) \cap {"check", "connect_nats"}
  BY PipelineAssumption DEF After, WorkerStart, ConsumerStart, Stations
<1>2. After[p].start \in Points BY <1>1 DEF Points
<1>3. /\ proc' \in [Processes -> ProcessStates]
      /\ proc'[p].at = After[p].start
      /\ \A q \in Processes \ {p} : proc'[q] = proc[q]
  BY <1>2, EnterMoves DEF LifeInv, Launch
<1>4. LifecycleTypeOK'
  BY <1>3, BoundsAssumption DEF LifeInv, LifecycleTypeOK, Launch
<1>5. OnRoute' BY <1>1, <1>3 DEF LifeInv, OnRoute, Stations
<1>6. SetUp' BY <1>1, <1>3, TwoProcesses DEF LifeInv, SetUp, Launch
<1> QED BY <1>4, <1>5, <1>6 DEF LifeInv

\* GoOn leads to the next station of the process.
LEMMA NextStation ==
  ASSUME NEW p \in Processes, proc[p].at \in Stations(p) \ {"up", "stopping", "down", "failed"}
  PROVE  /\ After[p][proc[p].at] \in Stations(p) \cap Points
         /\ After[p][proc[p].at] = "ensure" => proc[p].at = "connect_nats"
         /\ p = "worker" /\ After[p][proc[p].at] = "connect_temporal" => proc[p].at = "ensure"
         /\ p = "worker" /\ After[p][proc[p].at] = "up" => proc[p].at = "connect_temporal"
         /\ After[p][proc[p].at] # "stopping"
<1>1. CASE p = "worker"
  BY <1>1 DEF After, WorkerStart, ConsumerStart, Stations, Points
<1>2. CASE p = "consumer"
  BY <1>2 DEF After, WorkerStart, ConsumerStart, Stations, Points
<1> QED BY <1>1, <1>2, PipelineAssumption

\* One step along the start-up, when the connection and the stream are set up
\* by the steps that are there for it.
LEMMA GoOnKeepsLife ==
  ASSUME LifeInv, NEW p \in Processes, NEW saw \in BOOLEAN, GoOn(p, saw),
         proc[p].at \in Stations(p) \ {"up", "stopping", "down", "failed"},
         launches' = launches, tables' \in BOOLEAN, ready' \in BOOLEAN,
         nats' \subseteq Processes, nats \subseteq nats', ready => ready',
         proc[p].at = "connect_nats" => p \in nats',
         proc[p].at = "ensure" => ready'
  PROVE  LifeInv'
<1> DEFINE to == After[p][proc[p].at]
<1>1. /\ to \in Stations(p) \cap Points
      /\ to = "ensure" => proc[p].at = "connect_nats"
      /\ p = "worker" /\ to = "connect_temporal" => proc[p].at = "ensure"
      /\ p = "worker" /\ to = "up" => proc[p].at = "connect_temporal"
      /\ to # "stopping"
  BY NextStation
<1>2. Enter(p, to, saw) BY DEF GoOn
<1> HIDE DEF to
<1>3. /\ proc' \in [Processes -> ProcessStates]
      /\ proc'[p].at = to
      /\ \A q \in Processes \ {p} : proc'[q] = proc[q]
  BY <1>1, <1>2, EnterMoves DEF LifeInv
<1>4. LifecycleTypeOK' BY <1>3 DEF LifeInv, LifecycleTypeOK
<1>5. OnRoute' BY <1>1, <1>3 DEF LifeInv, OnRoute, Stations
<1>6. SetUp'
  <2>1. CASE p = "worker" BY <2>1, <1>1, <1>3 DEF LifeInv, SetUp
  <2>2. CASE p # "worker"
    <3>1. proc'["worker"] = proc["worker"] BY <2>2, <1>3, TwoProcesses
    <3> QED BY <3>1 DEF LifeInv, SetUp
  <2> QED BY <2>1, <2>2
<1> QED BY <1>4, <1>5, <1>6 DEF LifeInv

\* A process that ends leaves the other one alone.
LEMMA EndKeepsLife ==
  ASSUME LifeInv, NEW p \in Processes, NEW point \in {"down", "failed"}, End(p, point),
         launches' = launches, tables' \in BOOLEAN, ready' = ready
  PROVE  LifeInv'
<1>1. point \in Points BY DEF Points
<1>2. /\ proc' \in [Processes -> ProcessStates]
      /\ proc'[p].at = point
      /\ \A q \in Processes \ {p} : proc'[q] = proc[q]
  BY <1>1, EnterMoves DEF LifeInv, End
<1>3. LifecycleTypeOK' BY <1>2 DEF LifeInv, LifecycleTypeOK, End
<1>4. OnRoute' BY <1>2 DEF LifeInv, OnRoute, Stations
<1>5. SetUp'
  <2>1. CASE p = "worker" BY <2>1, <1>2 DEF SetUp
  <2>2. CASE p # "worker"
    <3>1. proc'["worker"] = proc["worker"] /\ ("worker" \in nats' <=> "worker" \in nats)
      BY <2>2, <1>2, TwoProcesses DEF End
    <3> QED BY <3>1 DEF LifeInv, SetUp
  <2> QED BY <2>1, <2>2
<1> QED BY <1>3, <1>4, <1>5 DEF LifeInv

\* Every step of the start-up.
LEMMA StartStepKeepsLife ==
  ASSUME LifeInv, NEW p \in Processes, StartStep(p)
  PROVE  LifeInv'
<1> USE DEF LifeInv
<1>0. proc[p].at \in Stations(p) BY DEF OnRoute
<1>1. CASE CheckTables(p)
  <2>1. proc[p].at = "check" BY <1>1 DEF CheckTables, At
  <2> QED BY <1>0, <1>1, <2>1, GoOnKeepsLife DEF CheckTables, LifecycleTypeOK
<1>2. CASE CreateTables(p)
  <2>1. proc[p].at = "create" BY <1>2 DEF CreateTables, At
  <2>2. CASE Clash(p) BY <1>2, <2>2, EndKeepsLife DEF CreateTables, LifecycleTypeOK
  <2>3. CASE ~Clash(p)
    BY <1>0, <1>2, <2>1, <2>3, GoOnKeepsLife DEF CreateTables, LifecycleTypeOK
  <2> QED BY <2>2, <2>3
<1>3. CASE Connect(p)
  <2>1. proc[p].at \in {"connect_nats", "connect_temporal"} BY <1>3 DEF Connect, Connecting
  <2>2. /\ GoOn(p, FALSE)
        /\ nats' = IF proc[p].at = "connect_nats" THEN nats \cup {p} ELSE nats
        /\ UNCHANGED <<launches, tables, ready>>
    BY <1>3 DEF Connect, At
  <2> QED BY <1>0, <2>1, <2>2, GoOnKeepsLife DEF LifecycleTypeOK
<1>4. CASE ConnectFails(p)
  <2>1. CASE proc[p].tries + 1 = MaxConnects /\ End(p, "failed")
    BY <1>4, <2>1, EndKeepsLife DEF ConnectFails, LifecycleTypeOK
  <2>2. CASE /\ proc[p].tries + 1 < MaxConnects
             /\ proc' = [proc EXCEPT ![p].tries = proc[p].tries + 1]
             /\ UNCHANGED nats
    <3> DEFINE now == [at |-> proc[p].at, tries |-> proc[p].tries + 1, saw |-> proc[p].saw]
    <3>1. now \in ProcessStates BY <2>2, BoundsAssumption DEF LifecycleTypeOK, ProcessStates
    <3>2. proc'[p] = now /\ \A q \in Processes \ {p} : proc'[q] = proc[q]
      BY <2>2 DEF LifecycleTypeOK, ProcessStates
    <3>3. proc' \in [Processes -> ProcessStates]
      BY <2>2, <3>1, <3>2 DEF LifecycleTypeOK
    <3>4. \A q \in Processes : proc'[q].at = proc[q].at BY <3>2
    <3>5. LifecycleTypeOK' BY <1>4, <2>2, <3>3 DEF LifecycleTypeOK, ConnectFails
    <3>6. OnRoute' BY <3>4 DEF OnRoute
    <3>7. SetUp' BY <1>4, <2>2, <3>4, TwoProcesses DEF SetUp, ConnectFails
    <3> QED BY <3>5, <3>6, <3>7
  <2> QED BY <1>4, <2>1, <2>2 DEF ConnectFails
<1>5. CASE EnsureStream(p)
  <2>1. proc[p].at = "ensure" BY <1>5 DEF EnsureStream, At
  <2> QED BY <1>0, <1>5, <2>1, GoOnKeepsLife DEF EnsureStream, LifecycleTypeOK
<1>6. CASE Subscribe(p)
  <2>1. proc[p].at \in {"subscribe_triaged", "subscribe_routed"} BY <1>6 DEF Subscribe
  <2> QED BY <1>0, <1>6, <2>1, GoOnKeepsLife DEF Subscribe, LifecycleTypeOK
<1> QED BY <1>1, <1>2, <1>3, <1>4, <1>5, <1>6 DEF StartStep

LEMMA StopKeepsLife ==
  ASSUME LifeInv, NEW p \in Processes, Stop(p)
  PROVE  LifeInv'
<1>1. "stopping" \in Points BY DEF Points
<1>2. /\ proc' \in [Processes -> ProcessStates]
      /\ proc'[p].at = "stopping"
      /\ \A q \in Processes \ {p} : proc'[q] = proc[q]
  BY <1>1, EnterMoves DEF LifeInv, Stop
<1>3. LifecycleTypeOK' BY <1>2 DEF LifeInv, LifecycleTypeOK, Stop
<1>4. OnRoute' BY <1>2 DEF LifeInv, OnRoute, Stations
<1>5. SetUp'
  <2>1. CASE p = "worker" BY <2>1, <1>2 DEF LifeInv, SetUp, Stop, At
  <2>2. CASE p # "worker"
    <3>1. proc'["worker"] = proc["worker"] BY <2>2, <1>2, TwoProcesses
    <3> QED BY <3>1 DEF LifeInv, SetUp, Stop
  <2> QED BY <2>1, <2>2
<1> QED BY <1>3, <1>4, <1>5 DEF LifeInv

\* A worker that may hold an activity leaves that part of its life by Close or
\* Crash only.
LEMMA WorkerStays ==
  ASSUME LifeInv, NEW p \in Processes, Launch(p) \/ StartStep(p) \/ Stop(p),
         proc["worker"].at \in {"up", "stopping"}
  PROVE  proc'["worker"].at \in {"up", "stopping"}
<1>1. CASE Stop(p)
  <2>1. "stopping" \in Points BY DEF Points
  <2> QED BY <1>1, <2>1, EnterMoves, TwoProcesses DEF LifeInv, Stop
<1>2. CASE Launch(p)
  <2>1. p # "worker" BY <1>2 DEF Launch
  <2> QED BY <1>2, <2>1, TwoProcesses DEF Launch, Enter, LifeInv, LifecycleTypeOK
<1>3. CASE StartStep(p)
  <2>1. p # "worker"
    BY <1>3 DEF StartStep, CheckTables, CreateTables, Connect, ConnectFails, Connecting,
                EnsureStream, Subscribe, At
  <2>2. proc'["worker"] = proc["worker"]
    BY <1>3, <2>1, TwoProcesses DEF StartStep, CheckTables, CreateTables, Connect,
       ConnectFails, EnsureStream, Subscribe, GoOn, End, Enter, LifeInv, LifecycleTypeOK
  <2> QED BY <2>2
<1> QED BY <1>1, <1>2, <1>3
-----------------------------------------------------------------------------
\* Three facts about sequences.
LEMMA WiderSequence ==
  ASSUME NEW S, NEW T, S \subseteq T, NEW q \in Seq(S)
  PROVE  q \in Seq(T)
<1>1. Len(q) \in Nat /\ q \in [1..Len(q) -> S] OBVIOUS
<1>2. q \in [1..Len(q) -> T] BY <1>1
<1> QED BY <1>1, <1>2

LEMMA Appended ==
  ASSUME NEW S, NEW q \in Seq(S), NEW e \in S
  PROVE  /\ Append(q, e) \in Seq(S)
         /\ Len(q) \in Nat /\ Len(Append(q, e)) = Len(q) + 1
         /\ \A k \in 1..(Len(q) + 1) : Append(q, e)[k] = IF k = Len(q) + 1 THEN e ELSE q[k]
OBVIOUS

LEMMA HeadAndTail ==
  ASSUME NEW S, NEW q \in Seq(S), q # <<>>
  PROVE  /\ Tail(q) \in Seq(S)
         /\ Len(q) \in Nat /\ Len(q) > 0 /\ Len(Tail(q)) = Len(q) - 1
         /\ \A k \in 1..(Len(q) - 1) : Tail(q)[k] = q[k + 1]
         /\ Head(q) = q[1] /\ q[1] \in S
OBVIOUS

\* What the server will not deliver again is a finite set of the stream.
LEMMA CountedIsFinite ==
  ASSUME ConsumerTypeOK, StreamTypeOK, NEW s \in Subjects
  PROVE  IsFiniteSet(CountedOf(s)) /\ Cardinality(CountedOf(s)) \in Nat
<1>1. Len(stream) \in Nat BY DEF StreamTypeOK
<1>2. IsFiniteSet(1..Len(stream)) BY <1>1, FS_Interval
<1>3. IsFiniteSet(AckedOf(s)) BY <1>2, FS_Subset DEF AckedOf, ConsumerTypeOK
<1>4. IsFiniteSet(InHand(s)) BY FS_EmptySet, FS_Singleton DEF InHand
<1>5. IsFiniteSet(CountedOf(s)) BY <1>3, <1>4, FS_Union DEF CountedOf
<1> QED BY <1>5, FS_CardinalityType

\* A step that counts nothing and adds nothing to what is counted.
LEMMA StillCovered ==
  ASSUME ConsumerTypeOK, StreamTypeOK, Covered, metric' = metric,
         \A s \in Subjects : CountedOf(s)' \subseteq CountedOf(s)
  PROVE  Covered'
<1> SUFFICES ASSUME NEW s \in Subjects, metric[s] # MaxCount
             PROVE  Cardinality(CountedOf(s)') <= metric[s]
  BY DEF Covered
<1>1. Cardinality(CountedOf(s)) <= metric[s] BY DEF Covered
<1>2. IsFiniteSet(CountedOf(s)) /\ Cardinality(CountedOf(s)) \in Nat BY CountedIsFinite
<1>3. /\ IsFiniteSet(CountedOf(s)') /\ Cardinality(CountedOf(s)') <= Cardinality(CountedOf(s))
  BY <1>2, FS_Subset
<1>4. Cardinality(CountedOf(s)') \in Nat BY <1>3, FS_CardinalityType
<1>5. metric[s] \in Nat BY MaxCountAssumption DEF ConsumerTypeOK
<1> QED BY <1>1, <1>2, <1>3, <1>4, <1>5

\* A message appended to the stream disturbs nothing that is known of the others.
LEMMA PublishKeepsData ==
  ASSUME DataInv, NEW subject \in Subjects, NEW r \in Reports, Publish(subject, r),
         UNCHANGED consumerVars
  PROVE  DataInv'
<1> USE DEF DataInv
<1> DEFINE m == [subject |-> subject, report |-> r]
<1>1. m \in Messages BY DEF Messages
<1>2. stream' = stream \/ stream' = Append(stream, m) BY DEF Publish
<1>3. /\ stream' \in Seq(Messages) /\ Len(stream) <= Len(stream')
      /\ Len(stream) \in Nat /\ Len(stream') \in Nat
      /\ \A i \in 1..Len(stream) : stream'[i] = stream[i]
  <2> HIDE DEF m
  <2> QED BY <1>1, <1>2 DEF StreamTypeOK
<1>4. forgotten' = forgotten BY DEF Publish
<1>5. StreamTypeOK' BY <1>3, <1>4 DEF StreamTypeOK
<1>6. ConsumerTypeOK'
  <2>1. 1..Len(stream) \subseteq 1..Len(stream') BY <1>3
  <2>2. \A s \in Subjects : inbox[s] \in Seq(1..Len(stream'))
    BY <2>1, WiderSequence DEF ConsumerTypeOK
  <2>3. inbox \in [Subjects -> Seq(1..Len(stream'))] BY <2>2 DEF ConsumerTypeOK
  <2>4. acked \subseteq 1..Len(stream') BY <2>1 DEF ConsumerTypeOK
  <2>5. /\ metric \in [Subjects -> 0..MaxCount] /\ handling \in [Subjects -> Handlings]
        /\ UNCHANGED <<metric, acked, inbox, handling>>
    BY DEF ConsumerTypeOK, consumerVars
  <2> HIDE DEF DataInv
  <2> QED BY <2>3, <2>4, <2>5 DEF ConsumerTypeOK
<1>7. OwnMessages'
  <2> SUFFICES ASSUME NEW s \in Subjects
               PROVE  /\ \A k \in 1..Len(inbox[s]) : stream'[inbox[s][k]].subject = s
                      /\ handling[s].at # "idle" => handling[s].seq \in 1..Len(stream')
                                                    /\ stream'[handling[s].seq].subject = s
    BY DEF OwnMessages, consumerVars
  <2>1. \A k \in 1..Len(inbox[s]) : inbox[s][k] \in 1..Len(stream) BY DEF ConsumerTypeOK
  <2> QED BY <1>3, <2>1 DEF OwnMessages
<1>8. \A s \in Subjects : CountedOf(s)' \subseteq CountedOf(s)
  BY <1>3 DEF CountedOf, AckedOf, InHand, ConsumerTypeOK, consumerVars
<1>9. Covered' BY <1>8, StillCovered DEF consumerVars
<1> QED BY <1>5, <1>6, <1>7, <1>9

LEMMA UnchangedKeepsData ==
  ASSUME DataInv, UNCHANGED streamVars, UNCHANGED consumerVars
  PROVE  DataInv'
<1>1. StreamTypeOK' /\ ConsumerTypeOK'
  BY DEF DataInv, StreamTypeOK, ConsumerTypeOK, streamVars, consumerVars
<1>2. OwnMessages' BY DEF DataInv, OwnMessages, streamVars, consumerVars
<1>3. \A s \in Subjects : CountedOf(s)' = CountedOf(s)
  BY DEF CountedOf, AckedOf, InHand, streamVars, consumerVars
<1>4. Covered' BY <1>3, StillCovered DEF DataInv, consumerVars
<1> QED BY <1>1, <1>2, <1>4 DEF DataInv

LEMMA ForgetKeepsData ==
  ASSUME DataInv, ForgetOldest, UNCHANGED consumerVars
  PROVE  DataInv'
<1>1. StreamTypeOK' BY DEF DataInv, StreamTypeOK, ForgetOldest
<1>2. ConsumerTypeOK' BY DEF DataInv, ConsumerTypeOK, ForgetOldest, consumerVars
<1>3. OwnMessages' BY DEF DataInv, OwnMessages, ForgetOldest, consumerVars
<1>4. \A s \in Subjects : CountedOf(s)' = CountedOf(s)
  BY DEF CountedOf, AckedOf, InHand, ForgetOldest, consumerVars
<1>5. Covered' BY <1>4, StillCovered DEF DataInv, consumerVars
<1> QED BY <1>1, <1>2, <1>3, <1>5 DEF DataInv

LEMMA DeliverKeepsData ==
  ASSUME DataInv, NEW s \in Subjects, NEW i \in 1..MaxEvents, Deliver(s, i),
         UNCHANGED streamVars
  PROVE  DataInv'
<1> USE DEF DataInv
<1>1. /\ i \in 1..Len(stream) /\ stream[i].subject = s
      /\ inbox' = [inbox EXCEPT ![s] = Append(inbox[s], i)]
      /\ UNCHANGED <<metric, acked, handling, stream, forgotten>>
  BY DEF Deliver, streamVars
<1>2. inbox[s] \in Seq(1..Len(stream)) BY DEF ConsumerTypeOK
<1>3. /\ Append(inbox[s], i) \in Seq(1..Len(stream))
      /\ Len(inbox[s]) \in Nat /\ Len(Append(inbox[s], i)) = Len(inbox[s]) + 1
      /\ \A k \in 1..(Len(inbox[s]) + 1) :
           Append(inbox[s], i)[k] = IF k = Len(inbox[s]) + 1 THEN i ELSE inbox[s][k]
  <2>1. i \in 1..Len(stream) BY <1>1
  <2> HIDE DEF DataInv
  <2> QED BY <1>2, <2>1, Appended
<1>4. /\ inbox' \in [Subjects -> Seq(1..Len(stream))]
      /\ inbox'[s] = Append(inbox[s], i)
      /\ \A t \in Subjects \ {s} : inbox'[t] = inbox[t]
  BY <1>1, <1>3 DEF ConsumerTypeOK
<1>5. StreamTypeOK' BY <1>1 DEF StreamTypeOK
<1>6. ConsumerTypeOK' BY <1>1, <1>4 DEF ConsumerTypeOK
<1>7. OwnMessages'
  <2>1. \A k \in 1..Len(inbox'[s]) : stream[inbox'[s][k]].subject = s
    BY <1>1, <1>3, <1>4 DEF OwnMessages
  <2> QED BY <1>1, <1>4, <2>1 DEF OwnMessages
<1>8. \A t \in Subjects : CountedOf(t)' = CountedOf(t)
  BY <1>1 DEF CountedOf, AckedOf, InHand
<1>9. Covered' BY <1>1, <1>8, StillCovered
<1> QED BY <1>5, <1>6, <1>7, <1>9

\* What handling becomes in a step of subscription s.
LEMMA HandleMoves ==
  ASSUME ConsumerTypeOK, NEW s \in Subjects, NEW at \in {"idle", "record", "ack"},
         NEW i \in Nat, Handle(s, at, i)
  PROVE  /\ handling' \in [Subjects -> Handlings]
         /\ handling'[s] = [at |-> at, seq |-> i]
         /\ \A t \in Subjects \ {s} : handling'[t] = handling[t]
<1>1. [at |-> at, seq |-> i] \in Handlings BY DEF Handlings
<1> QED BY <1>1 DEF Handle, ConsumerTypeOK

LEMMA TakeKeepsData ==
  ASSUME DataInv, NEW s \in Subjects, Take(s), UNCHANGED streamVars
  PROVE  DataInv'
<1> USE DEF DataInv
<1> DEFINE i == Head(inbox[s])
<1>1. /\ handling[s].at = "idle" /\ inbox[s] # <<>> /\ Handle(s, "record", i)
      /\ inbox' = [inbox EXCEPT ![s] = Tail(inbox[s])]
      /\ UNCHANGED <<metric, acked, stream, forgotten>>
  BY DEF Take, streamVars
<1>2. inbox[s] \in Seq(1..Len(stream)) BY DEF ConsumerTypeOK
<1>3. /\ Tail(inbox[s]) \in Seq(1..Len(stream))
      /\ Len(inbox[s]) \in Nat /\ Len(inbox[s]) > 0
      /\ Len(Tail(inbox[s])) = Len(inbox[s]) - 1
      /\ \A k \in 1..(Len(inbox[s]) - 1) : Tail(inbox[s])[k] = inbox[s][k + 1]
      /\ i = inbox[s][1] /\ i \in 1..Len(stream)
  BY <1>1, <1>2, HeadAndTail
<1>4. /\ inbox' \in [Subjects -> Seq(1..Len(stream))]
      /\ inbox'[s] = Tail(inbox[s])
      /\ \A t \in Subjects \ {s} : inbox'[t] = inbox[t]
  BY <1>1, <1>3 DEF ConsumerTypeOK
<1>5. Len(stream) \in Nat /\ i \in Nat BY <1>3 DEF StreamTypeOK
<1> HIDE DEF i
<1>6. /\ handling' \in [Subjects -> Handlings]
      /\ handling'[s] = [at |-> "record", seq |-> i]
      /\ \A t \in Subjects \ {s} : handling'[t] = handling[t]
  BY <1>1, <1>5, HandleMoves
<1>7. StreamTypeOK' BY <1>1 DEF StreamTypeOK
<1>8. ConsumerTypeOK' BY <1>1, <1>4, <1>6 DEF ConsumerTypeOK
<1>9. OwnMessages'
  <2>1. \A k \in 1..Len(inbox'[s]) : stream[inbox'[s][k]].subject = s
    <3> SUFFICES ASSUME NEW k \in 1..Len(inbox'[s])
                 PROVE  stream[inbox'[s][k]].subject = s
      OBVIOUS
    <3>1. inbox'[s][k] = inbox[s][k + 1] /\ k + 1 \in 1..Len(inbox[s])
      BY <1>3, <1>4
    <3> QED BY <3>1 DEF OwnMessages
  <2>2. stream[i].subject = s BY <1>3 DEF OwnMessages
  <2> QED BY <1>1, <1>3, <1>4, <1>6, <2>1, <2>2 DEF OwnMessages
<1>10. \A t \in Subjects : CountedOf(t)' = CountedOf(t)
  <2>1. InHand(s)' = InHand(s)
    <3>1. handling'[s].at = "record" BY <1>6
    <3> QED BY <1>1, <3>1 DEF InHand
  <2>2. \A t \in Subjects \ {s} : InHand(t)' = InHand(t) BY <1>6 DEF InHand
  <2> QED BY <1>1, <2>1, <2>2 DEF CountedOf, AckedOf
<1>11. Covered' BY <1>1, <1>10, StillCovered
<1> QED BY <1>7, <1>8, <1>9, <1>11

\* Incrementing the counter of s pays for one more message of s.
LEMMA CountingCovers ==
  ASSUME ConsumerTypeOK, StreamTypeOK, Covered, NEW s \in Subjects, NEW i, Increment(s),
         CountedOf(s)' \subseteq CountedOf(s) \cup {i},
         \A t \in Subjects \ {s} : CountedOf(t)' \subseteq CountedOf(t)
  PROVE  metric' \in [Subjects -> 0..MaxCount] /\ Covered'
<1>1. /\ metric \in [Subjects -> 0..MaxCount] /\ MaxCount \in Nat
      /\ metric' = [metric EXCEPT ![s] = IF metric[s] < MaxCount THEN metric[s] + 1
                                                                ELSE metric[s]]
  BY MaxCountAssumption DEF ConsumerTypeOK, Increment
<1>2. metric' \in [Subjects -> 0..MaxCount] BY <1>1
<1>3. ASSUME metric'[s] # MaxCount PROVE Cardinality(CountedOf(s)') <= metric'[s]
  <2>1. metric[s] \in Nat /\ metric'[s] = metric[s] + 1 /\ metric[s] # MaxCount
    BY <1>1, <1>3
  <2>2. Cardinality(CountedOf(s)) <= metric[s] BY <2>1 DEF Covered
  <2>3. IsFiniteSet(CountedOf(s)) /\ Cardinality(CountedOf(s)) \in Nat BY CountedIsFinite
  <2>4. /\ IsFiniteSet(CountedOf(s) \cup {i})
        /\ Cardinality(CountedOf(s) \cup {i}) <= Cardinality(CountedOf(s)) + 1
    <3> DEFINE C == CountedOf(s)
    <3>1. IsFiniteSet(C) /\ Cardinality(C) \in Nat BY <2>3
    <3> HIDE DEF C
    <3>2. /\ IsFiniteSet(C \cup {i})
          /\ Cardinality(C \cup {i}) = IF i \in C THEN Cardinality(C) ELSE Cardinality(C) + 1
      BY <3>1, FS_AddElement, Zenon
    <3>3. Cardinality(C \cup {i}) <= Cardinality(C) + 1 BY <3>1, <3>2
    <3> QED BY <3>2, <3>3 DEF C
  <2>5. /\ IsFiniteSet(CountedOf(s)')
        /\ Cardinality(CountedOf(s)') <= Cardinality(CountedOf(s) \cup {i})
    BY <2>4, FS_Subset
  <2>6. Cardinality(CountedOf(s)') \in Nat /\ Cardinality(CountedOf(s) \cup {i}) \in Nat
    BY <2>4, <2>5, FS_CardinalityType
  <2> QED BY <2>1, <2>2, <2>3, <2>4, <2>5, <2>6
<1>4. ASSUME NEW t \in Subjects \ {s}, metric'[t] # MaxCount
      PROVE  Cardinality(CountedOf(t)') <= metric'[t]
  <2>1. metric[t] \in Nat /\ metric'[t] = metric[t] BY <1>1
  <2>2. Cardinality(CountedOf(t)) <= metric[t] BY <1>4, <2>1 DEF Covered
  <2>3. IsFiniteSet(CountedOf(t)) /\ Cardinality(CountedOf(t)) \in Nat BY CountedIsFinite
  <2>4. /\ IsFiniteSet(CountedOf(t)')
        /\ Cardinality(CountedOf(t)') <= Cardinality(CountedOf(t))
    BY <2>3, FS_Subset
  <2>5. Cardinality(CountedOf(t)') \in Nat BY <2>4, FS_CardinalityType
  <2> QED BY <2>1, <2>2, <2>3, <2>4, <2>5
<1> QED BY <1>2, <1>3, <1>4 DEF Covered

\* The facts that every step of a handler needs.
LEMMA HandlerKeepsRest ==
  ASSUME DataInv, NEW s \in Subjects, NEW at \in {"idle", "ack"}, NEW i \in Nat,
         Handle(s, at, i), at = "ack" => handling[s].at # "idle" /\ i = handling[s].seq,
         UNCHANGED <<inbox, stream, forgotten>>, acked' \subseteq 1..Len(stream),
         metric' \in [Subjects -> 0..MaxCount]
  PROVE  /\ StreamTypeOK' /\ ConsumerTypeOK' /\ OwnMessages'
         /\ InHand(s)' = IF at = "ack" THEN {i} ELSE {}
         /\ \A t \in Subjects \ {s} : InHand(t)' = InHand(t)
<1> USE DEF DataInv
<1>1. /\ handling' \in [Subjects -> Handlings]
      /\ handling'[s] = [at |-> at, seq |-> i]
      /\ \A t \in Subjects \ {s} : handling'[t] = handling[t]
  BY HandleMoves
<1>2. handling'[s].at = at /\ handling'[s].seq = i BY <1>1
<1>3. StreamTypeOK' BY DEF StreamTypeOK
<1>4. ConsumerTypeOK' BY <1>1 DEF ConsumerTypeOK
<1>5. OwnMessages'
  <2>1. \A t \in Subjects : \A k \in 1..Len(inbox'[t]) : stream'[inbox'[t][k]].subject = t
    BY DEF OwnMessages
  <2>2. handling'[s].at # "idle" => handling'[s].seq \in 1..Len(stream')
                                   /\ stream'[handling'[s].seq].subject = s
    BY <1>2 DEF OwnMessages
  <2>3. \A t \in Subjects \ {s} :
          handling'[t].at # "idle" => handling'[t].seq \in 1..Len(stream')
                                      /\ stream'[handling'[t].seq].subject = t
    BY <1>1 DEF OwnMessages
  <2> QED BY <2>1, <2>2, <2>3 DEF OwnMessages
<1>6. InHand(s)' = IF at = "ack" THEN {i} ELSE {} BY <1>2 DEF InHand
<1>7. \A t \in Subjects \ {s} : InHand(t)' = InHand(t) BY <1>1 DEF InHand
<1> QED BY <1>3, <1>4, <1>5, <1>6, <1>7

LEMMA HandlerKeepsData ==
  ASSUME DataInv, NEW s \in Subjects, HandlerStep(s), UNCHANGED streamVars
  PROVE  DataInv'
<1> USE DEF DataInv
<1>1. /\ handling[s] \in Handlings /\ handling[s].seq \in Nat
      /\ metric \in [Subjects -> 0..MaxCount] /\ acked \subseteq 1..Len(stream)
      /\ UNCHANGED <<stream, forgotten>>
  BY DEF ConsumerTypeOK, Handlings, streamVars
<1>2. handling[s].at # "idle" => /\ handling[s].seq \in 1..Len(stream)
                                 /\ stream[handling[s].seq].subject = s
  BY DEF OwnMessages
<1>3. metric' \in [Subjects -> 0..MaxCount]
  BY <1>1, MaxCountAssumption DEF HandlerStep, Count, CountFails, Ack, AckLost, Increment
<1>4. CASE Count(s)
  <2>1. /\ handling[s].at = "record" /\ Increment(s) /\ Handle(s, "ack", handling[s].seq)
        /\ UNCHANGED <<acked, inbox>>
    BY <1>4 DEF Count
  <2>2. /\ StreamTypeOK' /\ ConsumerTypeOK' /\ OwnMessages'
        /\ InHand(s)' = {handling[s].seq}
        /\ \A t \in Subjects \ {s} : InHand(t)' = InHand(t)
    BY <1>1, <1>3, <2>1, HandlerKeepsRest
  <2>3. \A t \in Subjects : AckedOf(t)' = AckedOf(t) BY <1>1, <2>1 DEF AckedOf
  <2>4. CountedOf(s)' \subseteq CountedOf(s) \cup {handling[s].seq}
    BY <2>2, <2>3 DEF CountedOf
  <2>5. \A t \in Subjects \ {s} : CountedOf(t)' \subseteq CountedOf(t)
    BY <2>2, <2>3 DEF CountedOf
  <2>6. Covered' BY <2>1, <2>4, <2>5, CountingCovers
  <2> QED BY <2>2, <2>6
<1>5. CASE CountFails(s)
  <2>1. /\ Increment(s) \/ UNCHANGED metric
        /\ Handle(s, "idle", 0)
        /\ UNCHANGED <<acked, inbox>>
    BY <1>5 DEF CountFails
  <2>2. /\ StreamTypeOK' /\ ConsumerTypeOK' /\ OwnMessages'
        /\ InHand(s)' = {}
        /\ \A t \in Subjects \ {s} : InHand(t)' = InHand(t)
    BY <1>1, <1>3, <2>1, HandlerKeepsRest
  <2>3. \A t \in Subjects : AckedOf(t)' = AckedOf(t) BY <1>1, <2>1 DEF AckedOf
  <2>4. \A t \in Subjects : CountedOf(t)' \subseteq CountedOf(t)
    BY <2>2, <2>3 DEF CountedOf
  <2>5. CountedOf(s)' \subseteq CountedOf(s) \cup {0} BY <2>4
  <2>6. Covered'
    <3>1. CASE Increment(s) BY <2>4, <2>5, <3>1, CountingCovers
    <3>2. CASE UNCHANGED metric BY <2>4, <3>2, StillCovered
    <3> QED BY <2>1, <3>1, <3>2
  <2> QED BY <2>2, <2>6
<1>6. CASE Ack(s)
  <2>1. /\ handling[s].at = "ack" /\ acked' = acked \cup {handling[s].seq}
        /\ Handle(s, "idle", 0)
        /\ UNCHANGED <<metric, inbox>>
    BY <1>6 DEF Ack
  <2>2. acked' \subseteq 1..Len(stream) BY <1>1, <1>2, <2>1
  <2>3. /\ StreamTypeOK' /\ ConsumerTypeOK' /\ OwnMessages'
        /\ InHand(s)' = {}
        /\ \A t \in Subjects \ {s} : InHand(t)' = InHand(t)
    BY <1>1, <1>3, <2>1, <2>2, HandlerKeepsRest
  <2>4. AckedOf(s)' \subseteq AckedOf(s) \cup InHand(s)
    BY <1>1, <2>1 DEF AckedOf, InHand
  <2>5. \A t \in Subjects \ {s} : AckedOf(t)' = AckedOf(t)
    BY <1>1, <1>2, <2>1 DEF AckedOf
  <2>6. \A t \in Subjects : CountedOf(t)' \subseteq CountedOf(t)
    BY <2>3, <2>4, <2>5 DEF CountedOf
  <2>7. Covered' BY <2>1, <2>6, StillCovered
  <2> QED BY <2>3, <2>7
<1>7. CASE AckLost(s)
  <2>1. Handle(s, "idle", 0) /\ UNCHANGED <<metric, acked, inbox>> BY <1>7 DEF AckLost
  <2>2. /\ StreamTypeOK' /\ ConsumerTypeOK' /\ OwnMessages'
        /\ InHand(s)' = {}
        /\ \A t \in Subjects \ {s} : InHand(t)' = InHand(t)
    BY <1>1, <1>3, <2>1, HandlerKeepsRest
  <2>3. \A t \in Subjects : AckedOf(t)' = AckedOf(t) BY <1>1, <2>1 DEF AckedOf
  <2>4. \A t \in Subjects : CountedOf(t)' \subseteq CountedOf(t)
    BY <2>2, <2>3 DEF CountedOf
  <2>5. Covered' BY <2>1, <2>4, StillCovered
  <2> QED BY <2>2, <2>5
<1> QED BY <1>4, <1>5, <1>6, <1>7 DEF HandlerStep

\* A consumer that dies forgets its messages, which are not acknowledged.
LEMMA CrashKeepsData ==
  ASSUME DataInv, NoMessages, UNCHANGED <<metric, acked, stream, forgotten>>
  PROVE  DataInv'
<1>1. StreamTypeOK' BY DEF DataInv, StreamTypeOK
<1>2. ConsumerTypeOK'
  <2>1. Idle \in Handlings BY DEF Idle, Handlings
  <2>2. handling' \in [Subjects -> Handlings] BY <2>1 DEF NoMessages
  <2>3. <<>> \in Seq(1..Len(stream)) OBVIOUS
  <2>4. inbox' \in [Subjects -> Seq(1..Len(stream))] BY <2>3 DEF NoMessages
  <2> QED BY <2>2, <2>4 DEF DataInv, ConsumerTypeOK
<1>3. \A s \in Subjects : handling'[s].at = "idle" /\ inbox'[s] = <<>>
  BY DEF NoMessages, Idle
<1>4. OwnMessages' BY <1>3 DEF OwnMessages
<1>5. \A s \in Subjects : CountedOf(s)' \subseteq CountedOf(s)
  BY <1>3 DEF CountedOf, AckedOf, InHand
<1>6. Covered' BY <1>5, StillCovered DEF DataInv
<1> QED BY <1>1, <1>2, <1>4, <1>6 DEF DataInv
-----------------------------------------------------------------------------
LEMMA InitEstablishes == ASSUME Init PROVE PipeInv
<1> USE DEF Init
<1>1. LifecycleTypeOK
  <2>1. [at |-> "down", tries |-> 0, saw |-> FALSE] \in ProcessStates
    BY BoundsAssumption DEF ProcessStates, Points
  <2> QED BY <2>1, BoundsAssumption DEF LifecycleInit, LifecycleTypeOK
<1>2. \A p \in Processes : proc[p].at = "down" BY DEF LifecycleInit
<1>3. OnRoute BY <1>2 DEF OnRoute, Stations
<1>4. SetUp BY <1>2, TwoProcesses DEF SetUp
<1>5. publisher \in Publishers /\ Employed BY DEF Employed, Publishers
<1>6. StreamTypeOK /\ Len(stream) = 0 BY DEF StreamInit, StreamTypeOK
<1>7. ConsumerTypeOK
  <2>1. Idle \in Handlings BY DEF Idle, Handlings
  <2>2. <<>> \in Seq(1..Len(stream)) OBVIOUS
  <2> QED BY <2>1, <2>2, MaxCountAssumption DEF ConsumerInit, ConsumerTypeOK
<1>8. \A s \in Subjects : handling[s].at = "idle" /\ inbox[s] = <<>> /\ metric[s] = 0 /\ acked = {}
  BY DEF ConsumerInit, Idle
<1>9. OwnMessages BY <1>8 DEF OwnMessages
<1>10. Covered
  <2>1. \A s \in Subjects : CountedOf(s) = {} BY <1>8 DEF CountedOf, AckedOf, InHand
  <2>2. Cardinality({}) = 0 BY FS_EmptySet
  <2>3. \A s \in Subjects : Cardinality(CountedOf(s)) = 0 BY <2>1, <2>2, Zenon
  <2> QED BY <1>8, <2>3 DEF Covered
<1> QED BY <1>1, <1>3, <1>4, <1>5, <1>6, <1>7, <1>9, <1>10 DEF PipeInv, LifeInv, DataInv

LEMMA ProcessStepKeeps ==
  ASSUME PipeInv, NEW p \in Processes, ProcessStep(p)
  PROVE  PipeInv'
<1> USE DEF PipeInv
<1>0. UNCHANGED streamVars BY DEF ProcessStep
<1>1. CASE (Launch(p) \/ StartStep(p) \/ Stop(p)) /\ UNCHANGED <<consumerVars, publisher>>
  <2>1. LifeInv' BY <1>1, LaunchKeepsLife, StartStepKeepsLife, StopKeepsLife
  <2>2. Employed' BY <1>1, WorkerStays DEF Employed
  <2>3. publisher' \in Publishers BY <1>1
  <2>4. DataInv' BY <1>0, <1>1, UnchangedKeepsData
  <2> QED BY <2>1, <2>2, <2>3, <2>4
<1>2. CASE Close(p) /\ Drained(p) /\ UNCHANGED <<consumerVars, publisher>>
  <2>1. LifeInv' BY <1>2, EndKeepsLife DEF Close, LifeInv, LifecycleTypeOK
  <2>2. publisher' = publisher BY <1>2
  <2>3. Employed'
    <3>1. CASE p = "worker" BY <1>2, <2>2, <3>1 DEF Drained, Employed
    <3>2. CASE p # "worker"
      <4>1. proc'["worker"] = proc["worker"]
        BY <1>2, <3>2, TwoProcesses DEF Close, End, Enter, LifeInv, LifecycleTypeOK
      <4> QED BY <2>2, <4>1 DEF Employed
    <3> QED BY <3>1, <3>2
  <2>4. DataInv' BY <1>0, <1>2, UnchangedKeepsData
  <2> QED BY <2>1, <2>2, <2>3, <2>4
<1>3. CASE Crash(p) /\ Memory(p)
  <2>1. LifeInv' BY <1>3, EndKeepsLife DEF Crash, LifeInv, LifecycleTypeOK
  <2>2. CASE p = "worker"
    <3>1. publisher' \in Resting /\ UNCHANGED consumerVars BY <1>3, <2>2 DEF Memory
    <3>2. DataInv' BY <1>0, <3>1, UnchangedKeepsData
    <3> QED BY <2>1, <3>1, <3>2 DEF Employed, Publishers
  <2>3. CASE p # "worker"
    <3>1. NoMessages /\ UNCHANGED <<metric, acked, publisher>> BY <1>3, <2>3 DEF Memory
    <3>2. DataInv' BY <1>0, <3>1, CrashKeepsData DEF streamVars
    <3>3. proc'["worker"] = proc["worker"]
      BY <1>3, <2>3, TwoProcesses DEF Crash, End, Enter, LifeInv, LifecycleTypeOK
    <3>4. Employed' /\ publisher' \in Publishers BY <3>1, <3>3 DEF Employed
    <3> QED BY <2>1, <3>2, <3>4
  <2> QED BY <2>2, <2>3
<1> QED BY <1>1, <1>2, <1>3 DEF ProcessStep

\* A step that leaves the processes alone keeps what is known of them.
LEMMA ProcessesKept ==
  ASSUME PipeInv, UNCHANGED lifeVars
  PROVE  LifeInv' /\ proc' = proc
BY DEF PipeInv, LifeInv, LifecycleTypeOK, OnRoute, SetUp, lifeVars

LEMMA PublisherKeeps ==
  ASSUME PipeInv, (\E r \in Reports : TakeTask(r)) \/ PublishTriaged \/ PublishRouted \/ LeaveTask
  PROVE  PipeInv'
<1> USE DEF PipeInv
<1>0. LifeInv' /\ proc' = proc
  BY ProcessesKept DEF TakeTask, PublishTriaged, PublishRouted, LeaveTask
<1>1. ASSUME NEW r \in Reports, TakeTask(r) PROVE PipeInv'
  <2>1. proc["worker"].at = "up" BY <1>1 DEF TakeTask, Serving
  <2>2. publisher' \in Publishers /\ Employed'
    BY <1>0, <1>1, <2>1 DEF TakeTask, Publishers, Employed
  <2>3. DataInv' BY <1>1, UnchangedKeepsData DEF TakeTask
  <2> QED BY <1>0, <2>2, <2>3
<1>2. CASE PublishTriaged
  <2>1. publisher \in [at : {"begun", "announced"}, report : Reports]
    BY <1>2 DEF PublishTriaged, Publishers, Resting
  <2>2. publisher' = [at |-> "announced", report |-> publisher.report]
    BY <1>2, <2>1 DEF PublishTriaged
  <2>3. publisher \notin Resting BY <1>2 DEF PublishTriaged, Resting
  <2>4. publisher' \in Publishers /\ Employed'
    BY <1>0, <2>1, <2>2, <2>3 DEF Publishers, Employed
  <2>5. publisher.report \in Reports BY <2>1
  <2>6. DataInv' BY <1>2, <2>5, PublishKeepsData DEF PublishTriaged, Subjects
  <2> QED BY <1>0, <2>4, <2>6
<1>3. CASE PublishRouted
  <2>1. publisher \in [at : {"begun", "announced"}, report : Reports]
    BY <1>3 DEF PublishRouted, Publishers, Resting
  <2>2. publisher' \in Publishers /\ Employed'
    BY <1>3 DEF PublishRouted, Publishers, Employed
  <2>3. publisher.report \in Reports BY <2>1
  <2>4. DataInv' BY <1>3, <2>3, PublishKeepsData DEF PublishRouted, Subjects
  <2> QED BY <1>0, <2>2, <2>4
<1>4. CASE LeaveTask
  <2>1. publisher' \in Publishers /\ Employed' BY <1>4 DEF LeaveTask, Publishers, Employed
  <2>2. DataInv' BY <1>4, UnchangedKeepsData DEF LeaveTask
  <2> QED BY <1>0, <2>1, <2>2
<1> QED BY <1>1, <1>2, <1>3, <1>4

LEMMA NextKeeps == ASSUME PipeInv, Next PROVE PipeInv'
<1>1. ASSUME NEW p \in Processes, ProcessStep(p) PROVE PipeInv'
  BY <1>1, ProcessStepKeeps
<1>2. CASE (\E r \in Reports : TakeTask(r)) \/ PublishTriaged \/ PublishRouted \/ LeaveTask
  BY <1>2, PublisherKeeps
<1>3. ASSUME NEW s \in Subjects, TakeEvent(s) PROVE PipeInv'
  BY <1>3, TakeKeepsData, ProcessesKept DEF TakeEvent, OnlyHandlers, PipeInv, Employed
<1>4. ASSUME NEW s \in Subjects, HandleEvent(s) PROVE PipeInv'
  BY <1>4, HandlerKeepsData, ProcessesKept DEF HandleEvent, OnlyHandlers, PipeInv, Employed
<1>5. ASSUME NEW s \in Subjects, NEW i \in 1..MaxEvents, DeliverEvent(s, i) PROVE PipeInv'
  BY <1>5, DeliverKeepsData, ProcessesKept DEF DeliverEvent, PipeInv, Employed
<1>6. CASE ForgetOldest /\ UNCHANGED <<lifeVars, consumerVars, publisher>>
  BY <1>6, ForgetKeepsData, ProcessesKept DEF PipeInv, Employed
<1> QED BY <1>1, <1>2, <1>3, <1>4, <1>5, <1>6 DEF Next

\* The inductive invariant of the pipeline.
THEOREM Invariance == Spec => []PipeInv
<1>1. Init => PipeInv BY InitEstablishes
<1>2. PipeInv /\ [Next]_pipeVars => PipeInv'
  <2> SUFFICES ASSUME PipeInv, [Next]_pipeVars PROVE PipeInv' OBVIOUS
  <2>1. CASE UNCHANGED pipeVars
    BY <2>1, UnchangedKeepsData, ProcessesKept DEF pipeVars, PipeInv, Employed
  <2> QED BY <2>1, NextKeeps
<1> QED BY <1>1, <1>2, PTL DEF Spec

\* The variables of processes, stream, consumer and publisher keep their types:
\* an inbox only holds indices of stored messages, a counter stays in its range.
THEOREM TypeCorrect == Spec => []TypeOK
<1>1. PipeInv => TypeOK
  BY DEF PipeInv, LifeInv, DataInv, TypeOK
<1> QED BY <1>1, Invariance, PTL

\* A publish activity never meets "call connect() first" (nats_client.py:85) nor
\* a missing stream, however often the processes start, stop and die.
THEOREM PublishersAreConnected == Spec => []PublishFindsStream
<1>1. PipeInv => PublishFindsStream
  BY DEF PipeInv, LifeInv, SetUp, Employed, PublishFindsStream, CanPublish
<1> QED BY <1>1, Invariance, PTL

\* No acknowledged message is missing from the counters of event_metrics.
THEOREM CountersCoverTheAcked == Spec => []AckedAreCounted
<1>1. PipeInv => AckedAreCounted
  <2> SUFFICES ASSUME PipeInv, NEW s \in Subjects, metric[s] # MaxCount
               PROVE  Cardinality(AckedOf(s)) <= metric[s]
    BY DEF AckedAreCounted
  <2>1. ConsumerTypeOK /\ StreamTypeOK /\ Covered BY DEF PipeInv, DataInv
  <2>2. Cardinality(CountedOf(s)) <= metric[s] BY <2>1 DEF Covered
  <2>3. IsFiniteSet(CountedOf(s)) /\ Cardinality(CountedOf(s)) \in Nat
    BY <2>1, CountedIsFinite
  <2>4. AckedOf(s) \subseteq CountedOf(s) BY DEF CountedOf
  <2>5. IsFiniteSet(AckedOf(s)) /\ Cardinality(AckedOf(s)) <= Cardinality(CountedOf(s))
    BY <2>3, <2>4, FS_Subset
  <2>6. Cardinality(AckedOf(s)) \in Nat BY <2>5, FS_CardinalityType
  <2>7. metric[s] \in Nat BY <2>1, MaxCountAssumption DEF ConsumerTypeOK
  <2> QED BY <2>2, <2>3, <2>5, <2>6, <2>7
<1> QED BY <1>1, Invariance, PTL
=============================================================================
