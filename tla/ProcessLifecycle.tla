-------------------------- MODULE ProcessLifecycle --------------------------
(***************************************************************************)
(* How the three processes start and stop: the lifespan of the API         *)
(* (main.py), the worker (temporal/worker.py) and the metrics consumer     *)
(* (messaging/consumer.py), with the connections they set up               *)
(* (messaging/nats_client.py, temporal/client.py).                         *)
(*                                                                         *)
(* A process goes through its start-up one await at a time.  A connection  *)
(* is tried MaxConnects times; an error of any other step ends the         *)
(* process, and so does a signal before the handlers are installed.        *)
(* Nothing starts a process again but an operator: docker-compose.yml      *)
(* gives the containers no restart policy.                                 *)
(***************************************************************************)
EXTENDS Naturals

CONSTANTS Processes,    \* those of the instance, among api, worker and consumer
          MaxConnects,  \* max_attempts of both connection loops (10 in the code)
          MaxLaunches   \* bound on how often an operator starts processes

ASSUME ProcessesAssumption == Processes \subseteq {"api", "worker", "consumer"}
ASSUME BoundsAssumption == MaxConnects \in Nat \ {0} /\ MaxLaunches \in Nat

VARIABLES
  proc,      \* the state of each process
  launches,  \* how often a process was started
  tables,    \* the schema is in the database
  ready,     \* the stream is there with the duplicate window of streams.py
  nats       \* the processes with an open NATS connection

lifeVars == <<proc, launches, tables, ready, nats>>

\* What a process awaits, or whether it serves, stops, or is gone.
Points == {"check", "create", "connect_nats", "ensure", "connect_temporal",
           "subscribe_triaged", "subscribe_routed", "up", "stopping", "down", "failed"}

\* tries: failed attempts of the connection; saw: the tables were there when it looked.
ProcessStates == [at : Points, tries : 0..(MaxConnects - 1), saw : BOOLEAN]

LifecycleTypeOK ==
  /\ proc \in [Processes -> ProcessStates]
  /\ launches \in 0..MaxLaunches
  /\ tables \in BOOLEAN
  /\ ready \in BOOLEAN
  /\ nats \subseteq Processes

LifecycleInit ==
  /\ proc = [p \in Processes |-> [at |-> "down", tries |-> 0, saw |-> FALSE]]
  /\ launches = 0
  /\ tables \in BOOLEAN
  /\ ready \in BOOLEAN
  /\ nats = {}
-----------------------------------------------------------------------------
ApiStart == [start |-> "check", check |-> "create", create |-> "connect_temporal",
             connect_temporal |-> "up"]

\* Mutant: the worker connects to NATS only when it has begun to poll.
Mut_PollFirst == [start |-> "connect_temporal", connect_temporal |-> "up",
                  connect_nats |-> "ensure", ensure |-> "up"]

WorkerStart == [start |-> "connect_nats", connect_nats |-> "ensure",
                ensure |-> "connect_temporal", connect_temporal |-> "up"]

ConsumerStart == [start |-> "check", check |-> "create", create |-> "connect_nats",
                  connect_nats |-> "ensure", ensure |-> "subscribe_triaged",
                  subscribe_triaged |-> "subscribe_routed", subscribe_routed |-> "up"]

\* The order of the start-up of each process.
After == [api |-> ApiStart, worker |-> WorkerStart, consumer |-> ConsumerStart]

At(p, point) == proc[p].at = point

Enter(p, point, saw) == proc' = [proc EXCEPT ![p] = [at |-> point, tries |-> 0, saw |-> saw]]

GoOn(p, saw) == Enter(p, After[p][proc[p].at], saw)

\* A process that ends takes its connection with it.
End(p, point) == Enter(p, point, FALSE) /\ nats' = nats \ {p}

Launch(p) ==
  /\ proc[p].at \in {"down", "failed"}
  /\ launches < MaxLaunches
  /\ launches' = launches + 1
  /\ Enter(p, After[p].start, FALSE)
  /\ UNCHANGED <<tables, ready, nats>>

\* create_all asks which tables there are ...
CheckTables(p) ==
  /\ At(p, "check")
  /\ GoOn(p, tables)
  /\ UNCHANGED <<launches, tables, ready, nats>>

\* ... and creates the missing ones.  One that another process created since
\* makes the statement fail.
Clash(p) == ~proc[p].saw /\ tables

CreateTables(p) ==
  /\ At(p, "create")
  /\ tables' = TRUE
  /\ IF Clash(p) THEN End(p, "failed") ELSE GoOn(p, FALSE) /\ UNCHANGED nats
  /\ UNCHANGED <<launches, ready>>

Connecting(p) == proc[p].at \in {"connect_nats", "connect_temporal"}

Connect(p) ==
  /\ Connecting(p)
  /\ GoOn(p, FALSE)
  /\ nats' = IF At(p, "connect_nats") THEN nats \cup {p} ELSE nats
  /\ UNCHANGED <<launches, tables, ready>>

\* Mutant: the loop starts over after its last round.
Mut_ConnectForever(p) ==
  /\ Connecting(p)
  /\ proc' = [proc EXCEPT ![p].tries = (proc[p].tries + 1) % MaxConnects]
  /\ UNCHANGED <<launches, tables, ready, nats>>

\* Mutant: off by one, the loop makes one round too many.
Mut_ExtraRound(p) ==
  /\ Connecting(p)
  /\ \/ /\ proc[p].tries < MaxConnects
        /\ proc' = [proc EXCEPT ![p].tries = proc[p].tries + 1]
        /\ UNCHANGED nats
     \/ proc[p].tries = MaxConnects /\ End(p, "failed")
  /\ UNCHANGED <<launches, tables, ready>>

\* Another round of the loop, or the RuntimeError after the last one.
ConnectFails(p) ==
  /\ Connecting(p)
  /\ \/ /\ proc[p].tries + 1 < MaxConnects
        /\ proc' = [proc EXCEPT ![p].tries = proc[p].tries + 1]
        /\ UNCHANGED nats
     \/ proc[p].tries + 1 = MaxConnects /\ End(p, "failed")
  /\ UNCHANGED <<launches, tables, ready>>

\* stream_info, then update_stream, or add_stream when there is none, which accepts
\* a stream that is there by now with the same configuration.
EnsureStream(p) ==
  /\ At(p, "ensure")
  /\ GoOn(p, FALSE)
  /\ ready' = TRUE
  /\ UNCHANGED <<launches, tables, nats>>

Subscribe(p) ==
  /\ proc[p].at \in {"subscribe_triaged", "subscribe_routed"}
  /\ GoOn(p, FALSE)
  /\ UNCHANGED <<launches, tables, ready, nats>>

\* SIGTERM while the process serves.
Stop(p) ==
  /\ At(p, "up")
  /\ Enter(p, "stopping", FALSE)
  /\ UNCHANGED <<launches, tables, ready, nats>>

\* drain, dispose and exit.
Close(p) ==
  /\ At(p, "stopping")
  /\ End(p, "down")
  /\ UNCHANGED <<launches, tables, ready>>

\* An exception that nobody catches, or the process is killed.
Crash(p) ==
  /\ proc[p].at \notin {"down", "failed"}
  /\ End(p, "failed")
  /\ UNCHANGED <<launches, tables, ready>>

StartStep(p) == \/ CheckTables(p) \/ CreateTables(p) \/ Connect(p) \/ ConnectFails(p)
                \/ EnsureStream(p) \/ Subscribe(p)

LifecycleNext == \E p \in Processes : Launch(p) \/ StartStep(p) \/ Stop(p) \/ Close(p) \/ Crash(p)

\* Every await of a start-up returns or raises.
StartFairness == \A p \in Processes : WF_lifeVars(StartStep(p))

LifecycleSpec == LifecycleInit /\ [][LifecycleNext]_lifeVars /\ StartFairness
-----------------------------------------------------------------------------
Serving(p) == proc[p].at = "up"

\* A process that was started serves or has ended, after a bounded number of
\* attempts to connect: it does not wait for ever for a server that is not there.
StartSettles ==
  \A p \in Processes : proc[p].at # "down" ~> proc[p].at \in {"up", "stopping", "down", "failed"}

\* messaging/consumer.py:76-77: a concurrent create_all is safe, so a process
\* that checked the tables creates them, or finds them, whoever else is starting.
ConcurrentCreateIsSafe ==
  [][\A p \in Processes : CreateTables(p) => proc'[p].at # "failed"]_lifeVars
=============================================================================
