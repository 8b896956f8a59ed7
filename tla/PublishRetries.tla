--------------------------- MODULE PublishRetries ---------------------------
(***************************************************************************)
(* The publish step of one run against the clock.  The stream knows the    *)
(* id of a message for Window seconds (messaging/streams.py), and the      *)
(* retries of publish_triage_events_activity send the message again        *)
(* (temporal/workflows.py).  The message is either one of the two that     *)
(* the activity sends; each has an id of its own.                          *)
(*                                                                         *)
(* TriageWorkflow has every step and no time; this module has one step     *)
(* and its timers, in seconds.  The server's timers fire when they are     *)
(* due.  How long a task waits for a worker has no limit: the code sets    *)
(* start_to_close_timeout, but no schedule_to_start_timeout.               *)
(***************************************************************************)
EXTENDS Integers

CONSTANTS
  StartToClose,      \* start_to_close_timeout of the publish step
  InitialInterval,   \* initial_interval of _DEFAULT_RETRY
  Coefficient,       \* its backoff_coefficient
  MaximumInterval,   \* its maximum_interval
  MaxAttempts,       \* its maximum_attempts
  Window,            \* DUPLICATE_WINDOW_SECONDS
  Span               \* the longest time the first n attempts and the
                     \* intervals between them take, for each n

\* The time the server waits after attempt n before it retries.
Backoff ==
  [n \in 1..MaxAttempts |->
     IF InitialInterval * Coefficient^(n - 1) \in 0..MaximumInterval
     THEN InitialInterval * Coefficient^(n - 1) ELSE MaximumInterval]

ASSUME NumbersAssumption ==
  /\ StartToClose \in Nat /\ MaximumInterval \in Nat /\ Window \in Nat
  /\ InitialInterval \in Nat /\ Coefficient \in Nat
  /\ MaxAttempts \in Nat \ {0}
ASSUME SpanAssumption ==
  /\ Span \in [1..MaxAttempts -> Nat]
  /\ Span[1] = StartToClose
  /\ \A n \in 1..(MaxAttempts - 1) : Span[n + 1] = Span[n] + Backoff[n] + StartToClose
  /\ \A n \in 1..MaxAttempts : Span[n] <= Span[MaxAttempts]

VARIABLES
  at,      \* where the step stands
  try,     \* the attempt, as the server counts them
  clock,   \* how long the attempt has run, or the server has backed off
  late,    \* how many attempts that the server gave up may still send the message
  age,     \* how long the stream has known the id; Window when it does not
  waited,  \* how much of the time since then the step waited for a worker or was over
  copies   \* how often the message is on the stream

vars == <<at, try, clock, late, age, waited, copies>>

\* An attempt executes: before or after it has sent the message, or its worker died.
Executing == {"unsent", "sent", "gone"}

TypeOK ==
  /\ at \in Executing \cup {"queued", "backoff", "closed"}
  /\ try \in 1..MaxAttempts
  /\ clock \in Nat
  /\ at \in Executing => clock <= StartToClose
  /\ at = "backoff" => clock <= Backoff[try]
  /\ late \in Nat
  /\ age \in 0..Window
  /\ waited \in 0..Window
  /\ copies \in Nat

Init ==
  /\ at = "queued" /\ try = 1 /\ clock = 0
  /\ late = 0
  /\ age = Window /\ waited = Window
  /\ copies = 0
-----------------------------------------------------------------------------
\* The stream stores a message whose id it does not know, and drops any other.
Store ==
  \/ age = Window /\ age' = 0 /\ waited' = 0 /\ copies' = copies + 1
  \/ age < Window /\ UNCHANGED <<age, waited, copies>>

\* A worker takes the task.
Take ==
  /\ at = "queued"
  /\ at' = "unsent"
  /\ clock' = 0
  /\ UNCHANGED <<try, late, age, waited, copies>>

Publish ==
  /\ at = "unsent"
  /\ at' = "sent"
  /\ Store
  /\ UNCHANGED <<try, clock, late>>

Return ==
  /\ at = "sent"
  /\ at' = "closed"
  /\ UNCHANGED <<try, clock, late, age, waited, copies>>

\* The server learns that the attempt failed.  One that has not sent the message may
\* still do so: the code runs on, or the client sends what it has buffered once it is
\* connected again.
AttemptFails ==
  /\ at' = IF try < MaxAttempts THEN "backoff" ELSE "closed"
  /\ clock' = 0
  /\ \/ late' = late
     \/ at = "unsent" /\ late' = late + 1
  /\ UNCHANGED <<try, age, waited, copies>>

\* Without a connection, without an acknowledgement, or after the other message's failure.
Raise == at \in {"unsent", "sent"} /\ AttemptFails

Timeout == at \in Executing /\ clock = StartToClose /\ AttemptFails

\* The worker dies.
Vanish ==
  /\ at \in {"unsent", "sent"}
  /\ at' = "gone"
  /\ UNCHANGED <<try, clock, late, age, waited, copies>>

\* Mutant: the attempts are not counted.
Mut_UncountedRetry ==
  /\ at = "backoff"
  /\ clock = Backoff[try]
  /\ at' = "queued"
  /\ UNCHANGED <<try, clock, late, age, waited, copies>>

Retry ==
  /\ at = "backoff"
  /\ clock = Backoff[try]
  /\ at' = "queued"
  /\ try' = try + 1
  /\ UNCHANGED <<clock, late, age, waited, copies>>

\* An attempt that the server gave up sends the message, or ends without.
Straggle ==
  /\ late > 0
  /\ late' = late - 1
  /\ Store \/ UNCHANGED <<age, waited, copies>>
  /\ UNCHANGED <<at, try, clock>>

Later(t) == IF t < Window THEN t + 1 ELSE Window

\* A second passes.
Tick ==
  /\ at \in Executing => clock < StartToClose
  /\ at = "backoff" => clock < Backoff[try]
  /\ clock' = IF at \in Executing \cup {"backoff"} THEN clock + 1 ELSE clock
  /\ age' = Later(age)
  /\ waited' = IF at \in {"queued", "closed"} THEN Later(waited) ELSE waited
  /\ UNCHANGED <<at, try, late, copies>>

Next == \/ Take \/ Publish \/ Return \/ Raise \/ Timeout \/ Vanish \/ Retry \/ Straggle \/ Tick

Spec == Init /\ [][Next]_vars
-----------------------------------------------------------------------------
\* The window covers the attempts and the intervals between them: the message is
\* stored a second time only when, since it was stored, the step has waited for
\* workers or has been over for the rest of the window (72 of the 120 seconds with
\* the numbers of workflows.py).  streams.py:9 says more, that 120 seconds are enough
\* for all retries of a single workflow: not when one of them waits that long.
WindowCoversRetries ==
  [][copies > 0 /\ copies' # copies => waited >= Window - Span[MaxAttempts]]_vars
=============================================================================
