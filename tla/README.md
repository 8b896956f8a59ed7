# A TLA+ model of the report triage agent

The program takes reports about marketplace posts (`POST /reports`), runs a
Temporal workflow that classifies, scores and routes each of them, stores the
result in PostgreSQL and announces it on a NATS JetStream stream. This directory
holds TLA+ modules that model it, TLC configurations that check the modules on
small instances, and theorems that TLAPS checks for every value of the
constants. Source paths below are relative to `backend/app/`.

    tlc -workers 2 -config SystemLate.cfg MCLateWrites.tla
    tlc -workers 2 -config EventPipeline.cfg EventPipeline.tla
    tlapm TriageSystemProofs.tla

## 1. Inventory of the system

| component | state it keeps | operations | interacts through |
|---|---|---|---|
| Triage rules (`services/classifier.py`, `priority.py`, `review.py`, `routing.py`) | none | classify, score, decide review, route | called by four activities |
| Report store (`services/reports_repo.py`, `db/`) | `reports`, `report_classifications`, `review_queue_items` | create with key, find by key, status updates, reset, two upserts, queue pages | sessions of the API and of the activities, read committed |
| Triage workflow (`temporal/workflows.py`, `activities.py`) | the step a run waits for | nine steps in order, `mark_report_failed` on error | activities write the store and the stream |
| Temporal server and workers (external; `temporal/worker.py`, `client.py`) | current run per workflow id, attempts | start with TERMINATE_IF_RUNNING, dispatch, retry, time out | started by the API, calls the activities |
| Event publishing (`messaging/events.py`, `streams.py`) | the stream, the duplicate window | publish triaged, publish routed | the publish activity; read by the consumer |
| Reports API (`api/reports.py`) | one coroutine per request | create, reprocess, get | the store, then `start_workflow` |
| Metrics consumer (`messaging/consumer.py`, `handlers.py`, `api/metrics.py`) | the `event_metrics` table (one row per subject), a durable push consumer per subject | decode, count in one upsert, then ack, or leave unacknowledged | the stream pushes to it; the API reads its table |
| Queue listing (`api/queues.py`) | a cursor held by the client | pages by `(enqueued_at, id)` | reads the store |
| Connection set-up (`messaging/nats_client.py`, `temporal/client.py`, `main.py`, `temporal/worker.py`) | global clients, the tables, the stream | create the tables, connect with retries, ensure the stream, subscribe, drain | start-up and shutdown of API, worker, consumer |
| Configuration, health, frontend, compose files | constants | | |

### What is hard about it, and what makes it correct

* **Reports API.** Every `await` lets another request run. Two creates with one
  `Idempotency-Key` may both miss the lookup; the loser of the insert has to
  answer with the winner's report and must not start a workflow. The store and
  Temporal are two systems: a process that dies between the commit and
  `start_workflow`, or a start whose answer is lost, leaves them apart.
  *Correct when* keyed answers agree, runs are accounted for, a GET never shows
  a status without what the status promises.
* **Workflow and activities.** Attempts time out, fail after their commit, are
  retried, and are not told when the server stops waiting for them (no
  heartbeat): an attempt may overlap with its retry, or outlive the run it
  belongs to. *Correct when* every run closes, its outcome is the status it
  leaves unless a late attempt overtakes it, and the status never gets ahead of
  the rows it stands for.
* **Store.** An upsert selects and then inserts; a session skips the columns that
  did not change since *it* loaded them. *Correct when* the unique constraints
  turn every race into a retry.
* **Events.** Two publishes make one step; ids leave the duplicate window while a
  report is triaged again, or while a retry waits for a worker. *Correct when* an
  event is about committed rows, routed follows triaged, and the window covers
  the retries of a step.
* **Consumer.** At-least-once delivery into counters that are not idempotent: a
  crash between the commit of the count and the ack counts a message twice.
  *Correct when* no acknowledged message is uncounted, and a backlog drains.
* **Queue listing.** Items are inserted and enqueued again while a client pages
  through their queue; stamps are taken before commits, so rows may appear below
  the cursor. *Correct when* what stays is shown once and the pages end.
* **Start and stop.** Three processes set up shared tables and one stream, in any
  order, with a bounded number of attempts, and nothing restarts them.
  *Correct when* a worker that publishes has its connection, and no process waits
  for ever.
* **Rules.** Ordered keyword rules whose outputs feed thresholds. *Correct when*
  evidence does not weaken a fraud verdict and no fraud report escapes review.

`PROJECT.json` lists these as hazards, each at its line.

## 2. Modules

    ReportIds ─┬─ ReportStore (+ TriageRules) ─┬─ TriageWorkflow ─┐
               ├─ TemporalServer ──────────────┴─ ReportsApi ─────┴─ TriageSystem
               └─ EventStream ─┬─ (TriageWorkflow)
                               └─ MetricsConsumer ──┬─ EventPipeline
                                  ProcessLifecycle ─┘
    TriageSystem ── LateWrites (a history variable)
    TriageRules ── TriageEvidence          QueuePaging          PublishRetries

    abstract: KeyedCreate    <- ReportsApi     (property KeyedCreates)
              ReportProgress <- TriageSystem   (property ReportsProgress)

    proofs:   TriageWorkflowProofs <- TriageSystemProofs
              TriageSystemProofs, ReportsApiProofs <- TriageCompositionProofs
              QueuePagingProofs, PublishRetriesProofs, EventPipelineProofs,
              TriageEvidenceProofs

### TriageRules, TriageEvidence

`TriageRules` translates the four pure services. A text is the set of the keyword
classes found in it: two keywords are in one class when no rule tells them apart,
and the classes overlap where the code's tuples do. A confidence is a percentage.
The classifier reads description and metadata, `score_priority` only the
description and the price, as in the code. The rules have no state, so
`TriageEvidence` states facts about contents, and about those with a word or a price
more (`WithMore`); the program never edits a report, this only orders the contents.
They are no properties of a run: `TriageEvidenceProofs` proves them of every content,
and TLC evaluates them for contents of up to three words (`RulesOfShortContents`)
before it explores the workflow that applies the rules. `FraudClaimed` is the
classifier's first rule. Its last one files the reason `scam_link` as fraud too,
behind the keyword rules, an order that `tests/test_classifier.py:3` fixes: an
advertising word turns such a report into spam that needs no review, and
`FraudNeverDowngraded` does not speak of it.

### ReportStore

One row of each table per report id. Operations are what one commit does; the
read before it is a separate step of the caller (PostgreSQL's read committed).
`OrmWrite` is a point a reader may not expect: SQLAlchemy leaves an unchanged
attribute out of the UPDATE, so a session that loaded `queued` and sets `queued`
writes nothing, whatever the row says by then. `InsertConflicts` and
`UpsertAllowed` are the unique constraints. A classification is represented by
its routed queue: nothing downstream tells two classifications of one report
apart. Rows are never deleted, as in the code.

### TemporalServer (external)

The server as the code relies on it: the workflow id is a function of the report,
so there is one current run per report; starting one terminates the open one. A
run waits for one activity. An attempt is a process of its own that exists in
`attempts` until it returns, raises or vanishes; it is *late* when the server no
longer waits for it. `MaxLate` bounds the late attempts; with 0 there is none, a bound
of the state space and nothing that the code arranges for.

### EventStream (external)

An append-only sequence and the suffix of it that is still in the duplicate
window. The window is modelled by order, not by time: ids leave it first in,
first out, at any moment, which is every behaviour that a window in seconds has.
How long the window is matters in `PublishRetries`.

### TriageWorkflow

Workflow code is deterministic and replayed, so its state is the step it waits
for. `NextStep` and `ErrorStep` are the control flow of `run`: publish errors are
ignored, every other activity error goes to `mark_report_failed`, and an error
of that one closes the run as `failed_unrecorded` (the `except ApplicationError`
around it does not match the `ActivityError` it gets).

| action | code |
|---|---|
| `BeginActivity` | a worker takes the task; the pure activities compute here |
| `LoadReportRow` | `load_report_activity` |
| `ReadRow`, `MarkStatus` | `mark_report_*_activity`: `session.get`, then the commit |
| `ReadRow`, `PersistClassification`, `RouteQueue` | SELECT of the upsert, then its commit |
| `PublishTriaged`, `PublishRouted` | the two publishes of `publish_triage_events_activity` |
| `Return`, `Raise` | the result or the exception reaches the server |
| `Vanish` | the worker dies, or the SDK cancels an attempt |
| `Timeout` | `start_to_close_timeout` |

`Raise` may follow a commit: the answer of the database was lost, or the process
was. A late attempt that has only its result left to report is dropped at once,
since the server ignores that result.

### PublishRetries

One publish step of one run and one of its two messages, in seconds. `Take`,
`Publish`, `Return`, `Raise`, `Timeout`, `Vanish` and `Retry` are the attempts as
the server counts them; `Straggle` is an attempt that the server gave up and that
sends the message all the same; `Tick` is a second. Timers fire on time: a step
does not let a second pass beyond `StartToClose` or `Backoff`. What has no timer is
a task that waits for a worker, since `workflows.py` sets no
schedule-to-start timeout. `age` is how long the stream has known the id, and
`waited` how much of that the step was waiting for a worker or over: the part of
the time that the retry policy does not limit.

### ReportsApi

One action per stretch of a handler between two awaits that touch the store or
Temporal; `call[c].at` is the next of them. `LookupKey`, `InsertReport`,
`LookupAgain` are the create handler, `LoadReport`, `ResetStatus` the reprocess
handler, `StartWorkflow`, `StartFails`, `ReloadReport`, `MarkStartFailed` the end
of both, `GetStatus`, `GetRows` the two SELECTs of `get_report` (`selectinload`
issues one per relationship). `StartFails` also covers a start that happened
although the call raised. `Abort` ends a request at any await. The id returned by
`new_report_id` is any id, taken ones included.

### TriageSystem

The composition: handlers and attempts interleave over the store and the server.

`LateWrites` adds the history variable `overtaken`: the reports whose status an
attempt changed that the server had given up, since their current run started. No
code holds such a write back, so what a run leaves behind is promised of the other
reports only.

### KeyedCreate and ReportProgress, the promises

`KeyedCreate` is what a client of `POST /reports` may rely on: an
`Idempotency-Key` gets one report for ever, every accepted call with that key
names it, an accepted call without a key has a report of its own. `ReportsApi`
maps its tables and calls to it (`Made`, `KeyedReport`, `Answered`).

`ReportProgress` is what a reader of one report may rely on: the result is filed
in two steps and never taken back, `classified` is shown only behind both, events
are announced behind both, triaged first, and never withdrawn. What takes
`classified` away again is left open (`Reopen`): a reprocess, a late attempt that
marks the report, or a start that failed. `TriageSystem` maps the rows, the status and the stream to it,
for every report.

### QueuePaging

One queue, the attempts of `route_queue_activity` that write it and one client
that reads it. `SelectItem` takes the stamp before `CommitItem` commits it, so
commits are not in the order of the stamps: an item may be inserted below the
cursor, and an item that is enqueued again may even move back. The reads are
single statements (read committed); the page is the `limit` largest rows of the
keyset below the cursor, and `limit + 1` rows tell whether there is more. Item
ids are random: `Rank` is their order, arbitrary and fixed.

### ProcessLifecycle, MetricsConsumer, EventPipeline

`ProcessLifecycle` takes each process through the awaits of its start
(`ApiStart`, `WorkerStart`, `ConsumerStart`), its signal and its end. The two
connection loops share `Connect` and `ConnectFails`; `create_all` is its query
(`CheckTables`) and its statements (`CreateTables`). `Crash` is the death of a
process as well as an exception that ends it; only an operator's `Launch` starts
it again.

`MetricsConsumer` is the handler: record, commit, acknowledge, each of which may
fail, before or after the database committed. JetStream (external) delivers what
is not acknowledged, in any order, again and again: `consumer.py` configures no
`max_deliver`, so the dead letter of `consumer.py:14` does not exist.

`EventPipeline` composes the two with `EventStream` and a publish activity. What
is in the memory of a process goes with it (`Memory`); a worker closes its
connection when its activities are over and a consumer when its handlers are
(`Drained`).

## 3. Runs

| run | instance | what it shows |
|---|---|---|
| `idempotency` | 2 creates on one key, 1 without, 1 reprocess, 3 ids | keyed answers agree; runs are accounted for; `KeyedCreate` is implemented |
| `workflow` | 1 run, 3 attempts per step (the code's number), 1 late attempt, 1 id leaves the window | the run closes |
| `system_late` | create, reprocess, 2 attempts, 1 late attempt | types; status behind rows; `ReportProgress` is implemented; the last run decides the status, unless a late attempt changed it after that run had started |
| `system_readers` | create, reprocess, GET, 2 attempts, 1 id leaves the window | GET is never blank; events behind rows |
| `publish_retries` | 1 message, 3 attempts of 15 s, intervals of 1 and 2 s, a window of 120 s | the window covers the retries and 72 s of waiting |
| `paging` | 3 items, 2 attempts, pages of 1 and 2, 3 instants | what stays is shown; pages descend; the pages end |
| `pipeline` | worker and consumer, 3 starts, 2 connection attempts, 2 messages | publishers are connected; the acknowledged is counted; starts settle; a backlog drains |
| `late_write` | 1 late attempt | *violated*: a terminated run's write lands last |
| `final_failure` | 1 run | *violated*: a failed run need not leave `failed` |
| `start_failed` | create, reprocess | *violated*: a classified report reads "not tried" |
| `accepted_not_started` | 2 creates, one key | *violated*: 202 for a report nobody triages |
| `create_race` | api and consumer start on an empty database | *violated*: a concurrent `create_all` ends one of them |

The last five state what a document or a comment says and show a behaviour of
the code that disagrees; `PROJECT.json` quotes both sides under `findings`.

**Bounds.** One report suffices for the system runs: handlers and attempts of two
reports share nothing but the stream, whose property is per report and is proved
for any number; the key space, where reports do interact, has its own run with
three ids. Two attempts per step give an attempt and a retry to overlap with;
`workflow` keeps the code's three. One late attempt is enough to overlap with the
retry of its step or with a later run. One create and one reprocess call
give two runs of one report. One forgotten id separates the two events
of one publish step. Every bound
is a constant: `MaxAttempts`, `MaxLate`, `MaxForgotten`, the sets of
calls. `CHECK_DEADLOCK FALSE` is set where the system may rest: when every request
is answered and every run is closed. `PublishRetries` has a clock and never rests.

`publish_retries` has no bound but the code's own numbers; ages above the window are
one value. 120 s less the 48 s of the policy are 72 s, and a
bound of 73 is refuted. In `system_readers` there is no late attempt, which would
take the run out of reach; `system_late` has them, and the
theorems on the two properties of `system_readers` hold with any number. The `VIEW`
of `SystemLate.cfg` takes states as one that differ only in how a call ended about
which nothing asks: such a call takes no further step.

In `paging`, two attempts are enough for commits out of the order of their stamps
and for an item that moves while another is inserted; three items and pages of at
most two give a border between pages with a tie on each side. In `pipeline`, three
starts let the consumer die and come back beside a worker; two messages are one
of each subject, or one subject twice when its id has left the window; a counter
is only told apart from the number of acknowledged messages up to `MaxCount`, and
no subject can have more than two. `MaxInbox` is 1: a subscription hands one
message at a time to its handler anyway.

**Fairness.** `WorkflowSpec` has weak fairness of `BeginActivity` (a worker polls
its task queue for as long as it runs, `temporal/worker.py`) and of `Timeout`
(the server's timers fire). The first assumes that a worker is up again after
each crash: the compose file declares no restart policy, although
`consumer.py:15` and the restart loop of `README.md:250` speak of one, so that is
the deployment's part; without any worker the timeouts alone close nothing,
because a task that no worker has taken has no start-to-close timer. Nothing
makes an attempt finish, so that `RunCloses` rests on the timeouts and retry
limits of `workflows.py`, not on the goodwill of activities.

`QueuePaging` assumes that the client follows `next_cursor` (weak fairness of
`ReadPage`), nothing about the writers: `ListingEnds` rests on the descending
keyset. `EventPipeline` has weak fairness of a step of a starting process (every
await returns or raises, so `StartSettles` rests on the bound of the loops) and
of the client library's call of the handler, and strong fairness of delivery
(JetStream redelivers), of the count and of the acknowledgement. The last two are
an assumption about the environment, named there: a database that never
answers while the consumer is up leaves messages behind. Nothing makes a process
start again; `Drains` speaks of the time it serves.

**Late attempts.** The code does not hold back an attempt that the server has
given up (no heartbeat, no check before the commit), and `late_write` shows that
the plain claim, that the last completed run decides the status, fails for that
reason. `SettledUnlessOvertaken` says that nothing else breaks it: not the reset
that a session leaves out, not a termination between two statements, not a timed
out attempt of an earlier run that changed the status before the last run began. It
holds with late attempts at work, and excludes a report only from the moment one
of them has actually changed its status.

## 4. Proofs

Every safety property and both refinements that the runs check are theorems. They
hold for any sets of reports, keys, calls, keywords, attempts and pages, any retry
policy and window, and any bounds:

| module | theorem | statement |
|---|---|---|
| `TriageSystemProofs` | `TypeCorrect` | `Spec => []TypeOK` |
| | `StatusBehindRows` | `Spec => []ClassifiedHasRows` |
| | `EventsBehindRows` | `Spec => []EventsFollowRows` |
| | `AnswersComplete` | `Spec => []GetNeverBlank` |
| | `Invariance` | `Spec => []IInv`, on which the others rest |
| `TriageWorkflowProofs` | `WorkflowTypes` | `WorkflowSpec => []WorkflowTypeOK` |
| `ReportsApiProofs` | `KeyedAnswers` | `ApiSpec => []KeyedAnswersAgree` |
| | `PromiseKept` | `ApiSpec => KeyedCreates` |
| | `RunsAccounted` | `ApiSpec => []RunsAreAccountedFor` |
| `TriageCompositionProofs` | `RunsSettle` | `WatchedSpec => []SettledUnlessOvertaken` |
| | `ProgressImplemented` | `Spec => ReportsProgress` |
| | `SystemAnswersAgree` | `Spec => []KeyedAnswersAgree` |
| | `SystemKeepsPromise` | `Spec => KeyedCreates` |
| | `SystemRunsAccounted` | `Spec => []RunsAreAccountedFor` |
| `PublishRetriesProofs` | `RetriesAreCovered` | `Spec => WindowCoversRetries` |
| `QueuePagingProofs` | `NothingMissed` | `Spec => []NothingStillIsMissed` |
| | `NoRowTwice` | `Spec => []PagesDescend` |
| `EventPipelineProofs` | `TypeCorrect` | `Spec => []TypeOK` |
| | `PublishersAreConnected` | `Spec => []PublishFindsStream` |
| | `CountersCoverTheAcked` | `Spec => []AckedAreCounted` |
| `TriageEvidenceProofs` | `WaiversAreForAbuseAndSpam` | every content: `WaivedOnlyForAbuseAndSpam(c)` |
| | `FraudStays` | every content: `FraudNeverDowngraded(c)` |
| | `PriceRaises` | every content: `PriceOnlyRaises(c)` |

Assumptions: those declared with the constants (`MaxAttempts` is a positive
natural number, contents are report contents, a missing key is not a key, and so
on); TLC evaluates each of them in the runs. No theorem bounds the late attempts.
`Span` of `PublishRetries` is given by its recurrence, and assumed to grow
(`SpanAssumption`): that sums grow is an induction, which is out of the prover's
reach and which TLC evaluates for the code's numbers.

**The argument for the system.** None of the safety properties is inductive: that `classified`
is written only behind its rows depends on *who* writes it. `IInv` makes the
position of each process evidence of the rows committed to get there:

* `RowsInv`: a stored row is the queue the rules compute, and a queue item has a
  classification;
* `RunsInv`: a run past `persist` has a classification, past `route` a queue item;
* `AttemptsInv`: the same for an attempt, late or not, whose upsert is committed or
  whose SELECT saw a row;
* `EventsInv`: the same for messages on the stream, and an attempt past its first
  publish has a triaged event behind it;
* `CallsInv`: the same for a GET between its two SELECTs.

Rows are never removed or changed (`RowsInv` fixes their value), so that evidence
is stable under everybody else's steps, and late attempts do no harm. Three lemmas
say what a step may do to the store, to a run and to the attempts; every
action is shown to be one of those effects, and the invariant is shown stable
under the effects, so that one action is one short step of the proof.

**The status of a run.** The attempts of one report are ordered by the number of
their run, their step (`Rank`) and their try: the one that the server waits for is
current, and every other is behind the run (`TasksInv`), for good, since no run
goes back. `StatusFollows(r)` says where the status of `r` stands while nobody else
writes it: the current session between its SELECT and its commit loaded the status
that is there, so that the column SQLAlchemy leaves out of the UPDATE already has
its value; a current attempt that is only to report has written it; and a closed
run left that of its outcome. `WorkflowFollows` shows it stable under every step
of the workflow but the late writes, which are `LateWrite` and put the report
into `overtaken`. In the system the handlers write the status too. `Disturbed(r)`
holds from the moment a call writes, or is about to write, the status of `r`,
until the run that it starts; that start makes the attempts of the old run late,
empties the record of `r` and makes `StatusFollows(r)` true again. `SettleInv` is,
for every report, `overtaken`, `Disturbed(r)` or `StatusFollows(r)`; a call that is
cut off or fails to start its run disturbs its report for good, and
`SettledUnlessOvertaken` excludes these by name.

**The window.** `RetriesInv` bounds the age of a message by the time waited since
it was stored plus `Spent`, the most that the attempts and intervals so far can have
taken; a message stored anew has age 0 and the bound starts again. When the age has
reached the window, what is left after the whole span was waited. A retry that is
not counted makes `Spent` start over, and with it the bound is lost: the mutant.

**Runs are accounted for.** The bound of `RunsAreAccountedFor` leaves out when the
one run of the creating call becomes due, so it is not inductive: from a state
where that run is counted already and the call is still at its start, the next
step breaks it. `CountInv` gives every report a debt, one run per reprocess call
past its start, and one of the creating call *once that call is past its own*
(`CreateOwes`), and says that one create call at most is at the start of a report
(the loser of a race never gets there). Each start raises the debt and
the number of runs by one, and nothing takes a debt back.

**Composition.** `ReportsApi` is proved about the handlers alone, where nothing
else writes the store, and the theorems carry over to the system: the lemmas on
actions assume nothing of the other actors, and `OthersStep` and `OthersCount` say
what suffices of them (no report appears or goes, no key changes, no run starts).
`WorkflowKeepsReports` shows it of the workers. It needs `ReadersFoundRow`: a
session that writes a status found the row, otherwise its write would make a report.

**The refinements.** `ProgressImplemented` uses `IInv` of the same system: it
gives the guards of the abstract steps (a status is shown, an event is announced
behind the rows), and one lemma per concrete effect gives the abstract step.
`PromiseKept` rests on `ApiInv`: keys are unique in the table,
and a call that is past its insert holds a report that is there with its key and
that no other call without that key holds.

**Paging.** The invariant says that an item which was there at the first page and
has not moved is on the pages read so far or strictly below the cursor, and that
every row of the pages read so far is at or above the cursor. `Below` is a strict
total order because ids differ.

**Pipeline.** `PublishFindsStream` needs what each station of the worker has
behind it (`SetUp`) and that an activity lives only in a worker that has not
closed (`Employed`). `AckedAreCounted` is not inductive: the count comes one step
before the acknowledgement, so `Covered` counts the message in hand as well, and
`OwnMessages` keeps the subjects apart.

**Rules.** The rules are tables of constants, so the lemmas say what they return
for a text of any words: which rule matches first, with which confidence, what a
signal or a price adds to the priority. Evidence is only added (`MoreAdds`), a rule
that matched still matches (`EvidenceStays`), and the fraud rule is the first one
tried (`FraudFirst`).

**Only model-checked.** The liveness properties `RunCloses`, `ListingEnds`,
`StartSettles` and `Drains`: fairness and `ENABLED` are out of the prover's reach.
The five runs that end in a violation show single behaviours.

## 5. Not modelled, and why

* The payload branch of the handler (a message that does not decode is
  acknowledged uncounted): every message on the stream is published by
  `events.py`. `last_seen_at` and `GET /metrics/events`, a plain read.
* `queue_status` and its filter: the code writes no status but `pending`. The form
  of the cursor: a token that does not parse is answered 400, and a cursor has to
  be percent-encoded (`README.md:256`); a token that comes back is the same pair.
* The persistence of NATS itself: in `docker-compose.yml` the stream lives in the
  container, so that losing the container loses the stream. External.
* A NATS connection or the stream that is lost while a process is up, and a client
  that has given up reconnecting: `ProcessLifecycle` loses connections only with
  the process. `PublishFindsStream` and `Drains` hold barring that.
* Two publish steps of different runs in `PublishRetries`: with a reprocess the
  message counts as a new one outside the window by intention (`events.py:23-25`).
  `streams.py:9-10` says that 120 s cover all retries of one run. They cover the
  attempts and the intervals, and 72 s of waiting; a retry that waits longer for a
  worker, say because the one that published has died, stores the message again.
* Two reprocess calls at once beside a GET: too many states with late attempts;
  the theorems cover any number of calls.
* `docs/03-product-requirements.md:150` waives review for `general` with a high
  confidence; the classifier gives `general` 0.4 only, so that the clause never
  applies (`WaivedOnlyForAbuseAndSpam`).
* Title, description text, identifiers, rationale wording, event payloads beyond
  subject and report: no property tells them apart.
* Configuration, health probe, compose files and scripts: constants or clients
  without behaviour of their own. The frontend: its answers may come out of
  order, see the hazards; it keeps no state that anything else reads.
* The example of `docs/04-api-spec.md:65` shows priority `high` for a report that
  `score_priority` makes `critical`: a matter of wording, noted here only.

## 6. Plan

In order of what matters most:

1. *Done:* rules, store, server, stream, workflow, API and their composition; the
   metrics consumer, the processes, their composition; the queue listing; the retries
   against the clock; two abstract specifications and their refinements; a theorem
   for every safety property of the passing runs.
2. Left: the safety part of the liveness arguments, as far as the prover reaches: a
   measure that no step of a run raises and every timeout lowers (`RunCloses`),
   the set of rows below the cursor that each page shrinks (`ListingEnds`).
