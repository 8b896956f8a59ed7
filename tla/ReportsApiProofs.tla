-------------------------- MODULE ReportsApiProofs --------------------------
(***************************************************************************)
(* The handlers of the API keep the promise of the Idempotency-Key, and    *)
(* start no run that no call accounts for, for any number of calls, keys   *)
(* and report ids.                                                         *)
(***************************************************************************)
EXTENDS ReportsApi, FiniteSetTheorems, TLAPS

Types == /\ status \in [Reports -> Statuses \cup {"absent"}]
         /\ idempotencyKey \in [Reports -> Keys \cup {NoKey}]
         /\ classification \in [Reports -> Rows]
         /\ call \in [Calls -> CallStates]

KeysAreUnique ==
  \A r, q \in Reports :
    Exists(r) /\ Exists(q) /\ idempotencyKey[r] = idempotencyKey[q] /\ idempotencyKey[r] # NoKey
      => r = q

\* What the request c may hold at a point of its handler: report r, answer code.
Holds(c, at, r, code) ==
  /\ c \in CreateCalls =>
       /\ at \notin {"reset", "rows"}
       /\ at \in {"arrived", "insert", "relookup"} => r = NoReport
       /\ r # NoReport => Exists(r) /\ idempotencyKey[r] = KeyOf[c]
       /\ code = 202 => r # NoReport
  /\ at \in {"reset", "start", "reload", "mark", "rows"} => r \in Reports /\ Exists(r)
  /\ code # 0 => at = "answered"

CallsHold == \A c \in Calls : Holds(c, call[c].at, call[c].report, call[c].code)

\* The report of a keyless call belongs to no other create call.
KeylessOwn ==
  \A c, d \in CreateCalls :
    KeyOf[c] = NoKey /\ call[c].report = call[d].report /\ call[c].report # NoReport => c = d

ApiInv == Types /\ KeysAreUnique /\ CallsHold /\ KeylessOwn
-----------------------------------------------------------------------------
LEMMA ApiInitInv == HandlersInit => ApiInv
<1> SUFFICES ASSUME HandlersInit PROVE ApiInv
  OBVIOUS
<1>1. Types
  BY DEF HandlersInit, StoreInit, ApiInit, Types, Arrived, CallStates, Points, Codes, Rows
<1>2. \A r \in Reports : ~Exists(r)
  BY DEF HandlersInit, StoreInit, Exists
<1>3. \A c \in Calls : call[c] = Arrived
  BY DEF HandlersInit, ApiInit
<1>4. CallsHold
  BY <1>3 DEF CallsHold, Holds, Arrived
<1>5. KeylessOwn
  BY <1>3 DEF KeylessOwn, Arrived, Calls
<1> QED BY <1>1, <1>2, <1>4, <1>5 DEF ApiInv, KeysAreUnique

\* A request that takes a step is in the state it goes to; the others stay.
LEMMA BecomeEffect ==
  ASSUME call \in [Calls -> CallStates], NEW c \in Calls, NEW point, NEW r, NEW s, NEW rows, NEW code,
         Become(c, point, r, s, rows, code)
  PROVE  /\ call'[c].at = point /\ call'[c].report = r /\ call'[c].code = code
         /\ \A d \in Calls \ {c} : call'[d] = call[d]
<1>1. call'[c] = [at |-> point, report |-> r, seen |-> s, shown |-> rows, code |-> code]
  BY DEF Become
<1>2. \A d \in Calls \ {c} : call'[d] = call[d]
  BY DEF Become
<1> QED  BY <1>1, <1>2

\* The same with the types.
LEMMA Becomes ==
  ASSUME Types, NEW c \in Calls, NEW p \in Points, NEW r \in Reports \cup {NoReport},
         NEW s \in Statuses \cup {"none"}, NEW rows \in Rows, NEW code \in Codes,
         Become(c, p, r, s, rows, code)
  PROVE  /\ call' \in [Calls -> CallStates]
         /\ call'[c].at = p /\ call'[c].report = r /\ call'[c].code = code
         /\ \A d \in Calls \ {c} : call'[d] = call[d]
<1>1. [at |-> p, report |-> r, seen |-> s, shown |-> rows, code |-> code] \in CallStates
  BY DEF CallStates
<1> QED BY <1>1 DEF Types, Become

\* A step that neither makes a report nor changes a key.
StoreKept ==
  /\ status' \in [Reports -> Statuses \cup {"absent"}]
  /\ classification' \in [Reports -> Rows]
  /\ \A q \in Reports : Exists(q)' = Exists(q)
  /\ idempotencyKey' = idempotencyKey

LEMMA KeptWhenUnchanged == ASSUME Types, UNCHANGED storeVars PROVE StoreKept
BY DEF Types, StoreKept, storeVars, Exists

LEMMA KeptByUpdate ==
  ASSUME Types, NEW r \in Reports, Exists(r), NEW seen, NEW new \in Statuses,
         UpdateStatus(r, seen, new)
  PROVE  StoreKept
<1>1. new # "absent"
  BY DEF Statuses
<1>2. CASE seen = new
  BY <1>2 DEF Types, StoreKept, UpdateStatus, OrmWrite, Exists
<1>3. CASE seen # new
  BY <1>1, <1>3 DEF Types, StoreKept, UpdateStatus, OrmWrite, Exists
<1> QED BY <1>2, <1>3

\* A step of one request that leaves reports and keys alone.
LEMMA CallStepInv ==
  ASSUME ApiInv, StoreKept,
         NEW c \in Calls, NEW p \in Points, NEW r \in Reports \cup {NoReport},
         NEW s \in Statuses \cup {"none"}, NEW rows \in Rows, NEW code \in Codes,
         Become(c, p, r, s, rows, code),
         Holds(c, p, r, code),
         c \in CreateCalls /\ KeyOf[c] = NoKey => r \in {NoReport, call[c].report}
  PROVE  ApiInv'
<1>1. /\ call' \in [Calls -> CallStates]
      /\ call'[c].at = p /\ call'[c].report = r /\ call'[c].code = code
      /\ \A d \in Calls \ {c} : call'[d] = call[d]
  BY Becomes DEF ApiInv
<1>2. Types'
  BY <1>1 DEF ApiInv, Types, StoreKept
<1>3. KeysAreUnique'
  BY DEF ApiInv, KeysAreUnique, StoreKept
<1>4. CallsHold'
  <2> SUFFICES ASSUME NEW d \in Calls
               PROVE  Holds(d, call[d].at, call[d].report, call[d].code)'
    BY DEF CallsHold
  <2>1. CASE d = c
    BY <1>1, <2>1, KeyOfAssumption DEF Holds, StoreKept, CallStates, ApiInv, Types
  <2>2. CASE d # c
    <3>1. Holds(d, call[d].at, call[d].report, call[d].code) /\ call'[d] = call[d]
      BY <1>1, <2>2 DEF ApiInv, CallsHold
    <3>2. call[d].report \in Reports \cup {NoReport}
      BY DEF ApiInv, Types, CallStates
    <3> QED BY <3>1, <3>2 DEF Holds, StoreKept
  <2> QED BY <2>1, <2>2
<1>5. KeylessOwn'
  <2> SUFFICES ASSUME NEW d \in CreateCalls, NEW e \in CreateCalls, KeyOf[d] = NoKey,
                      call'[d].report = call'[e].report, call'[d].report # NoReport
               PROVE  d = e
    BY DEF KeylessOwn
  <2>1. d \in Calls /\ e \in Calls
    BY DEF Calls
  <2>2. CASE d # c /\ e # c
    BY <1>1, <2>1, <2>2 DEF ApiInv, KeylessOwn
  <2>3. CASE d = c /\ e # c
    BY <1>1, <2>1, <2>3 DEF ApiInv, KeylessOwn
  <2>4. CASE e = c /\ d # c
    <3>1. call[d].report = r /\ r # NoReport
      BY <1>1, <2>1, <2>4
    <3>2. KeyOf[c] = NoKey
      BY <2>1, <2>4, <3>1 DEF ApiInv, CallsHold, Holds
    <3> QED BY <2>4, <3>1, <3>2 DEF ApiInv, KeylessOwn
  <2> QED BY <2>2, <2>3, <2>4
<1> QED BY <1>2, <1>3, <1>4, <1>5 DEF ApiInv
-----------------------------------------------------------------------------
LEMMA TablesStay ==
  ASSUME StoreKept PROVE Made' = Made /\ KeyedReport' = KeyedReport
<1>1. Made' = Made
  BY DEF StoreKept, Made
<1>2. ASSUME NEW k PROVE ReportWithKey(k)' = ReportWithKey(k)
  <2>1. ReportsOfKey(k)' = ReportsOfKey(k)
    BY DEF StoreKept, ReportsOfKey
  <2> QED BY <2>1 DEF ReportWithKey
<1>3. KeyedReport' = [k \in Keys |-> ReportWithKey(k)']
  BY DEF KeyedReport
<1>4. KeyedReport' = KeyedReport
  BY <1>2, <1>3 DEF KeyedReport
<1> QED BY <1>1, <1>4

\* The promise stutters when reports, keys and accepted answers stay.
LEMMA Stutters ==
  ASSUME ApiInv, StoreKept, \A c \in CreateCalls : (Accepted(c)' <=> Accepted(c)) /\
                             (Accepted(c) => call'[c].report = call[c].report)
  PROVE  UNCHANGED Promise!vars
<1>1. Answered' = Answered
  BY DEF Answered
<1> QED BY <1>1, TablesStay DEF Promise!vars

\* A key has at most one report.
LEMMA ReportOfKey ==
  ASSUME ApiInv, NEW r \in Reports, Exists(r), idempotencyKey[r] # NoKey
  PROVE  /\ ReportsOfKey(idempotencyKey[r]) = {r}
         /\ idempotencyKey[r] \in Keys
         /\ KeyedReport[idempotencyKey[r]] = r
<1>1. ReportsOfKey(idempotencyKey[r]) = {r}
  BY DEF ApiInv, KeysAreUnique, ReportsOfKey
<1>2. idempotencyKey[r] \in Keys
  BY DEF ApiInv, Types
<1> QED BY <1>1, <1>2 DEF KeyedReport, ReportWithKey

LEMMA KeyOfReport ==
  ASSUME ApiInv, NEW k \in Keys, KeyedReport[k] # NoReport
  PROVE  KeyedReport[k] \in Reports /\ idempotencyKey[KeyedReport[k]] = k
<1>1. ReportsOfKey(k) # {} /\ KeyedReport[k] = CHOOSE r \in Reports : r \in ReportsOfKey(k)
  BY DEF KeyedReport, ReportWithKey
<1>2. \E r \in Reports : r \in ReportsOfKey(k)
  BY <1>1 DEF ReportsOfKey
<1>3. KeyedReport[k] \in Reports /\ KeyedReport[k] \in ReportsOfKey(k)
  BY <1>1, <1>2
<1> QED BY <1>3 DEF ReportsOfKey

\* Only an accepted answer is seen by the client; it is the first of its call,
\* and it is an answer that KeyedCreate allows.
LEMMA RepliesAsPromised ==
  ASSUME ApiInv, StoreKept, NEW c \in CreateCalls, NEW r \in Reports,
         NEW s \in Statuses \cup {"none"},
         call[c].at # "answered", Exists(r), idempotencyKey[r] = KeyOf[c],
         KeyOf[c] = NoKey => call[c].report = r,
         Answer(c, 202, r, s)
  PROVE  Promise!Next
<1>1. c \in Calls
  BY DEF Calls
<1>2. /\ call'[c].report = r /\ call'[c].code = 202
      /\ \A d \in Calls \ {c} : call'[d] = call[d]
  BY <1>1, Becomes DEF ApiInv, Answer, Points, Rows, Codes
<1>3. call[c].code # 202
  BY <1>1 DEF ApiInv, CallsHold, Holds
<1>4. Answered[c] = NoReport
  BY <1>3 DEF Answered, Accepted
<1>5. Answered' = [Answered EXCEPT ![c] = r]
  <2>1. \A d \in CreateCalls : Answered'[d] = IF d = c THEN r ELSE Answered[d]
    BY <1>2 DEF Answered, Accepted, Calls
  <2>2. Answered \in [CreateCalls -> {Answered[d] : d \in CreateCalls}]
    BY DEF Answered
  <2>3. DOMAIN Answered' = CreateCalls /\ Answered' = [d \in CreateCalls |-> Answered'[d]]
    BY DEF Answered
  <2> QED BY <2>1, <2>2, <2>3
<1>6. Made' = Made /\ KeyedReport' = KeyedReport
  BY TablesStay
<1>7. CASE KeyOf[c] # NoKey
  <2>1. KeyOf[c] \in Keys /\ KeyedReport[KeyOf[c]] = r /\ r # NoReport
    BY <1>7, ReportOfKey, NoReportAssumption
  <2>2. Promise!ReplyKeyed(c)
    BY <1>4, <1>5, <1>6, <1>7, <2>1 DEF Promise!ReplyKeyed
  <2> QED BY <2>2 DEF Promise!Next
<1>8. CASE KeyOf[c] = NoKey
  <2>1. r \in Made
    BY DEF Made
  <2>2. \A k \in Keys : KeyedReport[k] # r
    BY <1>8, KeyOfReport, NoKeyAssumption, NoReportAssumption
  <2>3. \A d \in CreateCalls : Answered[d] # r
    BY <1>3, <1>8, NoReportAssumption DEF Answered, Accepted, ApiInv, KeylessOwn
  <2>4. Promise!ReplyKeyless(c, r)
    BY <1>4, <1>5, <1>6, <1>8, <2>1, <2>2, <2>3 DEF Promise!ReplyKeyless
  <2> QED BY <2>4 DEF Promise!Next
<1> QED BY <1>7, <1>8

PromiseStep == ApiInv' /\ [Promise!Next]_(Promise!vars)

\* A step of one request that gives no accepted answer to a create call.
LEMMA QuietStep ==
  ASSUME ApiInv, StoreKept,
         NEW c \in Calls, NEW p \in Points, NEW r \in Reports \cup {NoReport},
         NEW s \in Statuses \cup {"none"}, NEW rows \in Rows, NEW code \in Codes,
         Become(c, p, r, s, rows, code),
         Holds(c, p, r, code),
         call[c].at # "answered",
         c \in CreateCalls => code # 202,
         c \in CreateCalls /\ KeyOf[c] = NoKey => r \in {NoReport, call[c].report}
  PROVE  PromiseStep
<1>1. ApiInv'
  BY CallStepInv
<1>2. /\ call'[c].code = code
      /\ \A d \in Calls \ {c} : call'[d] = call[d]
  BY Becomes DEF ApiInv
<1>3. call[c].code = 0
  BY DEF ApiInv, CallsHold, Holds
<1>4. UNCHANGED Promise!vars
  BY <1>2, <1>3, Stutters DEF Accepted, Calls
<1> QED BY <1>1, <1>4 DEF PromiseStep

\* A step that answers a create call with 202.
LEMMA AcceptedStep ==
  ASSUME ApiInv, StoreKept, NEW c \in CreateCalls, NEW r \in Reports,
         NEW s \in Statuses \cup {"none"},
         call[c].at # "answered", Exists(r), idempotencyKey[r] = KeyOf[c],
         KeyOf[c] = NoKey => call[c].report = r,
         Answer(c, 202, r, s)
  PROVE  PromiseStep
<1>1. Promise!Next
  BY RepliesAsPromised
<1>2. Holds(c, "answered", r, 202)
  BY NoReportAssumption DEF Holds
<1>3. ApiInv'
  BY <1>2, CallStepInv DEF Answer, Points, Rows, Codes, Calls
<1> QED BY <1>1, <1>3 DEF PromiseStep
-----------------------------------------------------------------------------
(* Each action of a request, between reports and keys that stay.           *)

LEMMA CreateSteps ==
  ASSUME ApiInv, NEW c \in CreateCalls, LookupKey(c) \/ LookupAgain(c) PROVE PromiseStep
<1>1. c \in Calls /\ call[c] \in CallStates
  BY DEF Calls, ApiInv, Types
<1>2. StoreKept
  BY KeptWhenUnchanged DEF ApiInv, LookupKey, LookupAgain
<1>3. call[c].at \in {"arrived", "relookup"} /\ call[c].report = NoReport
  BY <1>1 DEF LookupKey, LookupAgain, ApiInv, CallsHold, Holds
<1>4. ASSUME NEW r \in ReportsOfKey(KeyOf[c]), Answer(c, 202, r, status[r]) PROVE PromiseStep
  <2>1. /\ r \in Reports /\ Exists(r) /\ KeyOf[c] # NoKey /\ idempotencyKey[r] = KeyOf[c]
        /\ status[r] \in Statuses
    BY <1>4 DEF ReportsOfKey, ApiInv, Types, Exists
  <2> QED BY <1>2, <1>3, <1>4, <2>1, AcceptedStep
<1>5. CASE Go(c, "insert")
  <2>1. GoWith(c, "insert", NoReport, call[c].seen) /\ call[c].seen \in Statuses \cup {"none"}
    BY <1>1, <1>3, <1>5 DEF Go, CallStates
  <2>2. Holds(c, "insert", NoReport, 0)
    BY DEF Holds
  <2> QED BY <1>1, <1>2, <1>3, <2>1, <2>2, QuietStep DEF GoWith, Points, Rows, Codes
<1>6. CASE Answer(c, 500, NoReport, "none")
  <2>1. Holds(c, "answered", NoReport, 500)
    BY DEF Holds
  <2> QED BY <1>1, <1>2, <1>3, <1>6, <2>1, QuietStep DEF Answer, Points, Rows, Codes
<1> QED BY <1>4, <1>5, <1>6 DEF LookupKey, LookupAgain

\* The INSERT is refused.
LEMMA ConflictStep ==
  ASSUME ApiInv, NEW c \in CreateCalls, call[c].at = "insert", UNCHANGED storeVars,
         \/ KeyOf[c] = NoKey /\ Answer(c, 500, NoReport, "none")
         \/ KeyOf[c] # NoKey /\ Go(c, "relookup")
  PROVE  PromiseStep
<1>1. c \in Calls /\ call[c] \in CallStates
  BY DEF Calls, ApiInv, Types
<1>2. StoreKept
  BY KeptWhenUnchanged DEF ApiInv
<1>3. call[c].report = NoReport
  BY <1>1 DEF ApiInv, CallsHold, Holds
<1>4. CASE Answer(c, 500, NoReport, "none")
  <2>1. Holds(c, "answered", NoReport, 500)
    BY DEF Holds
  <2> QED BY <1>1, <1>2, <1>3, <1>4, <2>1, QuietStep DEF Answer, Points, Rows, Codes
<1>5. CASE Go(c, "relookup")
  <2>1. GoWith(c, "relookup", NoReport, call[c].seen) /\ call[c].seen \in Statuses \cup {"none"}
    BY <1>1, <1>3, <1>5 DEF Go, CallStates
  <2>2. Holds(c, "relookup", NoReport, 0)
    BY DEF Holds
  <2> QED BY <1>1, <1>2, <1>3, <2>1, <2>2, QuietStep DEF GoWith, Points, Rows, Codes
<1> QED BY <1>4, <1>5

\* The INSERT and its commit make the report of the key.
LEMMA InsertedStep ==
  ASSUME ApiInv, NEW c \in CreateCalls, call[c].at = "insert", NEW r \in Reports,
         CreateReport(r, KeyOf[c]), GoWith(c, "start", r, "queued")
  PROVE  PromiseStep
<1>1. c \in Calls /\ KeyOf[c] \in Keys \cup {NoKey}
  BY KeyOfAssumption DEF Calls
<1>2. /\ call' \in [Calls -> CallStates]
      /\ call'[c].at = "start" /\ call'[c].report = r /\ call'[c].code = 0
      /\ \A d \in Calls \ {c} : call'[d] = call[d]
  BY <1>1, Becomes DEF ApiInv, GoWith, Points, Rows, Codes, Statuses
<1>3. /\ ~Exists(r) /\ ReportsOfKey(KeyOf[c]) = {}
      /\ status' = [status EXCEPT ![r] = "queued"]
      /\ idempotencyKey' = [idempotencyKey EXCEPT ![r] = KeyOf[c]]
  BY DEF CreateReport, InsertConflicts
<1>4. /\ Exists(r)' /\ idempotencyKey'[r] = KeyOf[c]
      /\ \A q \in Reports \ {r} : Exists(q)' = Exists(q) /\ idempotencyKey'[q] = idempotencyKey[q]
  BY <1>3 DEF ApiInv, Types, Exists
<1>5. Types'
  <2>1. classification' \in [Reports -> Rows]
    BY DEF CreateReport, ApiInv, Types
  <2> QED BY <1>1, <1>2, <1>3, <2>1 DEF ApiInv, Types, Statuses
<1>6. KeysAreUnique'
  <2>1. \A q \in Reports : Exists(q) /\ idempotencyKey[q] = KeyOf[c] => KeyOf[c] = NoKey
    BY <1>3 DEF ReportsOfKey
  <2> QED BY <1>4, <2>1 DEF ApiInv, KeysAreUnique
<1>7. \A d \in Calls : d \in CreateCalls => call[d].report # r
  BY <1>3, NoReportAssumption DEF ApiInv, CallsHold, Holds
<1>8. CallsHold'
  <2> SUFFICES ASSUME NEW d \in Calls
               PROVE  Holds(d, call[d].at, call[d].report, call[d].code)'
    BY DEF CallsHold
  <2>1. CASE d = c
    BY <1>2, <1>4, <2>1 DEF Holds
  <2>2. CASE d # c
    <3>1. Holds(d, call[d].at, call[d].report, call[d].code) /\ call'[d] = call[d]
      BY <1>2, <2>2 DEF ApiInv, CallsHold
    <3>2. call[d].report \in Reports \cup {NoReport}
      BY DEF ApiInv, Types, CallStates
    <3>3. d \in CreateCalls => call[d].report # r
      BY <1>7
    <3>4. \A q \in Reports : Exists(q) => Exists(q)'
      BY <1>4
    <3> QED BY <1>4, <3>1, <3>2, <3>3, <3>4 DEF Holds
  <2> QED BY <2>1, <2>2
<1>9. KeylessOwn'
  BY <1>2, <1>7 DEF ApiInv, KeylessOwn, Calls
<1>10. Answered' = Answered
  <2>1. call[c].code = 0
    BY <1>1 DEF ApiInv, CallsHold, Holds
  <2> QED BY <1>2, <2>1 DEF Answered, Accepted, Calls
<1>11. Made' = Made \cup {r} /\ r \notin Made
  BY <1>3, <1>4 DEF Made
<1>12. ASSUME NEW k \in Keys, k # KeyOf[c] PROVE ReportWithKey(k)' = ReportWithKey(k)
  <2>1. ReportsOfKey(k)' = ReportsOfKey(k)
    BY <1>3, <1>4, <1>12 DEF ReportsOfKey
  <2> QED BY <2>1 DEF ReportWithKey
<1>13. KeyedReport' = [k \in Keys |-> ReportWithKey(k)']
  BY DEF KeyedReport
<1>14. CASE KeyOf[c] = NoKey
  <2>1. KeyedReport' = KeyedReport
    BY <1>12, <1>13, <1>14, NoKeyAssumption DEF KeyedReport
  <2>2. Promise!MakeKeyless(r)
    BY <1>10, <1>11, <2>1 DEF Promise!MakeKeyless
  <2> QED BY <1>5, <1>6, <1>8, <1>9, <2>2 DEF PromiseStep, ApiInv, Promise!Next
<1>15. CASE KeyOf[c] # NoKey
  <2>1. KeyOf[c] \in Keys
    BY <1>1, <1>15
  <2>2. KeyedReport[KeyOf[c]] = NoReport
    BY <1>3, <2>1 DEF KeyedReport, ReportWithKey
  <2>3. ReportsOfKey(KeyOf[c])' = {r}
    <3>1. \A q \in Reports : ~(Exists(q) /\ idempotencyKey[q] = KeyOf[c])
      BY <1>3, <1>15 DEF ReportsOfKey
    <3> QED BY <1>4, <1>15, <3>1 DEF ReportsOfKey
  <2>4. ReportWithKey(KeyOf[c])' = r
    BY <2>3 DEF ReportWithKey
  <2>5. KeyedReport' = [KeyedReport EXCEPT ![KeyOf[c]] = r]
    BY <1>12, <1>13, <2>1, <2>4 DEF KeyedReport
  <2>6. Promise!MakeKeyed(r, KeyOf[c])
    BY <1>10, <1>11, <2>2, <2>5 DEF Promise!MakeKeyed
  <2> QED BY <1>5, <1>6, <1>8, <1>9, <2>1, <2>6 DEF PromiseStep, ApiInv, Promise!Next
<1> QED BY <1>14, <1>15

LEMMA InsertStep == ASSUME ApiInv, NEW c \in CreateCalls, InsertReport(c) PROVE PromiseStep
<1>1. call[c].at = "insert"
  BY DEF InsertReport
<1>2. PICK r \in Reports :
        \/ CreateReport(r, KeyOf[c]) /\ GoWith(c, "start", r, "queued")
        \/ /\ InsertConflicts(r, KeyOf[c])
           /\ \/ KeyOf[c] = NoKey /\ Answer(c, 500, NoReport, "none")
              \/ KeyOf[c] # NoKey /\ Go(c, "relookup")
           /\ UNCHANGED storeVars
  BY DEF InsertReport
<1> QED BY <1>1, <1>2, InsertedStep, ConflictStep

\* What a request at one of these points holds.
LEMMA InHand ==
  ASSUME ApiInv, NEW c \in Calls, call[c].at \in {"reset", "start", "reload", "mark", "rows"}
  PROVE  /\ call[c].report \in Reports /\ Exists(call[c].report)
         /\ call[c].report # NoReport
         /\ call[c].seen \in Statuses \cup {"none"}
         /\ c \in CreateCalls => idempotencyKey[call[c].report] = KeyOf[c]
BY NoReportAssumption DEF ApiInv, CallsHold, Holds, Types, CallStates

LEMMA ReprocessSteps ==
  ASSUME ApiInv, NEW c \in ReprocessCalls, LoadReport(c) \/ ResetStatus(c) PROVE PromiseStep
<1>1. c \in Calls /\ c \notin CreateCalls
  BY CallsAssumption DEF Calls
<1>2. CASE LoadReport(c)
  <2>1. StoreKept /\ call[c].at # "answered"
    BY <1>2, KeptWhenUnchanged DEF ApiInv, LoadReport
  <2>2. PICK r \in Reports : \/ Answer(c, 404, NoReport, "none")
                             \/ Exists(r) /\ GoWith(c, "reset", r, status[r])
    BY <1>2 DEF LoadReport
  <2>3. CASE Answer(c, 404, NoReport, "none")
    BY <1>1, <2>1, <2>3, QuietStep DEF Answer, Holds, Points, Rows, Codes
  <2>4. CASE Exists(r) /\ GoWith(c, "reset", r, status[r])
    <3>1. status[r] \in Statuses
      BY <2>4 DEF ApiInv, Types, Exists
    <3> QED BY <1>1, <2>1, <2>4, <3>1, QuietStep DEF GoWith, Holds, Points, Rows, Codes
  <2> QED BY <2>2, <2>3, <2>4
<1>3. CASE ResetStatus(c)
  <2>1. call[c].report \in Reports /\ Exists(call[c].report) /\ call[c].at # "answered"
    BY <1>1, <1>3, InHand DEF ResetStatus
  <2>2. StoreKept
    BY <1>3, <2>1, KeptByUpdate DEF ApiInv, ResetStatus, Statuses
  <2>3. GoWith(c, "start", call[c].report, "queued")
    BY <1>3 DEF ResetStatus
  <2> QED BY <1>1, <2>1, <2>2, <2>3, QuietStep DEF GoWith, Holds, Points, Rows, Codes, Statuses
<1> QED BY <1>2, <1>3

LEMMA StartSteps == ASSUME ApiInv, NEW c \in Calls, StartStep(c) PROVE PromiseStep
<1>1. call[c].at \in {"start", "reload", "mark"}
  BY DEF StartStep, StartWorkflow, StartFails, ReloadReport, MarkStartFailed
<1>2. /\ call[c].report \in Reports /\ Exists(call[c].report)
      /\ call[c].report # NoReport
      /\ call[c].seen \in Statuses \cup {"none"}
      /\ c \in CreateCalls => idempotencyKey[call[c].report] = KeyOf[c]
  BY <1>1, InHand
<1>3. CASE StartWorkflow(c)
  <2>1. StoreKept /\ Answer(c, 202, call[c].report, "queued")
    BY <1>3, KeptWhenUnchanged DEF ApiInv, StartWorkflow
  <2>2. CASE c \in CreateCalls
    BY <1>1, <1>2, <2>1, <2>2, AcceptedStep DEF Statuses
  <2>3. CASE c \notin CreateCalls
    BY <1>1, <1>2, <2>1, <2>3, QuietStep DEF Answer, Holds, Points, Rows, Codes, Statuses
  <2> QED BY <2>2, <2>3
<1>4. CASE StartFails(c)
  <2>1. StoreKept
    BY <1>4, KeptWhenUnchanged DEF ApiInv, StartFails
  <2>2. PICK p \in {"reload", "mark"} : GoWith(c, p, call[c].report, call[c].seen)
    BY <1>4 DEF StartFails, AfterStartFailure, Go
  <2> QED BY <1>1, <1>2, <2>1, <2>2, QuietStep DEF GoWith, Holds, Points, Rows, Codes
<1>5. CASE ReloadReport(c)
  <2>1. StoreKept /\ GoWith(c, "mark", call[c].report, status[call[c].report])
    BY <1>5, KeptWhenUnchanged DEF ApiInv, ReloadReport
  <2>2. status[call[c].report] \in Statuses
    BY <1>2 DEF ApiInv, Types, Exists
  <2> QED BY <1>1, <1>2, <2>1, <2>2, QuietStep DEF GoWith, Holds, Points, Rows, Codes
<1>6. CASE MarkStartFailed(c)
  <2>1. StoreKept
    BY <1>2, <1>6, KeptWhenUnchanged, KeptByUpdate DEF ApiInv, MarkStartFailed, Statuses
  <2>2. Answer(c, 503, call[c].report, "workflow_start_failed")
    BY <1>6 DEF MarkStartFailed
  <2> QED BY <1>1, <1>2, <2>1, <2>2, QuietStep DEF Answer, Holds, Points, Rows, Codes, Statuses
<1> QED BY <1>3, <1>4, <1>5, <1>6 DEF StartStep

LEMMA GetSteps == ASSUME ApiInv, NEW c \in GetCalls, GetStep(c) PROVE PromiseStep
<1>1. c \in Calls /\ c \notin CreateCalls
  BY CallsAssumption DEF Calls
<1>2. CASE GetStatus(c)
  <2>1. StoreKept /\ call[c].at # "answered"
    BY <1>2, KeptWhenUnchanged DEF ApiInv, GetStatus
  <2>2. PICK r \in Reports : \/ Answer(c, 404, NoReport, "none")
                             \/ Exists(r) /\ GoWith(c, "rows", r, status[r])
    BY <1>2 DEF GetStatus
  <2>3. CASE Answer(c, 404, NoReport, "none")
    BY <1>1, <2>1, <2>3, QuietStep DEF Answer, Holds, Points, Rows, Codes
  <2>4. CASE Exists(r) /\ GoWith(c, "rows", r, status[r])
    <3>1. status[r] \in Statuses
      BY <2>4 DEF ApiInv, Types, Exists
    <3> QED BY <1>1, <2>1, <2>4, <3>1, QuietStep DEF GoWith, Holds, Points, Rows, Codes
  <2> QED BY <2>2, <2>3, <2>4
<1>3. CASE GetRows(c)
  <2>1. StoreKept /\ call[c].at = "rows"
    BY <1>3, KeptWhenUnchanged DEF ApiInv, GetRows
  <2>2. PICK rows \in Rows :
          Become(c, "answered", call[c].report, call[c].seen, rows, 200)
    BY <1>1, <1>3, <2>1, InHand DEF GetRows, ApiInv, Types
  <2> QED BY <1>1, <2>1, <2>2, InHand, QuietStep DEF Holds, Points, Codes
<1> QED BY <1>2, <1>3 DEF GetStep

LEMMA AbortStep == ASSUME ApiInv, NEW c \in Calls, Abort(c) PROVE PromiseStep
<1>1. StoreKept /\ call[c].at # "answered"
  BY KeptWhenUnchanged DEF ApiInv, Abort, InProgress
<1>2. PICK r \in {NoReport, call[c].report} : GoWith(c, "aborted", r, "none")
  BY DEF Abort
<1>3. r \in Reports \cup {NoReport} /\ Holds(c, "aborted", r, 0)
  BY DEF ApiInv, Types, CallStates, CallsHold, Holds
<1> QED BY <1>1, <1>2, <1>3, QuietStep DEF GoWith, Points, Rows, Codes

\* A step of somebody else, between reports and keys that stay.
LEMMA OthersStep == ASSUME ApiInv, StoreKept, call' = call PROVE PromiseStep
<1>1. ApiInv'
  BY DEF ApiInv, Types, KeysAreUnique, CallsHold, Holds, KeylessOwn, StoreKept, CallStates
<1>2. UNCHANGED Promise!vars
  BY Stutters DEF Accepted
<1> QED BY <1>1, <1>2 DEF PromiseStep

LEMMA ApiNextStep == ASSUME ApiInv, [ApiNext]_apiVars PROVE PromiseStep
<1>1. ASSUME NEW c \in CreateCalls, CreateStep(c) PROVE PromiseStep
  BY <1>1, CreateSteps, InsertStep DEF CreateStep
<1>2. ASSUME NEW c \in ReprocessCalls, ReprocessStep(c) PROVE PromiseStep
  BY <1>2, ReprocessSteps DEF ReprocessStep
<1>3. ASSUME NEW c \in GetCalls, GetStep(c) PROVE PromiseStep
  BY <1>3, GetSteps
<1>4. ASSUME NEW c \in Calls, StartStep(c) \/ Abort(c) PROVE PromiseStep
  BY <1>4, StartSteps, AbortStep
<1>5. CASE UNCHANGED apiVars
  <2>1. StoreKept /\ call' = call
    BY <1>5, KeptWhenUnchanged DEF ApiInv, apiVars
  <2> QED BY <2>1, OthersStep
<1> QED BY <1>1, <1>2, <1>3, <1>4, <1>5 DEF ApiNext

\* The inductive invariant of the handlers.
THEOREM ApiInvariance == ApiSpec => []ApiInv
<1>1. HandlersInit => ApiInv
  BY ApiInitInv
<1>2. ApiInv /\ [ApiNext]_apiVars => ApiInv'
  BY ApiNextStep DEF PromiseStep
<1> QED BY <1>1, <1>2, PTL DEF ApiSpec

LEMMA AnswersAgree == ApiInv => KeyedAnswersAgree
<1> SUFFICES ASSUME ApiInv, NEW c \in CreateCalls, NEW d \in CreateCalls, Accepted(c), Accepted(d)
             PROVE  /\ Exists(call[c].report)
                    /\ idempotencyKey[call[c].report] = KeyOf[c]
                    /\ (call[c].report = call[d].report)
                          <=> (c = d \/ (KeyOf[c] = KeyOf[d] /\ KeyOf[c] # NoKey))
  BY DEF KeyedAnswersAgree
<1>1. \A e \in {c, d} : /\ call[e].report \in Reports
                        /\ call[e].report # NoReport /\ Exists(call[e].report)
                        /\ idempotencyKey[call[e].report] = KeyOf[e]
  BY DEF ApiInv, Types, CallStates, CallsHold, Holds, Accepted, Calls
<1> QED BY <1>1 DEF ApiInv, KeysAreUnique, KeylessOwn

\* Accepted create calls name the same report exactly when they carry the same
\* key, for any number of racing calls (create_report of api/reports.py).
THEOREM KeyedAnswers == ApiSpec => []KeyedAnswersAgree
  BY AnswersAgree, ApiInvariance, PTL

LEMMA PromiseInit == ASSUME HandlersInit PROVE Promise!Init
<1>1. \A r \in Reports : ~Exists(r)
  BY DEF HandlersInit, StoreInit, Exists
<1>2. Made = {} /\ \A k \in Keys : ReportWithKey(k) = NoReport
  BY <1>1 DEF Made, ReportWithKey, ReportsOfKey
<1>3. \A c \in CreateCalls : ~Accepted(c)
  BY DEF HandlersInit, ApiInit, Arrived, Accepted, Calls
<1> QED BY <1>2, <1>3 DEF Promise!Init, KeyedReport, Answered

\* The handlers implement the promise of the Idempotency-Key.
THEOREM PromiseKept == ApiSpec => KeyedCreates
<1>1. HandlersInit => Promise!Init
  BY PromiseInit
<1>2. ApiInv /\ [ApiNext]_apiVars => [Promise!Next]_(Promise!vars)
  BY ApiNextStep DEF PromiseStep
<1> QED BY <1>1, <1>2, ApiInvariance, PTL DEF ApiSpec, KeyedCreates, Promise!Spec
-----------------------------------------------------------------------------
(* The runs of a report.  A reprocess call that is past its start owes it  *)
(* at most one run.  The create call that made the report owes it one too, *)
(* but not before it is past its own start: this is what the bound of      *)
(* RunsAreAccountedFor leaves out, and what makes the count inductive.     *)

Owed(r) ==
  {c \in ReprocessCalls : call[c].report = r /\ call[c].at # "reset" /\ call[c].at # "start"}

Starting(r) == \E c \in CreateCalls : call[c].report = r /\ call[c].at = "start"

CreateOwes(r) == IF ~Exists(r) \/ Starting(r) THEN 0 ELSE 1

RunsOwed(r) ==
  /\ IsFiniteSet(Owed(r))
  /\ run[r].number \in Nat
  /\ run[r].number <= Cardinality(Owed(r)) + CreateOwes(r)

\* Which requests can be where; one create call at most starts the run of a report.
StartsInv ==
  /\ \A c \in Calls :
       /\ call[c].at \in {"insert", "relookup"} => c \in CreateCalls
       /\ call[c].at = "start" => c \in CreateCalls \cup ReprocessCalls
       /\ call[c].at = "arrived" => call[c].report = NoReport
  /\ \A c, d \in CreateCalls :
       call[c].at = "start" /\ call[d].at = "start" /\ call[c].report = call[d].report => c = d

CountInv == /\ run = [r \in Reports |-> run[r]]
            /\ StartsInv
            /\ \A r \in Reports : RunsOwed(r)

\* A request past its first access to the store is about a report that is there.
AboutReports ==
  /\ call \in [Calls -> CallStates]
  /\ \A c \in Calls :
       call[c].at \in {"reset", "start", "reload", "mark", "rows"} =>
         call[c].report \in Reports /\ Exists(call[c].report)

\* How request c moves: it enters start from insert with a report that was not
\* there, or from reset with the one it has; it starts a run only from start.
CallMoves(c) ==
  /\ \A d \in Calls \ {c} : call'[d] = call[d]
  /\ call'[c].at # "arrived"
  /\ call'[c].at \in {"insert", "relookup"} => c \in CreateCalls
  /\ call'[c].at = "reset" => call[c].at = "arrived"
  /\ call'[c].at = "start" =>
       \/ c \in CreateCalls /\ call[c].at = "insert" /\ ~Exists(call'[c].report)
       \/ c \in ReprocessCalls /\ call[c].at = "reset"
  /\ call[c].at \notin {"arrived", "insert", "relookup", "reset"} => call'[c].report = call[c].report
  /\ \A r \in Reports : Exists(r) => Exists(r)'
  /\ run' = run \/ (call[c].at = "start" /\ StartRun(call[c].report, "load"))

LEMMA StartsStep ==
  ASSUME AboutReports, StartsInv, NEW c \in Calls, CallMoves(c)
  PROVE  StartsInv'
<1>1. ASSUME NEW d \in Calls
      PROVE  /\ call'[d].at \in {"insert", "relookup"} => d \in CreateCalls
             /\ call'[d].at = "start" => d \in CreateCalls \cup ReprocessCalls
             /\ call'[d].at = "arrived" => call'[d].report = NoReport
  BY DEF StartsInv, CallMoves
<1>2. ASSUME NEW d \in CreateCalls, NEW e \in CreateCalls, d # e,
             call'[d].at = "start", call'[e].at = "start", call'[d].report = call'[e].report
      PROVE  FALSE
  <2>1. d \in Calls /\ e \in Calls /\ d \notin ReprocessCalls /\ e \notin ReprocessCalls
    BY CallsAssumption DEF Calls
  <2>2. CASE d # c /\ e # c
    BY <1>2, <2>1, <2>2 DEF StartsInv, CallMoves
  <2>3. CASE d = c
    <3>1. ~Exists(call'[d].report) /\ call'[e] = call[e]
      BY <1>2, <2>1, <2>3 DEF CallMoves
    <3> QED  BY <1>2, <2>1, <3>1 DEF AboutReports
  <2>4. CASE e = c
    <3>1. ~Exists(call'[e].report) /\ call'[d] = call[d]
      BY <1>2, <2>1, <2>4 DEF CallMoves
    <3> QED  BY <1>2, <2>1, <3>1 DEF AboutReports
  <2> QED  BY <2>2, <2>3, <2>4
<1> QED  BY <1>1, <1>2 DEF StartsInv

\* What is owed to a report is never taken back.
LEMMA OwedGrows ==
  ASSUME StartsInv, NEW c \in Calls, CallMoves(c), NEW r \in Reports
  PROVE  /\ Owed(r) \subseteq Owed(r)'
         /\ Owed(r)' \subseteq Owed(r) \cup {c}
         /\ CreateOwes(r) <= CreateOwes(r)'
<1>1. Owed(r) \subseteq Owed(r)'
  <2> SUFFICES ASSUME NEW d \in Owed(r) PROVE d \in Owed(r)'
    OBVIOUS
  <2>1. /\ d \in ReprocessCalls /\ d \in Calls /\ call[d].report = r
        /\ call[d].at # "reset" /\ call[d].at # "start"
    BY DEF Owed, Calls
  <2>2. CASE d = c
    <3>1. call[c].at # "arrived"
      BY <2>1, <2>2, NoReportAssumption DEF StartsInv
    <3>2. c \notin CreateCalls /\ call[c].at \notin {"insert", "relookup"}
      BY <2>1, <2>2, CallsAssumption DEF StartsInv
    <3>3. call'[c].report = r /\ call'[c].at # "reset" /\ call'[c].at # "start"
      BY <2>1, <2>2, <3>1, <3>2 DEF CallMoves
    <3> QED  BY <2>1, <2>2, <3>3 DEF Owed
  <2>3. CASE d # c
    BY <2>1, <2>3 DEF CallMoves, Owed
  <2> QED  BY <2>2, <2>3
<1>2. Owed(r)' \subseteq Owed(r) \cup {c}
  BY DEF Owed, CallMoves, Calls
<1>3. ASSUME ~Exists(r)' \/ Starting(r)'  PROVE ~Exists(r) \/ Starting(r)
  <2>1. CASE ~Exists(r)'
    BY <2>1 DEF CallMoves
  <2>2. ASSUME NEW d \in CreateCalls, call'[d].report = r, call'[d].at = "start"
        PROVE  ~Exists(r) \/ Starting(r)
    <3>1. d \in Calls /\ d \notin ReprocessCalls
      BY CallsAssumption DEF Calls
    <3> QED  BY <2>2, <3>1 DEF CallMoves, Starting
  <2> QED  BY <1>3, <2>1, <2>2 DEF Starting
<1>4. CreateOwes(r) <= CreateOwes(r)'
  BY <1>3 DEF CreateOwes
<1> QED  BY <1>1, <1>2, <1>4

LEMMA RunStarts ==
  ASSUME run = [r \in Reports |-> run[r]], NEW q \in Reports, StartRun(q, "load")
  PROVE  /\ run' = [r \in Reports |-> run'[r]]
         /\ run'[q].number = run[q].number + 1
         /\ \A r \in Reports \ {q} : run'[r] = run[r]
  BY DEF StartRun, NoRun

LEMMA CountStep ==
  ASSUME AboutReports, CountInv, NEW c \in Calls, CallMoves(c)
  PROVE  CountInv'
<1>1. StartsInv'
  BY StartsStep DEF CountInv
<1>2. ASSUME NEW r \in Reports
      PROVE  /\ IsFiniteSet(Owed(r)) /\ IsFiniteSet(Owed(r)')
             /\ Cardinality(Owed(r)) \in Nat /\ Cardinality(Owed(r)') \in Nat
             /\ Cardinality(Owed(r)) <= Cardinality(Owed(r)')
             /\ CreateOwes(r) \in Nat /\ CreateOwes(r)' \in Nat
             /\ CreateOwes(r) <= CreateOwes(r)'
             /\ run[r].number \in Nat
             /\ run[r].number <= Cardinality(Owed(r)) + CreateOwes(r)
  <2>1. /\ IsFiniteSet(Owed(r)) /\ run[r].number \in Nat
        /\ run[r].number <= Cardinality(Owed(r)) + CreateOwes(r)
    BY DEF CountInv, RunsOwed
  <2>2. /\ Owed(r) \subseteq Owed(r)'
        /\ Owed(r)' \subseteq Owed(r) \cup {c}
        /\ CreateOwes(r) <= CreateOwes(r)'
    BY OwedGrows DEF CountInv
  <2>3. IsFiniteSet(Owed(r)')
    <3>1. IsFiniteSet(Owed(r) \cup {c})
      BY <2>1, FS_AddElement
    <3> QED  BY <2>2, <3>1, FS_Subset
  <2>4. Cardinality(Owed(r)) <= Cardinality(Owed(r)')
    BY <2>2, <2>3, FS_Subset
  <2>5. Cardinality(Owed(r)) \in Nat /\ Cardinality(Owed(r)') \in Nat
    BY <2>1, <2>3, FS_CardinalityType
  <2>6. CreateOwes(r) \in Nat /\ CreateOwes(r)' \in Nat
    BY DEF CreateOwes
  <2> QED  BY <2>1, <2>2, <2>3, <2>4, <2>5, <2>6
<1>3. CASE run' = run
  <2>1. ASSUME NEW r \in Reports  PROVE RunsOwed(r)'
    BY <1>2, <1>3 DEF RunsOwed
  <2> QED  BY <1>1, <1>3, <2>1 DEF CountInv
<1>4. CASE call[c].at = "start" /\ StartRun(call[c].report, "load")
  <2> PICK q : q = call[c].report
    OBVIOUS
  <2>1. q \in Reports /\ Exists(q)
    BY <1>4 DEF AboutReports
  <2>2. /\ run' = [r \in Reports |-> run'[r]]
        /\ run'[q].number = run[q].number + 1
        /\ \A r \in Reports \ {q} : run'[r] = run[r]
    BY <1>4, <2>1, RunStarts DEF CountInv
  <2>3. ASSUME NEW r \in Reports, r # q  PROVE RunsOwed(r)'
    BY <1>2, <2>2, <2>3 DEF RunsOwed
  <2>4. call'[c].at \notin {"reset", "start"} /\ call'[c].report = q
    BY <1>4 DEF CallMoves
  <2>5. Cardinality(Owed(q)) + CreateOwes(q) + 1 <= Cardinality(Owed(q)') + CreateOwes(q)'
    <3>1. CASE c \in ReprocessCalls
      <4>1. c \notin Owed(q) /\ c \in Owed(q)'
        BY <1>4, <2>4, <3>1 DEF Owed
      <4>2. Owed(q)' = Owed(q) \cup {c}
        BY <2>1, <4>1, OwedGrows DEF CountInv
      <4>3. Cardinality(Owed(q)') = Cardinality(Owed(q)) + 1
        BY <1>2, <2>1, <4>1, <4>2, FS_AddElement, Zenon
      <4> QED  BY <1>2, <2>1, <4>3
    <3>2. CASE c \in CreateCalls
      <4>1. CreateOwes(q) = 0
        BY <1>4, <3>2 DEF CreateOwes, Starting
      <4>2. ~Starting(q)'
        <5> SUFFICES ASSUME NEW d \in CreateCalls, call'[d].report = q, call'[d].at = "start"
                     PROVE  FALSE
          BY DEF Starting
        <5>1. d \in Calls /\ d # c
          BY <2>4 DEF Calls
        <5>2. call[d].report = q /\ call[d].at = "start"
          BY <5>1 DEF CallMoves
        <5> QED  BY <1>4, <3>2, <5>1, <5>2 DEF CountInv, StartsInv
      <4>3. Exists(q)'
        BY <2>1 DEF CallMoves
      <4>4. CreateOwes(q)' = 1
        BY <4>2, <4>3 DEF CreateOwes
      <4> QED  BY <1>2, <2>1, <4>1, <4>4
    <3> QED  BY <1>4, <3>1, <3>2 DEF CountInv, StartsInv
  <2>6. RunsOwed(q)'
    BY <1>2, <2>1, <2>2, <2>5 DEF RunsOwed
  <2> QED  BY <1>1, <2>2, <2>3, <2>6 DEF CountInv
<1> QED  BY <1>3, <1>4 DEF CallMoves

\* No action of a handler removes a report.
LEMMA ReportsStay ==
  ASSUME status \in [Reports -> Statuses \cup {"absent"}],
         \/ UNCHANGED storeVars
         \/ \E r \in Reports, seen \in Statuses \cup {"none"}, new \in Statuses :
              UpdateStatus(r, seen, new)
         \/ \E r \in Reports, k \in Keys \cup {NoKey} : CreateReport(r, k)
  PROVE  \A r \in Reports : Exists(r) => Exists(r)'
<1>1. "absent" \notin Statuses /\ "queued" \in Statuses
  BY DEF Statuses
<1>2. CASE UNCHANGED storeVars
  BY <1>2 DEF storeVars, Exists
<1>3. ASSUME NEW r \in Reports, NEW seen, NEW new \in Statuses, UpdateStatus(r, seen, new)
      PROVE  \A q \in Reports : Exists(q) => Exists(q)'
  BY <1>1, <1>3 DEF UpdateStatus, OrmWrite, Exists
<1>4. ASSUME NEW r \in Reports, NEW k, CreateReport(r, k)
      PROVE  \A q \in Reports : Exists(q) => Exists(q)'
  BY <1>1, <1>4 DEF CreateReport, Exists
<1> QED  BY <1>2, <1>3, <1>4

LEMMA ApiMoves ==
  ASSUME AboutReports, StartsInv, status \in [Reports -> Statuses \cup {"absent"}], ApiNext
  PROVE  \E c \in Calls : CallMoves(c)
<1>1. /\ CreateCalls \subseteq Calls /\ ReprocessCalls \subseteq Calls /\ GetCalls \subseteq Calls
      /\ \A c \in Calls : call[c].seen \in Statuses \cup {"none"}
      /\ call \in [Calls -> CallStates]
      /\ "queued" \in Statuses /\ "workflow_start_failed" \in Statuses
  BY DEF AboutReports, CallStates, Calls, Statuses
<1>2. UNCHANGED temporalVars => run' = run
  BY DEF temporalVars
<1>3. UNCHANGED storeVars => \A r \in Reports : Exists(r) => Exists(r)'
  BY ReportsStay
<1>4. ASSUME NEW c \in CreateCalls, CreateStep(c)  PROVE CallMoves(c)
  <2>1. CASE LookupKey(c) \/ LookupAgain(c)
    <3>1. /\ call'[c].at \in {"answered", "insert"}
          /\ \A d \in Calls \ {c} : call'[d] = call[d]
      BY <1>1, <2>1, BecomeEffect DEF LookupKey, LookupAgain, Answer, Go, GoWith
    <3> QED  BY <1>2, <1>3, <2>1, <3>1 DEF LookupKey, LookupAgain, CallMoves
  <2>2. CASE InsertReport(c)
    <3>1. PICK r \in Reports :
            \/ CreateReport(r, KeyOf[c]) /\ GoWith(c, "start", r, "queued")
            \/ (Answer(c, 500, NoReport, "none") \/ Go(c, "relookup")) /\ UNCHANGED storeVars
      BY <2>2 DEF InsertReport
    <3>2. CASE CreateReport(r, KeyOf[c]) /\ GoWith(c, "start", r, "queued")
      <4>1. /\ call'[c].at = "start" /\ call'[c].report = r
            /\ \A d \in Calls \ {c} : call'[d] = call[d]
        BY <1>1, <3>2, BecomeEffect DEF GoWith
      <4>2. ~Exists(r)
        BY <3>2 DEF CreateReport, InsertConflicts
      <4>3. \A q \in Reports : Exists(q) => Exists(q)'
        BY <3>2, KeyOfAssumption, ReportsStay
      <4> QED  BY <1>2, <2>2, <4>1, <4>2, <4>3 DEF InsertReport, CallMoves
    <3>3. CASE (Answer(c, 500, NoReport, "none") \/ Go(c, "relookup")) /\ UNCHANGED storeVars
      <4>1. /\ call'[c].at \in {"answered", "relookup"}
            /\ \A d \in Calls \ {c} : call'[d] = call[d]
        BY <1>1, <3>3, BecomeEffect DEF Answer, Go, GoWith
      <4> QED  BY <1>2, <1>3, <2>2, <3>3, <4>1 DEF InsertReport, CallMoves
    <3> QED  BY <3>1, <3>2, <3>3
  <2> QED  BY <1>4, <2>1, <2>2 DEF CreateStep
<1>5. ASSUME NEW c \in ReprocessCalls, ReprocessStep(c)  PROVE CallMoves(c)
  <2>1. CASE LoadReport(c)
    <3>1. /\ call'[c].at \in {"answered", "reset"}
          /\ \A d \in Calls \ {c} : call'[d] = call[d]
      BY <1>1, <2>1, BecomeEffect DEF LoadReport, Answer, GoWith
    <3> QED  BY <1>2, <1>3, <2>1, <3>1 DEF LoadReport, CallMoves
  <2>2. CASE ResetStatus(c)
    <3>1. /\ call'[c].at = "start" /\ call'[c].report = call[c].report
          /\ \A d \in Calls \ {c} : call'[d] = call[d]
      BY <1>1, <2>2, BecomeEffect DEF ResetStatus, GoWith
    <3>2. \A q \in Reports : Exists(q) => Exists(q)'
      BY <1>1, <2>2, ReportsStay DEF ResetStatus, AboutReports
    <3> QED  BY <1>2, <2>2, <3>1, <3>2 DEF ResetStatus, CallMoves
  <2> QED  BY <1>5, <2>1, <2>2 DEF ReprocessStep
<1>6. ASSUME NEW c \in GetCalls, GetStep(c)  PROVE CallMoves(c)
  <2>1. CASE GetStatus(c)
    <3>1. /\ call'[c].at \in {"answered", "rows"}
          /\ \A d \in Calls \ {c} : call'[d] = call[d]
      BY <1>1, <2>1, BecomeEffect DEF GetStatus, Answer, GoWith
    <3> QED  BY <1>2, <1>3, <2>1, <3>1 DEF GetStatus, CallMoves
  <2>2. CASE GetRows(c)
    <3>1. /\ call'[c].at = "answered" /\ call'[c].report = call[c].report
          /\ \A d \in Calls \ {c} : call'[d] = call[d]
      BY <1>1, <2>2, BecomeEffect DEF GetRows
    <3> QED  BY <1>2, <1>3, <2>2, <3>1 DEF GetRows, CallMoves
  <2> QED  BY <1>6, <2>1, <2>2 DEF GetStep
<1>7. ASSUME NEW c \in Calls, StartWorkflow(c) \/ StartFails(c)  PROVE CallMoves(c)
  <2>1. /\ call'[c].at \in {"answered", "reload", "mark"} /\ call'[c].report = call[c].report
        /\ \A d \in Calls \ {c} : call'[d] = call[d]
    BY <1>1, <1>7, BecomeEffect
       DEF StartWorkflow, StartFails, AfterStartFailure, Answer, Go, GoWith
  <2> QED  BY <1>2, <1>3, <1>7, <2>1 DEF StartWorkflow, StartFails, CallMoves
<1>8. ASSUME NEW c \in Calls, ReloadReport(c) \/ MarkStartFailed(c) \/ Abort(c)
      PROVE  CallMoves(c)
  <2>1. /\ call[c].at # "arrived" /\ run' = run
        /\ call'[c].at \in {"mark", "answered", "aborted"}
        /\ call[c].at # "reset" => call'[c].report = call[c].report
        /\ \A d \in Calls \ {c} : call'[d] = call[d]
    BY <1>1, <1>2, <1>8, BecomeEffect
       DEF ReloadReport, MarkStartFailed, Abort, InProgress, Answer, GoWith
  <2>2. \A q \in Reports : Exists(q) => Exists(q)'
    BY <1>1, <1>8, ReportsStay DEF ReloadReport, MarkStartFailed, Abort, AboutReports
  <2> QED  BY <2>1, <2>2 DEF CallMoves
<1> QED  BY <1>1, <1>4, <1>5, <1>6, <1>7, <1>8 DEF ApiNext, StartStep

\* A step of somebody else: no request moves, no run starts, no report goes.
LEMMA OthersCount ==
  ASSUME CountInv, call' = call, run' = [r \in Reports |-> run'[r]],
         \A r \in Reports : run'[r].number = run[r].number,
         \A r \in Reports : Exists(r) => Exists(r)'
  PROVE  CountInv'
<1>1. StartsInv'
  BY DEF CountInv, StartsInv
<1>2. ASSUME NEW r \in Reports  PROVE RunsOwed(r)'
  <2>1. Owed(r)' = Owed(r) /\ (Starting(r)' <=> Starting(r))
    BY DEF Owed, Starting
  <2>2. CreateOwes(r) \in {0, 1} /\ CreateOwes(r)' \in {0, 1} /\ CreateOwes(r) <= CreateOwes(r)'
    BY <2>1 DEF CreateOwes
  <2>3. IsFiniteSet(Owed(r)) /\ run[r].number \in Nat
        /\ run[r].number <= Cardinality(Owed(r)) + CreateOwes(r)
    BY DEF CountInv, RunsOwed
  <2>4. Cardinality(Owed(r)) \in Nat
    BY <2>3, FS_CardinalityType
  <2> QED  BY <2>1, <2>2, <2>3, <2>4 DEF RunsOwed
<1> QED  BY <1>1, <1>2 DEF CountInv

LEMMA CountInit ==
  ASSUME StoreInit, TemporalInit, ApiInit
  PROVE  CountInv
<1>1. run = [r \in Reports |-> run[r]] /\ \A r \in Reports : run[r].number = 0
  BY DEF TemporalInit, NoRun
<1>2. \A c \in Calls : call[c].at = "arrived" /\ call[c].report = NoReport
  BY DEF ApiInit, Arrived
<1>3. StartsInv
  BY <1>2 DEF StartsInv, Calls
<1>4. ASSUME NEW r \in Reports  PROVE RunsOwed(r)
  <2>1. Owed(r) = {}
    BY <1>2, NoReportAssumption DEF Owed, Calls
  <2>2. CreateOwes(r) = 0
    BY DEF CreateOwes, StoreInit, Exists
  <2> QED  BY <1>1, <2>1, <2>2, FS_EmptySet DEF RunsOwed
<1> QED  BY <1>1, <1>3, <1>4 DEF CountInv

LEMMA CountImplies == CountInv => RunsAreAccountedFor
<1> SUFFICES ASSUME CountInv, NEW r \in Reports
             PROVE  run[r].number <= 1 + Cardinality(Owed(r))
  BY DEF RunsAreAccountedFor, Owed
<1>1. IsFiniteSet(Owed(r)) /\ run[r].number \in Nat
      /\ run[r].number <= Cardinality(Owed(r)) + CreateOwes(r)
  BY DEF CountInv, RunsOwed
<1>2. Cardinality(Owed(r)) \in Nat
  BY <1>1, FS_CardinalityType
<1>3. CreateOwes(r) \in {0, 1}
  BY DEF CreateOwes
<1> QED  BY <1>1, <1>2, <1>3

\* However many create calls race on a key, retry, collide on an id, fail to start
\* or lose the answer of start_workflow, one of them at most starts a run of the
\* report; every further run is owed to a reprocess call of its own that reset the
\* report.  For any number of calls, keys and report ids.
THEOREM RunsAccounted == ApiSpec => []RunsAreAccountedFor
<1>1. HandlersInit => CountInv
  BY CountInit DEF HandlersInit
<1>2. ApiInv /\ CountInv /\ [ApiNext]_apiVars => CountInv'
  <2> SUFFICES ASSUME ApiInv, CountInv, [ApiNext]_apiVars PROVE CountInv'
    OBVIOUS
  <2>1. AboutReports /\ status \in [Reports -> Statuses \cup {"absent"}]
    BY DEF ApiInv, Types, CallsHold, Holds, AboutReports
  <2>2. CASE ApiNext
    BY <2>1, <2>2, ApiMoves, CountStep DEF CountInv
  <2>3. CASE UNCHANGED apiVars
    BY <2>3, OthersCount DEF CountInv, apiVars, storeVars, temporalVars, Exists
  <2> QED  BY <2>2, <2>3
<1> QED  BY <1>1, <1>2, CountImplies, ApiInvariance, PTL DEF ApiSpec
=============================================================================
