---------------------------- MODULE QueuePaging ----------------------------
(***************************************************************************)
(* One review queue (the rows of review_queue_items with one queue_name)   *)
(* and a client that pages through it: route_queue_activity enqueues a     *)
(* report or enqueues it again while GET /queues/{queue_name}/reports      *)
(* follows next_cursor.                                                    *)
(*                                                                         *)
(* A page is a keyset page: the rows below the cursor in the order of      *)
(* (enqueued_at, id), newest first.  An attempt takes the time before it   *)
(* commits, and attempts overlap, so rows do not appear in the order of    *)
(* their stamps, and an item enqueued again may even get an older stamp.   *)
(***************************************************************************)
EXTENDS Naturals, FiniteSets

CONSTANTS Reports,   \* the reports routed to this queue
          Attempts,  \* attempts of route_queue_activity
          Rank,      \* the order of the random ids of their queue items
          NoRow,     \* no cursor
          MaxClock,  \* bound on the clock
          MaxLimit   \* the largest page a client asks for (100 in the code)

ASSUME RankAssumption ==
  /\ Rank \in [Reports -> Nat]
  /\ \A r, q \in Reports : Rank[r] = Rank[q] => r = q
ASSUME NoRowAssumption == NoRow \notin [report : Reports, at : Nat]
ASSUME LimitAssumption == MaxLimit \in Nat \ {0} /\ MaxClock \in Nat

VARIABLES
  clock,
  enqueuedAt,  \* review_queue_items.enqueued_at, 0 where there is no row
  attempt,     \* what each attempt of the activity is about to commit
  reader       \* the client that follows the cursors

vars == <<clock, enqueuedAt, attempt, reader>>

Times == 1..MaxClock
ItemRows == [report : Reports, at : Times]

Table == {[report |-> r, at |-> enqueuedAt[r]] : r \in {q \in Reports : enqueuedAt[q] # 0}}

\* found: the SELECT of upsert_queue_item returned a row; now: the time it took.
AttemptStates ==
  [at : {"idle", "done"}] \cup [at : {"commit"}, report : Reports, found : BOOLEAN, now : Times]

\* limit: the page size; began: the rows there were at the first page; moved: the
\* reports whose items were committed since; page: the page the client looks at;
\* turned: the rows on the pages before it.
ReaderStates ==
  [at : {"idle", "paging", "done"}, limit : 1..MaxLimit, cursor : ItemRows \cup {NoRow}, began : SUBSET ItemRows,
   moved : SUBSET Reports, page : SUBSET ItemRows, turned : SUBSET ItemRows]

TypeOK ==
  /\ clock \in Times
  /\ enqueuedAt \in [Reports -> 0..MaxClock]
  /\ attempt \in [Attempts -> AttemptStates]
  /\ reader \in ReaderStates

Init ==
  /\ clock \in Times
  /\ enqueuedAt \in [Reports -> 0..clock]
  /\ attempt = [a \in Attempts |-> [at |-> "idle"]]
  /\ reader \in {[at |-> "idle", limit |-> n, cursor |-> NoRow, began |-> {}, moved |-> {},
                   page |-> {}, turned |-> {}] : n \in 1..MaxLimit}
-----------------------------------------------------------------------------
Tick == /\ clock < MaxClock
        /\ clock' = clock + 1
        /\ UNCHANGED <<enqueuedAt, attempt, reader>>

\* upsert_queue_item up to its flush.
SelectItem(a, r) ==
  /\ attempt[a].at = "idle"
  /\ attempt' = [attempt EXCEPT ![a] =
       [at |-> "commit", report |-> r, found |-> enqueuedAt[r] # 0, now |-> clock]]
  /\ UNCHANGED <<clock, enqueuedAt, reader>>

\* The commit; an INSERT fails if the report has an item by now.
CommitItem(a) ==
  /\ attempt[a].at = "commit"
  /\ LET r == attempt[a].report
     IN  \/ /\ attempt[a].found \/ enqueuedAt[r] = 0
            /\ enqueuedAt' = [enqueuedAt EXCEPT ![r] = attempt[a].now]
            /\ reader' = [reader EXCEPT !.moved = reader.moved \cup {r}]
         \/ /\ ~attempt[a].found
            /\ enqueuedAt[r] # 0
            /\ UNCHANGED <<enqueuedAt, reader>>
  /\ attempt' = [attempt EXCEPT ![a] = [at |-> "done"]]
  /\ UNCHANGED clock

\* The attempt fails or is cancelled before its commit.
LoseAttempt(a) ==
  /\ attempt[a].at = "commit"
  /\ attempt' = [attempt EXCEPT ![a] = [at |-> "done"]]
  /\ UNCHANGED <<clock, enqueuedAt, reader>>
-----------------------------------------------------------------------------
\* Row comparison of (enqueued_at, id).
Below(x, y) == x.at < y.at \/ (x.at = y.at /\ Rank[x.report] < Rank[y.report])

\* Mutant: the cursor is the time alone.
Mut_CursorOfTime(cursor) == {x \in Table : cursor # NoRow => x.at < cursor.at}

\* Mutant: the row of the cursor is read again.
Mut_InclusiveCursor(cursor) == {x \in Table : cursor # NoRow => x = cursor \/ Below(x, cursor)}

\* The WHERE of list_queue_items.
Matching(cursor) == {x \in Table : cursor # NoRow => Below(x, cursor)}

\* ORDER BY and LIMIT.
IsPage(page, limit, rows) ==
  /\ Cardinality(page) = limit \/ (page = rows /\ Cardinality(rows) < limit)
  /\ \A x \in page, y \in rows \ page : Below(y, x)

\* The client turns to a page read by one SELECT.
TurnTo(at, cursor, page) ==
  reader' = [at |-> at, limit |-> reader.limit, cursor |-> cursor,
             began |-> IF reader.at = "idle" THEN Table ELSE reader.began,
             moved |-> IF reader.at = "idle" THEN {} ELSE reader.moved,
             page |-> page, turned |-> reader.turned \cup reader.page]

\* limit + 1 rows tell whether there is more: the last row of the page is then
\* next_cursor, which the client sends with the limit it keeps.
ReadPage ==
  /\ reader.at # "done"
  /\ LET rows == Matching(reader.cursor)
     IN  \E page \in SUBSET rows :
           /\ IsPage(page, reader.limit, rows)
           /\ \/ page = rows /\ TurnTo("done", NoRow, page)
              \/ /\ page # rows
                 /\ \E last \in page : /\ \A x \in page \ {last} : Below(last, x)
                                       /\ TurnTo("paging", last, page)
  /\ UNCHANGED <<clock, enqueuedAt, attempt>>

Next == \/ Tick
        \/ \E a \in Attempts : (\E r \in Reports : SelectItem(a, r)) \/ CommitItem(a) \/ LoseAttempt(a)
        \/ ReadPage

\* The client follows next_cursor while there is one.
Spec == Init /\ [][Next]_vars /\ WF_vars(ReadPage)
-----------------------------------------------------------------------------
\* An item that stays where it is while a client reads the queue to its end is
\* on some page, whatever is enqueued, or enqueued again, in between and in
\* whatever order it is committed (the keyset of list_queue_items).
NothingStillIsMissed ==
  reader.at = "done" =>
    \A x \in reader.began : x.report \notin reader.moved => x \in reader.turned \cup reader.page

\* A page is strictly below the pages before it: no row is shown twice, and an
\* item that is was moved back by an attempt that committed an older stamp.
PagesDescend ==
  \A x \in reader.turned, y \in reader.page : Below(y, x)

\* A client that follows next_cursor comes to the end, although the queue is
\* refilled while it reads.
ListingEnds == (reader.at = "paging") ~> (reader.at = "done")
=============================================================================
