------------------------- MODULE QueuePagingProofs -------------------------
(***************************************************************************)
(* Keyset pages miss no item that stays where it is, and never go back.    *)
(***************************************************************************)
EXTENDS QueuePaging, TLAPS

\* Before the first page nothing has been shown.
IdleIsBlank ==
  reader.at = "idle" => reader.page = {} /\ reader.turned = {} /\ reader.began = {}

IdleHasNoCursor == reader.at = "idle" => reader.cursor = NoRow

\* The cursor is the last of the rows shown so far.
CursorIsLast ==
  reader.at = "paging" =>
    /\ reader.cursor \in ItemRows
    /\ \A x \in reader.turned \cup reader.page : x = reader.cursor \/ Below(reader.cursor, x)

\* A row of the start whose item was not committed since is still in the table.
StillInTable == \A x \in reader.began : x.report \notin reader.moved => x \in Table

\* What stayed and was not shown yet is below the cursor.
RestIsBelow ==
  reader.at = "paging" =>
    \A x \in reader.began :
      x.report \notin reader.moved => x \in reader.turned \cup reader.page \/ Below(x, reader.cursor)

IInv == /\ TypeOK
        /\ IdleIsBlank
        /\ IdleHasNoCursor
        /\ CursorIsLast
        /\ StillInTable
        /\ RestIsBelow
        /\ NothingStillIsMissed
        /\ PagesDescend
-----------------------------------------------------------------------------
\* The order of the rows is strict and total, and no row is NoRow.
LEMMA BelowIsTransitive ==
  ASSUME NEW x \in ItemRows, NEW y \in ItemRows, NEW z \in ItemRows, Below(x, y), Below(y, z)
  PROVE  Below(x, z)
<1>1. /\ x.report \in Reports /\ y.report \in Reports /\ z.report \in Reports
      /\ x.at \in Nat /\ y.at \in Nat /\ z.at \in Nat
  BY LimitAssumption DEF ItemRows, Times
<1>2. Rank[x.report] \in Nat /\ Rank[y.report] \in Nat /\ Rank[z.report] \in Nat
  BY <1>1, RankAssumption
<1> QED BY <1>1, <1>2 DEF Below

LEMMA RowsAreNotNoRow == NoRow \notin ItemRows
<1>1. ItemRows \subseteq [report : Reports, at : Nat]
  BY LimitAssumption DEF ItemRows, Times
<1> QED BY <1>1, NoRowAssumption

LEMMA TableRows == ASSUME TypeOK PROVE Table \subseteq ItemRows
<1> SUFFICES ASSUME NEW r \in Reports, enqueuedAt[r] # 0
             PROVE  [report |-> r, at |-> enqueuedAt[r]] \in ItemRows
  BY DEF Table
<1>1. enqueuedAt[r] \in 0..MaxClock
  BY DEF TypeOK
<1>2. enqueuedAt[r] \in Times
  BY <1>1, LimitAssumption DEF Times
<1> QED BY <1>2 DEF ItemRows

\* Only the row of the committed item changes in the table.
LEMMA OtherRowsStay ==
  ASSUME TypeOK, NEW r \in Reports, NEW t, NEW x \in Table, x.report # r,
         enqueuedAt' = [enqueuedAt EXCEPT ![r] = t]
  PROVE  x \in Table'
<1>1. PICK q \in Reports : enqueuedAt[q] # 0 /\ x = [report |-> q, at |-> enqueuedAt[q]]
  BY DEF Table
<1>2. q # r /\ enqueuedAt'[q] = enqueuedAt[q]
  BY <1>1 DEF TypeOK
<1> QED BY <1>1, <1>2 DEF Table
-----------------------------------------------------------------------------
LEMMA InitInv == Init => IInv
<1> SUFFICES ASSUME Init PROVE IInv
  OBVIOUS
<1>1. TypeOK
  <2>1. clock \in Times /\ 0..clock \subseteq 0..MaxClock
    BY LimitAssumption DEF Init, Times
  <2>2. enqueuedAt \in [Reports -> 0..MaxClock]
    BY <2>1 DEF Init
  <2>3. attempt \in [Attempts -> AttemptStates]
    BY DEF Init, AttemptStates
  <2>4. reader \in ReaderStates
    BY DEF Init, ReaderStates
  <2> QED BY <2>1, <2>2, <2>3, <2>4 DEF TypeOK
<1> QED BY <1>1 DEF Init, IInv, IdleIsBlank, IdleHasNoCursor, CursorIsLast, StillInTable, RestIsBelow,
                    NothingStillIsMissed, PagesDescend

\* Steps that leave the queue and the client alone.
LEMMA NoMove ==
  ASSUME IInv, TypeOK', UNCHANGED <<enqueuedAt, reader>>
  PROVE  IInv'
BY DEF IInv, IdleIsBlank, IdleHasNoCursor, CursorIsLast, StillInTable, RestIsBelow, NothingStillIsMissed,
       PagesDescend, Table, Below

LEMMA TickInv == ASSUME IInv, Tick PROVE IInv'
<1>1. TypeOK'
  BY LimitAssumption DEF IInv, TypeOK, Tick, Times
<1> QED BY <1>1, NoMove DEF Tick

LEMMA SelectInv ==
  ASSUME IInv, NEW a \in Attempts, NEW r \in Reports, SelectItem(a, r) PROVE IInv'
<1>1. [at |-> "commit", report |-> r, found |-> enqueuedAt[r] # 0, now |-> clock] \in AttemptStates
  BY DEF AttemptStates, IInv, TypeOK
<1>2. TypeOK'
  BY <1>1 DEF IInv, TypeOK, SelectItem
<1> QED BY <1>2, NoMove DEF SelectItem

LEMMA LoseInv == ASSUME IInv, NEW a \in Attempts, LoseAttempt(a) PROVE IInv'
<1>1. TypeOK'
  BY DEF IInv, TypeOK, LoseAttempt, AttemptStates
<1> QED BY <1>1, NoMove DEF LoseAttempt

\* A commit takes its item out of what has to stay where it is.
LEMMA CommitInv == ASSUME IInv, NEW a \in Attempts, CommitItem(a) PROVE IInv'
<1> DEFINE r == attempt[a].report
<1>1. r \in Reports /\ attempt[a].now \in Times
  BY DEF CommitItem, IInv, TypeOK, AttemptStates
<1>2. attempt' \in [Attempts -> AttemptStates]
  BY DEF CommitItem, IInv, TypeOK, AttemptStates
<1>3. CASE UNCHANGED <<enqueuedAt, reader>>
  <2>1. TypeOK'
    BY <1>2, <1>3 DEF CommitItem, IInv, TypeOK
  <2> QED BY <1>3, <2>1, NoMove
<1>4. CASE /\ enqueuedAt' = [enqueuedAt EXCEPT ![r] = attempt[a].now]
           /\ reader' = [reader EXCEPT !.moved = reader.moved \cup {r}]
  <2>1. attempt[a].now \in 0..MaxClock
    BY <1>1, LimitAssumption DEF Times
  <2>2. enqueuedAt' \in [Reports -> 0..MaxClock]
    BY <1>4, <2>1 DEF IInv, TypeOK
  <2>3. /\ reader' \in ReaderStates
        /\ reader'.moved = reader.moved \cup {r} /\ reader'.at = reader.at
        /\ reader'.cursor = reader.cursor /\ reader'.began = reader.began
        /\ reader'.page = reader.page /\ reader'.turned = reader.turned
    BY <1>1, <1>4 DEF IInv, TypeOK, ReaderStates
  <2>4. TypeOK'
    BY <1>2, <2>2, <2>3 DEF CommitItem, IInv, TypeOK
  <2>5. StillInTable'
    BY <1>1, <1>4, <2>3, OtherRowsStay DEF IInv, StillInTable
  <2>6. (IdleIsBlank /\ IdleHasNoCursor /\ CursorIsLast /\ RestIsBelow /\ NothingStillIsMissed /\ PagesDescend)'
    BY <2>3 DEF IInv, IdleIsBlank, IdleHasNoCursor, CursorIsLast, RestIsBelow, NothingStillIsMissed,
                PagesDescend, Below
  <2> QED BY <2>4, <2>5, <2>6 DEF IInv
<1> QED BY <1>3, <1>4 DEF CommitItem
-----------------------------------------------------------------------------
\* The rows of a page are below everything that was shown before it.
LEMMA PageIsBelow ==
  ASSUME IInv, reader.at # "done", NEW page \in SUBSET Matching(reader.cursor)
  PROVE  \A x \in reader.turned \cup reader.page, y \in page : Below(y, x)
<1> SUFFICES ASSUME NEW x \in reader.turned \cup reader.page, NEW y \in page
             PROVE  Below(y, x)
  OBVIOUS
<1>1. x \in ItemRows /\ y \in ItemRows
  BY TableRows DEF IInv, TypeOK, ReaderStates, Matching
<1>2. reader.at = "paging"
  BY DEF IInv, IdleIsBlank, TypeOK, ReaderStates
<1>3. reader.cursor \in ItemRows /\ reader.cursor # NoRow
  BY <1>2, RowsAreNotNoRow DEF IInv, CursorIsLast
<1>4. Below(y, reader.cursor)
  BY <1>3 DEF Matching
<1>5. x = reader.cursor \/ Below(reader.cursor, x)
  BY <1>2 DEF IInv, CursorIsLast
<1> QED BY <1>1, <1>3, <1>4, <1>5, BelowIsTransitive

\* Rows that stayed and were not shown are among those the next page is taken from.
LEMMA RestMatches ==
  ASSUME IInv, reader.at = "paging", NEW x \in reader.began, x.report \notin reader.moved,
         x \notin reader.turned \cup reader.page
  PROVE  x \in Matching(reader.cursor)
BY DEF IInv, StillInTable, RestIsBelow, Matching

LEMMA ReadInv == ASSUME IInv, ReadPage PROVE IInv'
<1> DEFINE rows == Matching(reader.cursor)
<1> DEFINE shown == reader.turned \cup reader.page
<1>1. PICK page \in SUBSET rows :
        /\ IsPage(page, reader.limit, rows)
        /\ \/ page = rows /\ TurnTo("done", NoRow, page)
           \/ /\ page # rows
              /\ \E last \in page : /\ \A x \in page \ {last} : Below(last, x)
                                    /\ TurnTo("paging", last, page)
  BY DEF ReadPage
<1>2. reader.at # "done" /\ Table' = Table /\ UNCHANGED <<clock, enqueuedAt, attempt>>
  BY DEF ReadPage, Table
<1>3. reader.at \in {"idle", "paging"} /\ reader \in ReaderStates
  BY <1>2 DEF IInv, TypeOK, ReaderStates
<1>4. Table \subseteq ItemRows /\ rows \subseteq ItemRows
  BY TableRows DEF IInv, Matching
<1>5. \A x \in shown, y \in page : Below(y, x)
  BY <1>2, PageIsBelow
<1>6. reader'.page = page /\ reader'.turned = shown
  BY <1>1 DEF TurnTo
<1>7. \/ reader.at = "idle" /\ reader'.began = Table /\ reader'.moved = {}
      \/ reader.at = "paging" /\ reader'.began = reader.began /\ reader'.moved = reader.moved
  BY <1>1, <1>3 DEF TurnTo
<1>8. \A x \in reader'.began : x.report \notin reader'.moved => x \in shown \cup rows
  <2>1. CASE reader.at = "idle"
    <3>1. rows = Table
      BY <2>1, RowsAreNotNoRow DEF Matching, IInv, IdleHasNoCursor
    <3> QED BY <2>1, <3>1, <1>7
  <2>2. CASE reader.at = "paging"
    BY <2>2, <1>7, RestMatches
  <2> QED BY <1>3, <2>1, <2>2
<1>9. StillInTable'
  BY <1>2, <1>7 DEF IInv, StillInTable
<1>10. PagesDescend'
  BY <1>5, <1>6 DEF PagesDescend, Below
<1>11. CASE page = rows /\ TurnTo("done", NoRow, page)
  <2>1. reader'.at = "done" /\ reader'.cursor = NoRow
    BY <1>11 DEF TurnTo
  <2>2. reader' \in ReaderStates
    BY <1>3, <1>4, <1>11 DEF TurnTo, ReaderStates
  <2>3. TypeOK'
    BY <1>2, <2>2 DEF IInv, TypeOK
  <2>4. NothingStillIsMissed'
    BY <1>6, <1>8, <1>11 DEF NothingStillIsMissed
  <2> QED BY <1>9, <1>10, <2>1, <2>3, <2>4
          DEF IInv, IdleIsBlank, IdleHasNoCursor, CursorIsLast, RestIsBelow
<1>12. CASE page # rows /\ \E last \in page : /\ \A x \in page \ {last} : Below(last, x)
                                              /\ TurnTo("paging", last, page)
  <2>1. PICK last \in page : /\ \A x \in page \ {last} : Below(last, x)
                             /\ TurnTo("paging", last, page)
    BY <1>12
  <2>2. reader'.at = "paging" /\ reader'.cursor = last /\ last \in ItemRows
    BY <2>1, <1>4 DEF TurnTo
  <2>3. reader' \in ReaderStates
    BY <1>3, <1>4, <2>1, <2>2 DEF TurnTo, ReaderStates
  <2>4. TypeOK'
    BY <1>2, <2>3 DEF IInv, TypeOK
  <2>5. CursorIsLast'
    BY <1>5, <1>6, <2>1, <2>2 DEF CursorIsLast, Below, ItemRows, Times
  <2>6. RestIsBelow'
    BY <1>1, <1>6, <1>8, <2>2 DEF RestIsBelow, IsPage, Below
  <2> QED BY <1>9, <1>10, <2>2, <2>4, <2>5, <2>6
          DEF IInv, IdleIsBlank, IdleHasNoCursor, NothingStillIsMissed
<1> QED BY <1>1, <1>11, <1>12

LEMMA NextInv == ASSUME IInv, [Next]_vars PROVE IInv'
<1>1. CASE Tick
  BY <1>1, TickInv
<1>2. ASSUME NEW a \in Attempts, NEW r \in Reports, SelectItem(a, r) PROVE IInv'
  BY <1>2, SelectInv
<1>3. ASSUME NEW a \in Attempts, CommitItem(a) PROVE IInv'
  BY <1>3, CommitInv
<1>4. ASSUME NEW a \in Attempts, LoseAttempt(a) PROVE IInv'
  BY <1>4, LoseInv
<1>5. CASE ReadPage
  BY <1>5, ReadInv
<1>6. CASE UNCHANGED vars
  <2>1. TypeOK'
    BY <1>6 DEF IInv, TypeOK, vars
  <2> QED BY <1>6, <2>1, NoMove DEF vars
<1> QED BY <1>1, <1>2, <1>3, <1>4, <1>5, <1>6 DEF Next

\* The inductive invariant holds of every step of clients and attempts.
THEOREM Invariance == Spec => []IInv
<1>1. Init => IInv
  BY InitInv
<1>2. IInv /\ [Next]_vars => IInv'
  BY NextInv
<1> QED BY <1>1, <1>2, PTL DEF Spec

\* No item that stays where it is escapes a client that reads to the end
\* (list_queue_items), however many items, attempts and pages there are.
THEOREM NothingMissed == Spec => []NothingStillIsMissed
<1>1. IInv => NothingStillIsMissed
  BY DEF IInv
<1> QED BY <1>1, Invariance, PTL

\* Every page lies below the pages before it.
THEOREM NoRowTwice == Spec => []PagesDescend
<1>1. IInv => PagesDescend
  BY DEF IInv
<1> QED BY <1>1, Invariance, PTL
=============================================================================
