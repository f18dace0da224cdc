---------------------------- MODULE ActivityStore ---------------------------
(***************************************************************************)
(* The audit log: ActivityStore of activity_store.py, and an admin who     *)
(* pages through it while rows are added.                                  *)
(***************************************************************************)
EXTENDS AdminRequests, Naturals, FiniteSets, SequencesExt

CONSTANTS
  Rows,        \* bound: what can be stored, a set of <<day, ts_id>>
  FirstRows,   \* what was logged before the first request
  Limit        \* rows in a page

ASSUME ActivityAssumption ==
  /\ IsFiniteSet(Rows)
  /\ None \notin Rows
  /\ Rows # {} /\ FirstRows \subseteq Rows
  /\ Rows \subseteq (Nat \ {0}) \X Nat
  /\ Limit \in Nat \ {0}

VARIABLES
  log,         \* the table
  reading      \* per request that queries it: where it has got to

activityVars == <<log, reading>>

Newer(a, b) == a[1] > b[1] \/ (a[1] = b[1] /\ a[2] > b[2])
Today == CHOOSE d \in {row[1] : row \in Rows} : \A row \in Rows : row[1] <= d

\* cursor: the last row sent.  day: the partition to be read next, 0 when the
\* answer has no cursor.  page: what is collected.  History: the pages sent
\* before, and what was stored when the first was asked for.
Reading == [cursor : Rows \cup {None}, day : 0..Today, page : Seq(Rows),
            sent : Seq(Rows), present : SUBSET Rows]

ActivityInit == log = FirstRows /\ reading = [r \in Requests |-> None]

ActivityTypeOK ==
  /\ log \subseteq Rows
  /\ \A r \in Requests :
       IF at[r] = "read" THEN reading[r] \in Reading ELSE reading[r] = None

\* log: best effort.  The time stamped on a row is taken before it is stored,
\* so rows of different requests can be stored in any order.
LogRow(r) ==
  /\ at[r] = "log"
  /\ \/ UNCHANGED log
     \/ \E row \in Rows \ log : log' = log \cup {row}
  /\ Finish(r)
  /\ UNCHANGED reading

\* GET /api/admin/activity, for the first page.
StartQuery(r, j) ==
  /\ j.op = "query"
  /\ Serve(r, j, "read")
  /\ reading' = [reading EXCEPT ![r] =
       [cursor |-> None, day |-> Today, page |-> <<>>, sent |-> <<>>, present |-> log]]
  /\ UNCHANGED log

\* A mutant of PastCursor: the row of the cursor is not skipped.
PastCursorFrom(cursor, row) == cursor = None \/ ~Newer(row, cursor)

\* What was sent before is skipped.
PastCursor(cursor, row) == cursor = None \/ Newer(cursor, row)

\* table.query with ScanIndexForward=False: descending ts_id.
NewestFirst(rows) ==
  CHOOSE s \in SetToSeqs(rows) : \A i, j \in 1..Len(s) : i < j => Newer(s[i], s[j])

\* One partition is read.  A full page is sent, and the next asked for, which
\* skips the partitions newer than its cursor.
ReadDay(r) ==
  LET q == reading[r]
      unsent == {row \in log : row[1] = q.day /\ PastCursor(q.cursor, row)}
      rows == q.page \o NewestFirst(unsent)
      page == SubSeq(rows, 1, IF Len(rows) < Limit THEN Len(rows) ELSE Limit)
      last == q.day = 1
  IN  /\ at[r] = "read"
      /\ q.day # 0
      /\ reading' = [reading EXCEPT ![r] =
           IF Len(page) = Limit
             THEN [q EXCEPT !.cursor = page[Limit], !.day = page[Limit][1],
                            !.page = <<>>, !.sent = @ \o page]
             ELSE [q EXCEPT !.day = @ - 1,
                            !.page = IF last THEN <<>> ELSE page,
                            !.sent = IF last THEN @ \o page ELSE @]]
      /\ UNCHANGED <<requestVars, log>>

\* The last page was sent.  An error also answers a page without a cursor.
QueryEnds(r) ==
  /\ at[r] = "read"
  /\ Finish(r)
  /\ reading' = [reading EXCEPT ![r] = None]
  /\ UNCHANGED log

-----------------------------------------------------------------------------
\* The pages are newest first and without repetition, and by the last one they
\* have every row that was stored when the first was asked for, although rows
\* are added between them and a page may end on the last row of a day.
PagesAreComplete ==
  \A r \in Requests :
    reading[r] # None =>
      LET sent == reading[r].sent IN
      /\ \A i \in 1..(Len(sent) - 1) : Newer(sent[i], sent[i + 1])
      /\ reading[r].day = 0 => reading[r].present \subseteq ToSet(sent)
=============================================================================
