----------------------------- MODULE Migrations -----------------------------
(***************************************************************************)
(* Processes open the database and bring it to the present schema          *)
(* (db/connection.py, init_schema): columns that an older release did not  *)
(* have are added one by one, those whose default is wrong for old rows    *)
(* are backfilled, and then schema.sql creates the tables that are absent. *)
(*                                                                         *)
(* The sqlite3 module opens a transaction before an UPDATE and not before  *)
(* an ALTER TABLE.  So columns are committed one at a time up to the first *)
(* backfill, and all the rest is committed with it, at the end.  Any       *)
(* process may die at any step, and any number may migrate at once.        *)
(***************************************************************************)
EXTENDS Integers, Sequences, FiniteSets

CONSTANTS
  Processes,   \* processes that open the database
  NoProcess,
  Columns,     \* the columns that MIGRATIONS adds
  Order,       \* MIGRATIONS, as a sequence of columns
  Backfilled,  \* columns with an entry in BACKFILLS
  Tables,
  TableOf,     \* the table of a column
  Releases     \* databases to start from: [tables, has]

ASSUME MigrationsAssumption ==
  /\ NoProcess \notin Processes
  /\ Order \in Seq(Columns)
  /\ \A c \in Columns : \E i \in 1 .. Len(Order) : Order[i] = c
  /\ Backfilled \subseteq Columns
  /\ TableOf \in [Columns -> Tables]
  /\ Releases \subseteq [tables : SUBSET Tables, has : SUBSET Columns]
  /\ \A r \in Releases : \A c \in r.has : TableOf[c] \in r.tables

VARIABLES
  mpc,    \* where each process is inside init_schema
  next,   \* the column it looks at, as an index of Order
  tables, \* the tables there are
  has,    \* the columns there are
  bare,   \* columns that were added and not backfilled: old rows hold the default
  writer, \* the process with an open transaction
  draft,  \* has and bare as that process sees them
  cut     \* history: columns whose process ended before their backfill

mvars == <<mpc, next, tables, has, bare, writer, draft, cut>>

Drafts == [has : SUBSET Columns, bare : SUBSET Columns]
MPCs   == {"down", "check", "alter", "backfill", "schema", "open"}

NoDraft == [has |-> {}, bare |-> {}]

MInit ==
  /\ mpc    = [p \in Processes |-> "down"]
  /\ next   = [p \in Processes |-> 1]
  /\ \E r \in Releases : tables = r.tables /\ has = r.has
  /\ bare   = {}
  /\ writer = NoProcess
  /\ draft  = NoDraft
  /\ cut    = {}

\* What a process reads, and whether it may write.
View(p) == IF writer = p THEN draft ELSE [has |-> has, bare |-> bare]
Free(p) == writer \in {NoProcess, p}

MGoto(p, l) == mpc' = [mpc EXCEPT ![p] = l]

\* connect, then the first column.
Connect(p) ==
  /\ mpc[p] = "down"
  /\ MGoto(p, "check")
  /\ next' = [next EXCEPT ![p] = 1]
  /\ UNCHANGED <<tables, has, bare, writer, draft, cut>>

\* Bug: a table with one of its new columns passes for migrated.
MissingByTable(p, c) ==
  TableOf[c] \in tables /\ \A d \in View(p).has : TableOf[d] # TableOf[c]

\* _table_exists and _column_names
Missing(p, c) == TableOf[c] \in tables /\ c \notin View(p).has

Check(p) ==
  /\ mpc[p] = "check" /\ next[p] <= Len(Order)
  /\ IF Missing(p, Order[next[p]])
     THEN MGoto(p, "alter") /\ UNCHANGED next
     ELSE next' = [next EXCEPT ![p] = @ + 1] /\ UNCHANGED mpc
  /\ UNCHANGED <<tables, has, bare, writer, draft, cut>>

\* Bug: the backfills run for the first of the new columns only.
NeedsBackfillOnce(p, c) == c \in Backfilled /\ writer # p

NeedsBackfill(p, c) == c \in Backfilled

\* ALTER TABLE: all old rows get the default.  It commits at once, except
\* inside the transaction of an earlier backfill.
Alter(p) ==
  LET c == Order[next[p]]
      v == [has  |-> View(p).has \cup {c},
            bare |-> IF c \in Backfilled THEN View(p).bare \cup {c} ELSE View(p).bare]
  IN  /\ mpc[p] = "alter" /\ Free(p) /\ c \notin View(p).has
      /\ IF writer = p
         THEN draft' = v /\ UNCHANGED <<has, bare>>
         ELSE has' = v.has /\ bare' = v.bare /\ UNCHANGED draft
      /\ IF NeedsBackfill(p, c)
         THEN MGoto(p, "backfill") /\ UNCHANGED next
         ELSE MGoto(p, "check") /\ next' = [next EXCEPT ![p] = @ + 1]
      /\ UNCHANGED <<tables, writer, cut>>

\* The UPDATE opens the transaction, or goes into the one that is open.  What it
\* does to the rows of others is seen when it is committed.
Backfill(p) ==
  /\ mpc[p] = "backfill" /\ Free(p)
  /\ writer' = p
  /\ draft'  = [View(p) EXCEPT !.bare = @ \ {Order[next[p]]}]
  /\ MGoto(p, "check")
  /\ next' = [next EXCEPT ![p] = @ + 1]
  /\ UNCHANGED <<tables, has, bare, cut>>

\* The backfills in the transaction of a process.
Mended(p) ==
  IF writer = p THEN (Backfilled \cap (bare \cup (draft.has \ has))) \ draft.bare ELSE {}

\* commit
Commit(p) ==
  /\ mpc[p] = "check" /\ next[p] > Len(Order)
  /\ MGoto(p, "schema")
  /\ IF writer = p
     THEN has' = draft.has /\ bare' = draft.bare /\ writer' = NoProcess /\ draft' = NoDraft
     ELSE UNCHANGED <<has, bare, writer, draft>>
  /\ UNCHANGED <<next, tables, cut>>

\* schema.sql: CREATE TABLE IF NOT EXISTS, one after the other, with all the
\* columns they have today.
Create(p) ==
  /\ mpc[p] = "schema" /\ writer = NoProcess
  /\ \E t \in Tables \ tables :
       /\ tables' = tables \cup {t}
       /\ has'    = has \cup {c \in Columns : TableOf[c] = t}
  /\ UNCHANGED <<mpc, next, bare, writer, draft, cut>>

Ready(p) ==
  /\ mpc[p] = "schema" /\ tables = Tables
  /\ MGoto(p, "open")
  /\ UNCHANGED <<next, tables, has, bare, writer, draft, cut>>

\* Columns that are committed, and their backfill by this process is not.
Unfinished(p) ==
  {c \in bare : \/ mpc[p] = "backfill" /\ Order[next[p]] = c
                \/ writer = p /\ c \notin draft.bare}

\* The connection ends, and its transaction is rolled back.
Disconnect(p) ==
  /\ MGoto(p, "down")
  /\ IF writer = p THEN writer' = NoProcess /\ draft' = NoDraft
     ELSE UNCHANGED <<writer, draft>>
  /\ cut' = cut \cup Unfinished(p)
  /\ UNCHANGED <<next, tables, has, bare>>

\* "duplicate column name", because another process was faster, and "database
\* is locked" after five seconds: both end the start of the process.
Refused(p) ==
  /\ \/ mpc[p] = "alter" /\ Free(p) /\ Order[next[p]] \in View(p).has
     \/ mpc[p] \in {"alter", "backfill", "schema"} /\ ~Free(p)
  /\ Disconnect(p)

Advance(p) ==
  \/ Connect(p) \/ Check(p) \/ Alter(p) \/ Backfill(p)
  \/ Create(p) \/ Ready(p) \/ Refused(p)

MStep(p) == Advance(p) \/ Commit(p)

MNext == \E p \in Processes : MStep(p) \/ (mpc[p] # "down" /\ Disconnect(p))

MSpec == MInit /\ [][MNext]_mvars

-----------------------------------------------------------------------------
(* Properties *)

MTypeOK ==
  /\ mpc    \in [Processes -> MPCs]
  /\ next   \in [Processes -> 1 .. Len(Order) + 1]
  /\ tables \subseteq Tables
  /\ has    \subseteq Columns
  /\ bare   \subseteq Columns
  /\ writer \in Processes \cup {NoProcess}
  /\ draft  \in Drafts
  /\ cut    \subseteq Columns

\* A process that has the database open finds every column its statements
\* name, whoever added it and whatever other processes and deaths came between
\* (init_schema before the first INSERT).
OpenIsComplete ==
  \A p \in Processes : mpc[p] = "open" => tables = Tables /\ has = Columns

\* Every column that was added is backfilled, except one whose process died or
\* was refused between its ALTER and its commit: nobody repeats that backfill,
\* because the column is there (apply_migrations).
BackfillKept == \A c \in bare : c \in cut \/ \E p \in Processes : c \in Unfinished(p)
=============================================================================
