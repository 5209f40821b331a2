---------------------------- MODULE UpkeepProofs ----------------------------
(***************************************************************************)
(* Migrations reach a complete schema whatever processes, columns and      *)
(* release to start from; Upkeep implements Migrations, so what is proved  *)
(* of migrations holds under all its traffic; retention erases nothing     *)
(* that is not archived; and what the budget and the reports read agrees   *)
(* with the calls that were made, for any number of processes, spans, days *)
(* and deaths, and whatever writes fail.                                   *)
(***************************************************************************)
EXTENDS Upkeep, SumTheorems

-----------------------------------------------------------------------------
(* Migrations on their own: every statement here is about MSpec. *)

\* A process is past a column when the column is there as the process sees it,
\* or its table is not there at all and will be created with the column.
Passed(p) ==
  \A i \in 1 .. Len(Order) :
    i < next[p] => Order[i] \in View(p).has \/ TableOf[Order[i]] \notin tables

Migrating == {"check", "alter", "backfill", "schema"}

\* The transaction of a process adds to what is committed, and only the column
\* it has just added lacks its backfill in it.
WriterSound ==
  \A p \in Processes :
    writer = p =>
      /\ mpc[p] \in {"check", "alter", "backfill"}
      /\ has \subseteq draft.has
      /\ \A c \in draft.bare : c \in bare \/ (mpc[p] = "backfill" /\ c = Order[next[p]])

\* Where a process stands says which columns it has seen or added.
ProgressSound ==
  \A p \in Processes :
    /\ mpc[p] \in Migrating => Passed(p)
    /\ mpc[p] = "schema" => next[p] = Len(Order) + 1
    /\ mpc[p] \in {"alter", "backfill"} => next[p] <= Len(Order)
    /\ mpc[p] = "backfill" => Order[next[p]] \in View(p).has

MInv == MTypeOK /\ WriterSound /\ ProgressSound /\ OpenIsComplete /\ BackfillKept

-----------------------------------------------------------------------------

\* The order names columns, and all of them.
LEMMA OrderFacts ==
  /\ Len(Order) \in Nat
  /\ \A i \in 1 .. Len(Order) : Order[i] \in Columns
  /\ \A c \in Columns : \E i \in 1 .. Len(Order) : Order[i] = c
  /\ \A p \in Processes : p # NoProcess
BY MigrationsAssumption

\* The initial databases satisfy the invariant.
LEMMA MInvInit == MInit => MInv
<1> SUFFICES ASSUME MInit PROVE MInv
  OBVIOUS
<1> USE OrderFacts
<1>1. MTypeOK
  BY MigrationsAssumption DEF MInit, MTypeOK, MPCs, Drafts, NoDraft
<1>2. WriterSound /\ ProgressSound /\ OpenIsComplete /\ BackfillKept
  BY DEF MInit, WriterSound, ProgressSound, OpenIsComplete, BackfillKept, Migrating
<1> QED BY <1>1, <1>2 DEF MInv

\* Opening a connection changes nothing that others see.
LEMMA MInvConnect ==
  ASSUME MInv, NEW p \in Processes, Connect(p)
  PROVE  MInv'
<1> USE OrderFacts DEF MInv
<1>1. MTypeOK'
  BY DEF MTypeOK, Connect, MGoto, View, MPCs, Drafts, NoDraft
<1>2. WriterSound'
  BY DEF WriterSound, Connect, MGoto, View, Free, MTypeOK, NoDraft, Drafts
<1>3. ProgressSound'
  BY DEF ProgressSound, WriterSound, Passed, Missing, Connect, MGoto, View, Free, MTypeOK, Migrating, Drafts
<1>4. OpenIsComplete'
  BY DEF OpenIsComplete, WriterSound, ProgressSound, Passed, Connect, MGoto, View, MTypeOK, Migrating, Drafts
<1>5. BackfillKept'
  BY DEF BackfillKept, WriterSound, Unfinished, NeedsBackfill, Connect, MGoto, View, Free, MTypeOK, Drafts
<1> QED BY <1>1, <1>2, <1>3, <1>4, <1>5

\* A column that is passed over is there, or its table is not.
LEMMA MInvCheck ==
  ASSUME MInv, NEW p \in Processes, Check(p)
  PROVE  MInv'
<1> USE OrderFacts DEF MInv
<1>1. MTypeOK'
  BY SMTT(30) DEF MTypeOK, Check, MGoto, View, MPCs, Drafts, NoDraft
<1>2. WriterSound'
  BY SMTT(30) DEF WriterSound, Check, MGoto, View, Free, MTypeOK, NoDraft, Drafts
<1>3. ProgressSound'
  BY SMTT(30) DEF ProgressSound, WriterSound, Passed, Missing, Check, MGoto, View, Free, MTypeOK, Migrating, Drafts
<1>4. OpenIsComplete'
  BY DEF OpenIsComplete, WriterSound, ProgressSound, Passed, Check, MGoto, View, MTypeOK, Migrating, Drafts
<1>5. BackfillKept'
  BY DEF BackfillKept, WriterSound, Unfinished, NeedsBackfill, Check, MGoto, View, Free, MTypeOK, Drafts
<1> QED BY <1>1, <1>2, <1>3, <1>4, <1>5

\* The new column is there afterwards, and its backfill is still to come.
LEMMA MInvAlter ==
  ASSUME MInv, NEW p \in Processes, Alter(p)
  PROVE  MInv'
<1> USE OrderFacts DEF MInv
<1>1. MTypeOK'
  <2>1. next[p] \in 1 .. Len(Order) /\ next[p] + 1 \in 1 .. Len(Order) + 1
    BY DEF MTypeOK, ProgressSound, Alter
  <2>2. View(p) \in Drafts /\ Order[next[p]] \in Columns
    BY <2>1 DEF MTypeOK, View, Drafts
  <2>3. draft' \in Drafts /\ has' \subseteq Columns /\ bare' \subseteq Columns
    BY <2>2 DEF MTypeOK, Alter, Drafts
  <2>4. mpc' \in [Processes -> MPCs] /\ next' \in [Processes -> 1 .. Len(Order) + 1]
    BY <2>1 DEF MTypeOK, Alter, MGoto, MPCs
  <2> QED BY <2>3, <2>4 DEF MTypeOK, Alter
<1>2. WriterSound'
  <2>1. CASE writer = p
    BY <2>1 DEF WriterSound, Alter, NeedsBackfill, MGoto, View, MTypeOK, Drafts
  <2>2. CASE writer # p
    BY <2>2 DEF WriterSound, Alter, Free, MGoto
  <2> QED BY <2>1, <2>2
<1>3. ProgressSound'
  BY DEF ProgressSound, WriterSound, Passed, Missing, Alter, MGoto, View, Free, MTypeOK, Migrating, Drafts
<1>4. OpenIsComplete'
  BY DEF OpenIsComplete, WriterSound, ProgressSound, Passed, Alter, MGoto, View, MTypeOK, Migrating, Drafts
<1>5. BackfillKept'
  BY SMTT(30) DEF BackfillKept, WriterSound, Unfinished, NeedsBackfill, Alter, MGoto, View, Free, MTypeOK, Drafts
<1> QED BY <1>1, <1>2, <1>3, <1>4, <1>5

\* The transaction holds the backfill until it is committed.
LEMMA MInvBackfill ==
  ASSUME MInv, NEW p \in Processes, Backfill(p)
  PROVE  MInv'
<1> USE OrderFacts DEF MInv
<1>1. MTypeOK'
  <2>1. next[p] + 1 \in 1 .. Len(Order) + 1
    BY DEF MTypeOK, ProgressSound, Backfill
  <2>2. draft' \in Drafts
    BY DEF MTypeOK, Backfill, View, Drafts
  <2> QED BY <2>1, <2>2 DEF MTypeOK, Backfill, MGoto, MPCs
<1>2. WriterSound'
  BY DEF WriterSound, Backfill, MGoto, View, Free, MTypeOK, NoDraft, Drafts
<1>3. ProgressSound'
  BY DEF ProgressSound, WriterSound, Passed, Missing, Backfill, MGoto, View, Free, MTypeOK, Migrating, Drafts
<1>4. OpenIsComplete'
  BY DEF OpenIsComplete, WriterSound, ProgressSound, Passed, Backfill, MGoto, View, MTypeOK, Migrating, Drafts
<1>5. BackfillKept'
  BY DEF BackfillKept, WriterSound, Unfinished, NeedsBackfill, Backfill, MGoto, View, Free, MTypeOK, Drafts
<1> QED BY <1>1, <1>2, <1>3, <1>4, <1>5

\* What the transaction added is committed with its backfills.
LEMMA MInvCommit ==
  ASSUME MInv, NEW p \in Processes, Commit(p)
  PROVE  MInv'
<1> USE OrderFacts DEF MInv
<1>1. MTypeOK'
  BY DEF MTypeOK, Commit, MGoto, View, MPCs, Drafts, NoDraft
<1>2. WriterSound'
  BY DEF WriterSound, Commit, MGoto, View, Free, MTypeOK, NoDraft, Drafts
<1>3. ProgressSound'
  BY DEF ProgressSound, WriterSound, Passed, Missing, Commit, MGoto, View, Free, MTypeOK, Migrating, Drafts
<1>4. OpenIsComplete'
  <2>1. has \subseteq has' /\ has' \subseteq Columns /\ tables' = tables
    BY DEF WriterSound, Commit, MTypeOK, Drafts
  <2>2. \A q \in Processes : mpc'[q] = "open" => mpc[q] = "open"
    BY DEF Commit, MGoto, MTypeOK
  <2> QED BY <2>1, <2>2 DEF OpenIsComplete
<1>5. BackfillKept'
  BY DEF BackfillKept, WriterSound, Unfinished, NeedsBackfill, Commit, MGoto, View, Free, MTypeOK, Drafts
<1> QED BY <1>1, <1>2, <1>3, <1>4, <1>5

\* A table is created with all its columns, while nobody writes.
LEMMA MInvCreate ==
  ASSUME MInv, NEW p \in Processes, Create(p)
  PROVE  MInv'
<1> USE OrderFacts DEF MInv
<1>1. MTypeOK'
  BY DEF MTypeOK, Create, MGoto, View, MPCs, Drafts, NoDraft
<1>2. WriterSound'
  BY DEF WriterSound, Create, MGoto, View, Free, MTypeOK, NoDraft, Drafts
<1>3. ProgressSound'
  BY DEF ProgressSound, WriterSound, Passed, Missing, Create, MGoto, View, Free, MTypeOK, Migrating, Drafts
<1>4. OpenIsComplete'
  BY DEF OpenIsComplete, WriterSound, ProgressSound, Passed, Create, MGoto, View, MTypeOK, Migrating, Drafts
<1>5. BackfillKept'
  BY DEF BackfillKept, WriterSound, Unfinished, NeedsBackfill, Create, MGoto, View, Free, MTypeOK, Drafts
<1> QED BY <1>1, <1>2, <1>3, <1>4, <1>5

\* A process that has looked at all columns and tables lacks none.
LEMMA MInvReady ==
  ASSUME MInv, NEW p \in Processes, Ready(p)
  PROVE  MInv'
<1> USE OrderFacts DEF MInv
<1>1. MTypeOK'
  BY DEF MTypeOK, Ready, MGoto, View, MPCs, Drafts, NoDraft
<1>2. WriterSound'
  BY DEF WriterSound, Ready, MGoto, View, Free, MTypeOK, NoDraft, Drafts
<1>3. ProgressSound'
  BY DEF ProgressSound, WriterSound, Passed, Missing, Ready, MGoto, View, Free, MTypeOK, Migrating, Drafts
<1>4. OpenIsComplete'
  <2>1. View(p).has = has /\ next[p] = Len(Order) + 1 /\ Passed(p)
    BY DEF Ready, View, WriterSound, ProgressSound, Migrating
  <2>2. \A c \in Columns : TableOf[c] \in tables
    BY MigrationsAssumption DEF Ready
  <2>3. \A i \in 1 .. Len(Order) : Order[i] \in has
    BY <2>1, <2>2 DEF Passed
  <2>4. has = Columns /\ tables = Tables
    BY <2>3 DEF MTypeOK, Ready
  <2> QED BY <2>4 DEF OpenIsComplete, Ready
<1>5. BackfillKept'
  BY DEF BackfillKept, WriterSound, Unfinished, NeedsBackfill, Ready, MGoto, View, Free, MTypeOK, Drafts
<1> QED BY <1>1, <1>2, <1>3, <1>4, <1>5

\* A process that ends takes its transaction along, and what it left unfinished
\* is remembered.
LEMMA MInvDisconnect ==
  ASSUME MInv, NEW p \in Processes, Disconnect(p)
  PROVE  MInv'
<1> USE OrderFacts DEF MInv
<1>1. MTypeOK'
  BY DEF MTypeOK, Disconnect, Unfinished, MGoto, View, MPCs, Drafts, NoDraft
<1>2. WriterSound'
  BY DEF WriterSound, Disconnect, MGoto, View, Free, MTypeOK, NoDraft, Drafts
<1>3. ProgressSound'
  BY DEF ProgressSound, WriterSound, Passed, Missing, Disconnect, MGoto, View, Free, MTypeOK, Migrating, Drafts
<1>4. OpenIsComplete'
  BY DEF OpenIsComplete, WriterSound, ProgressSound, Passed, Disconnect, MGoto, View, MTypeOK, Migrating, Drafts
<1>5. BackfillKept'
  BY DEF BackfillKept, WriterSound, Unfinished, NeedsBackfill, Disconnect, MGoto, View, Free, MTypeOK, Drafts
<1> QED BY <1>1, <1>2, <1>3, <1>4, <1>5

\* Every step keeps the invariant; to be refused is to end.
LEMMA MInvStep ==
  ASSUME MInv, [MNext]_mvars
  PROVE  MInv'
<1>1. ASSUME NEW p \in Processes, MStep(p) PROVE MInv'
  BY <1>1, MInvConnect, MInvCheck, MInvAlter, MInvBackfill, MInvCommit, MInvCreate,
     MInvReady, MInvDisconnect DEF MStep, Advance, Refused
<1>2. ASSUME NEW p \in Processes, Disconnect(p) PROVE MInv'
  BY <1>2, MInvDisconnect
<1>3. CASE UNCHANGED mvars
  BY <1>3 DEF mvars, MInv, MTypeOK, WriterSound, ProgressSound, OpenIsComplete, BackfillKept,
              Passed, Unfinished, View, Migrating
<1> QED BY <1>1, <1>2, <1>3 DEF MNext

\* The state of any number of migrating processes stays well formed.
THEOREM MigrationsInv == MSpec => []MInv
<1>1. MInit => MInv
  BY MInvInit
<1>2. MInv /\ [MNext]_mvars => MInv'
  BY MInvStep
<1> QED BY <1>1, <1>2, PTL DEF MSpec

\* A process that has the database open lacks no column and no table, from
\* whatever release it started, however many processes migrated at once and
\* wherever they died (init_schema).
THEOREM MigrationsComplete == MSpec => []OpenIsComplete
<1>1. MInv => OpenIsComplete
  BY DEF MInv
<1> QED BY <1>1, MigrationsInv, PTL

\* A backfill is lost only with the process that owed it (apply_migrations).
THEOREM MigrationsBackfillKept == MSpec => []BackfillKept
<1>1. MInv => BackfillKept
  BY DEF MInv
<1> QED BY <1>1, MigrationsInv, PTL

-----------------------------------------------------------------------------
(* Implementation *)

\* Every step of the upkeep is a step of a migration or none at all.
LEMMA StepMigrates == ASSUME [Next]_vars PROVE [MNext]_mvars
<1>1. ASSUME NEW p \in Processes, Step(p) PROVE [MNext]_mvars
  <2>1. CASE Migrate(p) \/ CommitBackfills(p)
    BY <2>1 DEF Migrate, CommitBackfills, MStep, MNext
  <2>2. CASE Die(p)
    BY <2>2 DEF Die, MNext
  <2>3. CASE RetentionFails(p)
    BY <2>3 DEF RetentionFails, At, MNext
  <2>4. CASE ~Migrate(p) /\ ~CommitBackfills(p) /\ ~Die(p) /\ ~RetentionFails(p)
    BY <1>1, <2>4 DEF Step, Start, StartLost, EndOk, EndFailed, Accrue, AccrueFails, SyncModel,
       Plan, ArchiveRow, CloseArchive, Strip, Delete, SetOwner, Refresh, Touch, MayWrite, Fails
  <2> QED BY <2>1, <2>2, <2>3, <2>4
<1>2. CASE Tick
  BY <1>2 DEF Tick
<1>3. CASE UNCHANGED vars
  BY <1>3 DEF vars
<1> QED BY <1>1, <1>2, <1>3 DEF Next

\* The upkeep implements the migrations.
THEOREM UpkeepMigrates == Spec => MSpec
<1>1. Init => MInit
  BY DEF Init
<1>2. [Next]_vars => [MNext]_mvars
  BY StepMigrates
<1> QED BY <1>1, <1>2, PTL DEF Spec, MSpec

\* Whoever works on the database finds all columns and tables, while others
\* still migrate, work or die (init_schema and every statement after it).
THEOREM UpkeepComplete == Spec => []OpenIsComplete
BY UpkeepMigrates, MigrationsComplete, PTL

-----------------------------------------------------------------------------
(* Retention *)

\* The spans that a run of retention is about to change.
Targets(p) == job[p].strip \cup job[p].delete

\* What a run of retention has read is in its lines, unless it was archived
\* before; once the file is closed, all of it is in the archive.
ArchiveAhead ==
  \A p \in Processes :
    /\ At(p, "archive") => /\ Targets(p) \subseteq Stored
                           /\ \A s \in Targets(p) \ job[p].todo : s \in job[p].lines \cup archived
    /\ At(p, "strip") \/ At(p, "delete") => Targets(p) \subseteq archived

RowsOK == rows \in [Spans -> SpanRows \cup {NoSpan}]

\* Work is done on an open database only.
JobsOK ==
  /\ job = [p \in Processes |-> job[p]]
  /\ \A p \in Processes : job[p] # NoJob => mpc[p] = "open"
  /\ \A p \in Processes :
       At(p, "archive") \/ At(p, "strip") \/ At(p, "delete") => job[p] \in Retentions

EInv == RowsOK /\ JobsOK /\ ArchiveAhead /\ NothingErased

Phases == {"archive", "strip", "delete"}

\* The day, the time and the definition of the model keep their types.
ClockOK == today \in Days /\ clock \in Times /\ model \in Models

LEMMA RowType ==
  ASSUME RowsOK, NEW s \in Recorded
  PROVE  /\ s \in Spans /\ rows[s] \in SpanRows /\ rows[s].day \in Days /\ rows[s].time \in Times
         /\ rows[s].is \in {"lost", "kept", "deleted"} /\ rows[s].text \in BOOLEAN
         /\ rows[s].paid \in BOOLEAN /\ rows[s].resolved \in BOOLEAN
         /\ rows[s].billable \in BOOLEAN /\ rows[s].costed \in BOOLEAN
BY DEF RowsOK, Recorded, SpanRows

\* What the statements on a row do to it.
Fields(row, old) ==
  /\ row \in SpanRows
  /\ row.day = old.day /\ row.time = old.time /\ row.parent = old.parent
  /\ row.paid = old.paid /\ row.resolved = old.resolved

LEMMA RowUnmarked ==
  ASSUME NEW row \in SpanRows
  PROVE  LET new == [row EXCEPT !.billable = FALSE]
         IN  /\ Fields(new, row) /\ new.billable = FALSE
             /\ new.is = row.is /\ new.text = row.text /\ new.costed = row.costed
BY DEF Fields, SpanRows

LEMMA RowEnded ==
  ASSUME NEW row \in SpanRows
  PROVE  LET new == [row EXCEPT !.text = TRUE, !.costed = TRUE]
         IN  /\ Fields(new, row) /\ new.text = TRUE /\ new.costed = TRUE
             /\ new.is = row.is /\ new.billable = row.billable
BY DEF Fields, SpanRows

LEMMA RowStripped ==
  ASSUME NEW row \in SpanRows
  PROVE  LET new == [row EXCEPT !.text = FALSE]
         IN  /\ Fields(new, row) /\ new.text = FALSE
             /\ new.is = row.is /\ new.costed = row.costed /\ new.billable = row.billable
BY DEF Fields, SpanRows

LEMMA RowDeleted ==
  ASSUME NEW row \in SpanRows
  PROVE  LET new == [row EXCEPT !.is = "deleted"]
         IN  /\ Fields(new, row) /\ new.is = "deleted"
             /\ new.text = row.text /\ new.costed = row.costed /\ new.billable = row.billable
BY DEF Fields, SpanRows

\* Nothing is erased at the start.
LEMMA OldCallType == \A paid \in BOOLEAN : OldCall(paid) \in SpanRows
BY UpkeepAssumption DEF OldCall, OldMark, SpanRows, Days, Times

\* The rows of the databases to start from.
LEMMA InitRows ==
  ASSUME Init
  PROVE  /\ bounds \in Bounds /\ bounds.old \subseteq Spans /\ (~bounds.paid => bounds.flat)
         /\ RowsOK /\ Recorded = bounds.old
         /\ \E paid \in [bounds.old -> IF bounds.flat THEN BOOLEAN ELSE {TRUE}] :
              /\ \A s \in bounds.old : rows[s] = OldCall(paid[s]) /\ paid[s] \in BOOLEAN
              /\ \E mark \in IF bounds.old = {} THEN {FALSE}
                             ELSE {OldMark(CostFlag, paid[s]) : s \in bounds.old} :
                   ledger = [d \in Days |-> IF d = 0
                                            THEN [cost |-> Cardinality(bounds.old),
                                                  billable |-> mark]
                                            ELSE [cost |-> 0, billable |-> FALSE]]
<1>1. /\ bounds \in Bounds /\ bounds.old \subseteq Spans /\ (~bounds.paid => bounds.flat)
  BY UpkeepAssumption DEF Init, Bounds
<1>2. PICK paid \in [bounds.old -> IF bounds.flat THEN BOOLEAN ELSE {TRUE}] :
        /\ rows = [s \in Spans |-> IF s \in bounds.old THEN OldCall(paid[s]) ELSE NoSpan]
        /\ \E mark \in IF bounds.old = {} THEN {FALSE}
                       ELSE {OldMark(CostFlag, paid[s]) : s \in bounds.old} :
             ledger = [d \in Days |-> IF d = 0
                                      THEN [cost |-> Cardinality(bounds.old), billable |-> mark]
                                      ELSE [cost |-> 0, billable |-> FALSE]]
  BY DEF Init
<1>3. \A s \in bounds.old : paid[s] \in BOOLEAN
  OBVIOUS
<1>4. \A s \in bounds.old : OldCall(paid[s]) \in SpanRows /\ OldCall(paid[s]) # NoSpan
  BY <1>3, OldCallType, NoSpanAssumption
<1>5. RowsOK /\ Recorded = bounds.old
  BY <1>1, <1>2, <1>4 DEF RowsOK, Recorded
<1>6. \A s \in bounds.old : rows[s] = OldCall(paid[s])
  BY <1>1, <1>2
<1> QED BY <1>1, <1>2, <1>3, <1>5, <1>6

LEMMA EInvInit == Init => EInv
<1> SUFFICES ASSUME Init PROVE EInv
  OBVIOUS
<1>1. RowsOK
  BY InitRows
<1>2. JobsOK /\ ArchiveAhead
  BY DEF Init, MInit, JobsOK, ArchiveAhead, At
<1>3. NothingErased
  <2>1. PICK paid \in [bounds.old -> IF bounds.flat THEN BOOLEAN ELSE {TRUE}] :
          \A s \in bounds.old : rows[s] = OldCall(paid[s])
    BY InitRows
  <2>2. Recorded = bounds.old
    BY InitRows
  <2>3. \A s \in Recorded : rows[s].is = "kept" /\ rows[s].text
    <3>1. \A b \in BOOLEAN : OldCall(b).is = "kept" /\ OldCall(b).text = TRUE
      BY DEF OldCall
    <3>2. \A s \in bounds.old : paid[s] \in BOOLEAN
      OBVIOUS
    <3> QED BY <2>1, <2>2, <3>1, <3>2
  <2> QED BY <2>3 DEF NothingErased, Stored
<1> QED BY <1>1, <1>2, <1>3 DEF EInv

\* Steps that begin and continue no retention and erase nothing.
LEMMA EInvFrame ==
  ASSUME EInv, RowsOK', Stored \subseteq Stored', archived \subseteq archived',
         \A s \in Stored' : rows'[s].is = "deleted" \/ ~rows'[s].text =>
           s \in Stored /\ (rows[s].is = "deleted" \/ ~rows[s].text),
         job' = [p \in Processes |-> job'[p]],
         \A p \in Processes : job'[p] # NoJob => mpc'[p] = "open",
         \A p \in Processes : \A l \in Phases : At(p, l)' => At(p, l) /\ job'[p] = job[p]
  PROVE  EInv'
<1> USE DEF EInv, Phases
<1>1. NothingErased'
  BY DEF NothingErased
<1>2. JobsOK'
  BY DEF JobsOK
<1>3. ArchiveAhead'
  BY DEF ArchiveAhead, Targets
<1> QED BY <1>1, <1>2, <1>3

\* The same for steps that leave the rows alone.
LEMMA EInvQuiet ==
  ASSUME EInv, rows' = rows, archived \subseteq archived',
         job' = [p \in Processes |-> job'[p]],
         \A p \in Processes : job'[p] # NoJob => mpc'[p] = "open",
         \A p \in Processes : \A l \in Phases : At(p, l)' => At(p, l) /\ job'[p] = job[p]
  PROVE  EInv'
<1>1. RowsOK' /\ Stored' = Stored
  BY DEF EInv, RowsOK, Stored, Recorded
<1> QED BY <1>1, EInvFrame

\* Opening the database is not retention.
LEMMA EInvMigrate ==
  ASSUME MTypeOK, EInv, NEW p \in Processes, Migrate(p)
  PROVE  EInv'
<1>1. rows' = rows /\ archived' = archived /\ job' = job
  BY DEF Migrate, records
<1>2. \A q \in Processes : mpc[q] = "open" => mpc'[q] = "open"
  BY DEF Migrate, Advance, Connect, Check, Alter, Backfill, Create, Ready, Refused,
         Disconnect, MGoto, MTypeOK
<1> QED BY <1>1, <1>2, EInvQuiet DEF EInv, JobsOK, At, Phases

\* A backfill changes marks only.
LEMMA MendSpansIs ==
  ASSUME RowsOK, rows' = rows \/ MendSpans
  PROVE  /\ RowsOK' /\ Recorded' = Recorded
         /\ \A s \in Recorded :
              rows'[s] = rows[s] \/ rows'[s] = [rows[s] EXCEPT !.billable = FALSE]
<1> USE NoSpanAssumption
<1>1. \A s \in Recorded : [rows[s] EXCEPT !.billable = FALSE] \in SpanRows
  BY RowUnmarked DEF RowsOK, Recorded, Fields
<1>2. CASE rows' = rows
  BY <1>2 DEF RowsOK, Recorded
<1>3. CASE MendSpans
  BY <1>1, <1>3 DEF RowsOK, Recorded, MendSpans, Kept
<1> QED BY <1>2, <1>3

LEMMA EInvCommit ==
  ASSUME MTypeOK, EInv, NEW p \in Processes, CommitBackfills(p)
  PROVE  EInv'
<1>1. archived' = archived /\ job' = job /\ (rows' = rows \/ MendSpans)
  BY DEF CommitBackfills
<1>2. \A q \in Processes : mpc[q] = "open" => mpc'[q] = "open"
  BY DEF CommitBackfills, Commit, MGoto, MTypeOK
<1>3. RowsOK' /\ Recorded' = Recorded
  BY <1>1, MendSpansIs DEF EInv
<1>4. \A s \in Recorded : rows'[s].is = rows[s].is /\ rows'[s].text = rows[s].text
  BY <1>1, MendSpansIs, RowUnmarked DEF EInv, RowsOK, Recorded
<1>5. Stored' = Stored
  BY <1>3, <1>4 DEF Stored
<1>6. \A s \in Stored' : rows'[s].is = rows[s].is /\ rows'[s].text = rows[s].text
  BY <1>4, <1>5 DEF Stored
<1> QED BY <1>1, <1>2, <1>3, <1>5, <1>6, EInvFrame DEF EInv, JobsOK, At, Phases

\* Nor are a process that ends and a retention that fails: it just goes.
LEMMA EInvEnd ==
  ASSUME MTypeOK, EInv, NEW p \in Processes, Die(p) \/ RetentionFails(p)
  PROVE  EInv'
<1>1. rows' = rows /\ archived \subseteq archived'
  BY DEF Die, RetentionFails, records
<1>2. job' = [job EXCEPT ![p] = NoJob] /\ mpc' = [mpc EXCEPT ![p] = "down"]
  BY DEF Die, RetentionFails, Disconnect, MGoto, End, Begin
<1> QED BY <1>1, <1>2, EInvQuiet DEF EInv, JobsOK, At, Phases, MTypeOK

\* Calls that end, bookings and the catalogue begin work of another kind.
LEMMA EInvOther ==
  ASSUME EInv, NEW p \in Processes,
         \/ EndFailed(p) \/ Accrue(p) \/ AccrueFails(p) \/ SyncModel(p)
         \/ SetOwner(p) \/ Refresh(p) \/ Touch(p)
  PROVE  EInv'
<1>1. rows' = rows /\ archived' = archived /\ mpc' = mpc /\ mpc[p] = "open"
  BY DEF EndFailed, Accrue, AccrueFails, SyncModel, SetOwner, Refresh, Touch, records, MayWrite,
         Fails, mvars, Idle, At
<1>2. \/ job' = job
      \/ job' = [job EXCEPT ![p] = NoJob]
      \/ \E d : job' = [job EXCEPT ![p] = [step |-> "touch", last |-> d]]
  BY DEF EndFailed, Accrue, AccrueFails, SyncModel, SetOwner, Refresh, Touch, records, End, Begin
<1> QED BY <1>1, <1>2, EInvQuiet DEF EInv, JobsOK, At, Phases

\* A new call is kept with its text, or lost.
LEMMA StartIs ==
  ASSUME ClockOK, NEW p \in Processes, Start(p) \/ StartLost(p)
  PROVE  \E s \in Spans \ Recorded, row \in SpanRows :
           /\ rows' = [rows EXCEPT ![s] = row]
           /\ job' = [job EXCEPT ![p] = [step |-> "end", span |-> s]]
           /\ row.day = today /\ row.time = clock /\ row.is \in {"kept", "lost"}
           /\ (row.is = "kept" => row.text)
           /\ row.paid = model.paid /\ row.resolved = model.billable
           /\ row.billable = model.billable
<1>1. \A is \in {"kept", "lost"}, parent \in Spans \cup {NoSpan} :
        LET row == NewCall(is, parent)
        IN  /\ row \in SpanRows
            /\ row.day = today /\ row.time = clock /\ row.is \in {"kept", "lost"}
            /\ (row.is = "kept" => row.text)
            /\ row.paid = model.paid /\ row.resolved = model.billable
            /\ row.billable = model.billable
  BY DEF ClockOK, Models, NewCall, SpanRows
<1>2. CASE Start(p)
  <2>1. PICK s \in Spans \ Recorded, parent \in Kept \cup {NoSpan} :
          /\ rows' = [rows EXCEPT ![s] = NewCall("kept", parent)]
          /\ job' = [job EXCEPT ![p] = [step |-> "end", span |-> s]]
    BY <1>2 DEF Start, Begin
  <2>2. parent \in Spans \cup {NoSpan}
    BY DEF Kept, Recorded
  <2> QED BY <1>1, <2>1, <2>2
<1>3. CASE StartLost(p)
  BY <1>1, <1>3 DEF StartLost, Begin
<1> QED BY <1>2, <1>3

LEMMA EInvStart ==
  ASSUME EInv, ClockOK, NEW p \in Processes, Start(p) \/ StartLost(p)
  PROVE  EInv'
<1>1. PICK s \in Spans \ Recorded, row \in SpanRows :
        /\ rows' = [rows EXCEPT ![s] = row]
        /\ job' = [job EXCEPT ![p] = [step |-> "end", span |-> s]]
        /\ row.is \in {"kept", "lost"} /\ (row.is = "kept" => row.text)
  BY StartIs
<1>2. archived' = archived /\ mpc' = mpc /\ mpc[p] = "open"
  BY DEF Start, StartLost, MayWrite, mvars, Idle
<1>3. RowsOK'
  BY <1>1 DEF EInv, RowsOK
<1>4. rows'[s] = row /\ \A t \in Spans : t # s => rows'[t] = rows[t]
  BY <1>1 DEF EInv, RowsOK
<1>5. Stored \subseteq Stored' /\ \A t \in Stored' : t # s => t \in Stored
  BY <1>1, <1>4 DEF Stored, Recorded
<1>6. \A t \in Stored' : rows'[t].is = "deleted" \/ ~rows'[t].text =>
        t \in Stored /\ (rows[t].is = "deleted" \/ ~rows[t].text)
  BY <1>1, <1>4, <1>5 DEF Stored, Recorded
<1>7. /\ job' = [q \in Processes |-> job'[q]]
      /\ \A q \in Processes : job'[q] # NoJob => mpc'[q] = "open"
      /\ \A q \in Processes : \A l \in Phases : At(q, l)' => At(q, l) /\ job'[q] = job[q]
  BY <1>1, <1>2 DEF EInv, JobsOK, At, Phases
<1> QED BY <1>2, <1>3, <1>5, <1>6, <1>7, EInvFrame

\* What ends has its text.
LEMMA EndOkIs ==
  ASSUME RowsOK, NEW p \in Processes, EndOk(p)
  PROVE  /\ RowsOK' /\ Recorded' = Recorded
         /\ \A t \in Recorded :
              \/ rows'[t] = rows[t]
              \/ rows[t].is = "kept" /\ rows'[t] = [rows[t] EXCEPT !.text = TRUE, !.costed = TRUE]
<1> USE NoSpanAssumption
<1>1. CASE rows' = rows
  BY <1>1 DEF RowsOK, Recorded
<1>2. CASE rows' # rows
  <2> DEFINE s == job[p].span
  <2>1. s \in Kept
        /\ rows' = [rows EXCEPT ![s] = [rows[s] EXCEPT !.text = TRUE, !.costed = TRUE]]
    BY <1>2 DEF EndOk, RowsOK, Kept, Recorded
  <2> HIDE DEF s
  <2>2. s \in Recorded /\ rows[s].is = "kept"
    BY <2>1 DEF Kept
  <2>3. \A t \in Recorded : [rows[t] EXCEPT !.text = TRUE, !.costed = TRUE] \in SpanRows
    BY RowEnded DEF RowsOK, Recorded, Fields
  <2> QED BY <2>1, <2>2, <2>3 DEF RowsOK, Recorded
<1> QED BY <1>1, <1>2

\* A plan changes nothing, and all of it is still to be archived.
LEMMA EInvPlan ==
  ASSUME EInv, NEW p \in Processes, Plan(p)
  PROVE  EInv'
<1> USE DEF EInv
<1>1. rows' = rows /\ archived' = archived /\ mpc' = mpc /\ mpc[p] = "open" /\ job[p] = NoJob
  BY DEF Plan, records, mvars, Idle
<1>2. CASE job' = job
  BY <1>1, <1>2, EInvQuiet DEF JobsOK, At, Phases
<1>3. CASE job' # job
  <2>1. PICK strip \in SUBSET Stored, delete \in SUBSET Stored :
          job' = [job EXCEPT ![p] =
                   [step |-> "archive", strip |-> strip, delete |-> delete,
                    todo |-> strip \cup delete, lines |-> {}]]
    BY <1>3 DEF Plan, Begin, OlderThan, OldRows, Kept, Stored
  <2>2. job'[p] = [step |-> "archive", strip |-> strip, delete |-> delete,
                   todo |-> strip \cup delete, lines |-> {}]
    BY <2>1 DEF JobsOK
  <2>3. job'[p] \in Retentions
    BY <2>2 DEF Retentions, Stored, Recorded
  <2>4. \A q \in Processes \ {p} : job'[q] = job[q]
    BY <2>1 DEF JobsOK
  <2>5. JobsOK'
    BY <1>1, <2>1, <2>3, <2>4 DEF JobsOK, At
  <2>6. ArchiveAhead'
    BY <1>1, <2>2, <2>4 DEF ArchiveAhead, Targets, At, Stored, Recorded
  <2>7. RowsOK' /\ NothingErased'
    BY <1>1 DEF RowsOK, NothingErased, Stored, Recorded
  <2> QED BY <2>5, <2>6, <2>7
<1> QED BY <1>2, <1>3

\* A row that is read has a line, or its text was archived already.
LEMMA EInvArchiveRow ==
  ASSUME EInv, NEW p \in Processes, ArchiveRow(p)
  PROVE  EInv'
<1> USE DEF EInv
<1>1. rows' = rows /\ archived' = archived /\ mpc' = mpc /\ At(p, "archive")
  BY DEF ArchiveRow, records, mvars
<1>2. PICK s \in job[p].todo :
        job' = [job EXCEPT ![p].todo = @ \ {s}, ![p].lines = @ \cup Lines(p, s)]
  BY DEF ArchiveRow
<1>3. job[p] \in Retentions
  BY <1>1 DEF JobsOK
<1>4. job'[p] = [job[p] EXCEPT !.todo = @ \ {s}, !.lines = @ \cup Lines(p, s)]
  BY <1>2 DEF JobsOK
<1>5. \A q \in Processes \ {p} : job'[q] = job[q]
  BY <1>2 DEF JobsOK
<1>6. /\ job'[p] \in Retentions /\ job'[p].step = job[p].step
      /\ job'[p].strip = job[p].strip /\ job'[p].delete = job[p].delete
      /\ job'[p].todo = job[p].todo \ {s} /\ job'[p].lines = job[p].lines \cup Lines(p, s)
  <2>1. Lines(p, s) \subseteq Spans
    BY <1>3 DEF Retentions, Lines
  <2> QED BY <1>3, <1>4, <2>1 DEF Retentions
<1>7. s \in Stored => s \in Lines(p, s) \cup archived
  <2>1. CASE s \in Kept /\ rows[s].text
    BY <2>1 DEF Lines
  <2>2. CASE s \in Stored /\ ~(s \in Kept /\ rows[s].text)
    <3>1. rows[s].is = "deleted" \/ ~rows[s].text
      BY <2>2, RowType DEF Stored, Kept
    <3> QED BY <2>2, <3>1 DEF NothingErased
  <2> QED BY <2>1, <2>2
<1>8. JobsOK'
  BY <1>1, <1>2, <1>5, <1>6 DEF JobsOK, At
<1>9. ArchiveAhead'
  BY <1>1, <1>5, <1>6, <1>7 DEF ArchiveAhead, Targets, At, Stored, Recorded
<1>10. RowsOK' /\ NothingErased'
  BY <1>1 DEF RowsOK, NothingErased, Stored, Recorded
<1> QED BY <1>8, <1>9, <1>10

\* Closed, the file has all of them.
LEMMA EInvCloseArchive ==
  ASSUME EInv, NEW p \in Processes, CloseArchive(p)
  PROVE  EInv'
<1> USE DEF EInv
<1>1. /\ rows' = rows /\ archived' = archived \cup job[p].lines /\ mpc' = mpc
      /\ At(p, "archive") /\ job[p].todo = {}
  BY DEF CloseArchive, mvars
<1>2. job' = [job EXCEPT ![p].step = "strip"]
  BY DEF CloseArchive
<1>3. job[p] \in Retentions
  BY <1>1 DEF JobsOK
<1>4. job'[p] = [job[p] EXCEPT !.step = "strip"]
  BY <1>2 DEF JobsOK
<1>5. \A q \in Processes \ {p} : job'[q] = job[q]
  BY <1>2 DEF JobsOK
<1>6. /\ job'[p] \in Retentions /\ job'[p].step = "strip"
      /\ job'[p].strip = job[p].strip /\ job'[p].delete = job[p].delete
  BY <1>3, <1>4 DEF Retentions
<1>7. JobsOK'
  BY <1>1, <1>2, <1>5, <1>6 DEF JobsOK, At
<1>8. ArchiveAhead'
  BY <1>1, <1>5, <1>6 DEF ArchiveAhead, Targets, At, Stored, Recorded
<1>9. RowsOK' /\ NothingErased'
  BY <1>1 DEF RowsOK, NothingErased, Stored, Recorded
<1> QED BY <1>7, <1>8, <1>9

LEMMA StripIs ==
  ASSUME RowsOK, NEW ids,
         rows' = [s \in Spans |-> IF s \in ids \cap Kept
                                  THEN [rows[s] EXCEPT !.text = FALSE] ELSE rows[s]]
  PROVE  /\ RowsOK' /\ Recorded' = Recorded
         /\ \A s \in Recorded : \/ rows'[s] = rows[s]
                                \/ s \in ids \cap Kept /\ rows'[s] = [rows[s] EXCEPT !.text = FALSE]
<1> USE NoSpanAssumption
<1>1. \A s \in Recorded : [rows[s] EXCEPT !.text = FALSE] \in SpanRows
  BY RowStripped DEF RowsOK, Recorded, Fields
<1> QED BY <1>1 DEF RowsOK, Recorded, Kept

LEMMA DeleteIs ==
  ASSUME RowsOK, NEW ids,
         rows' = [s \in Spans |-> IF s \in ids \cap Kept
                                  THEN [rows[s] EXCEPT !.is = "deleted"] ELSE rows[s]]
  PROVE  /\ RowsOK' /\ Recorded' = Recorded
         /\ \A s \in Recorded : \/ rows'[s] = rows[s]
                                \/ s \in ids \cap Kept /\ rows'[s] = [rows[s] EXCEPT !.is = "deleted"]
<1> USE NoSpanAssumption
<1>1. \A s \in Recorded : [rows[s] EXCEPT !.is = "deleted"] \in SpanRows
  BY RowDeleted DEF RowsOK, Recorded, Fields
<1> QED BY <1>1 DEF RowsOK, Recorded, Kept

\* Stripped is only what is archived.
LEMMA EInvStrip ==
  ASSUME EInv, NEW p \in Processes, Strip(p)
  PROVE  EInv'
<1> USE NoSpanAssumption DEF EInv
<1>1. archived' = archived /\ mpc' = mpc /\ At(p, "strip") /\ job[p] \in Retentions
  BY DEF Strip, MayWrite, mvars, JobsOK
<1>2. rows' = [s \in Spans |-> IF s \in job[p].strip \cap Kept
                               THEN [rows[s] EXCEPT !.text = FALSE] ELSE rows[s]]
  BY DEF Strip
<1>3. job' = [job EXCEPT ![p].step = "delete"]
  BY DEF Strip
<1>4. job'[p] = [job[p] EXCEPT !.step = "delete"]
  BY <1>3 DEF JobsOK
<1>5. \A q \in Processes \ {p} : job'[q] = job[q]
  BY <1>3 DEF JobsOK
<1>6. /\ job'[p] \in Retentions /\ job'[p].step = "delete"
      /\ job'[p].strip = job[p].strip /\ job'[p].delete = job[p].delete
  BY <1>1, <1>4 DEF Retentions
<1>7. /\ RowsOK' /\ Recorded' = Recorded
      /\ \A s \in Recorded : \/ rows'[s] = rows[s]
                             \/ /\ s \in job[p].strip \cap Kept
                                /\ rows'[s] = [rows[s] EXCEPT !.text = FALSE]
  BY <1>2, StripIs
<1>8. \A s \in Recorded : rows'[s].is = rows[s].is
                         /\ (s \notin job[p].strip => rows'[s].text = rows[s].text)
  BY <1>7, RowStripped DEF RowsOK, Recorded
<1>9. Stored' = Stored
  BY <1>7, <1>8 DEF Stored
<1>10. Targets(p) \subseteq archived
  BY <1>1 DEF ArchiveAhead
<1>11. JobsOK'
  BY <1>1, <1>3, <1>5, <1>6 DEF JobsOK, At
<1>12. ArchiveAhead'
  BY <1>1, <1>5, <1>6, <1>9, <1>10 DEF ArchiveAhead, Targets, At
<1>13. NothingErased'
  BY <1>1, <1>8, <1>9, <1>10 DEF NothingErased, Targets, Stored
<1> QED BY <1>7, <1>11, <1>12, <1>13

\* Deleted is only what is archived.
LEMMA EInvDelete ==
  ASSUME EInv, NEW p \in Processes, Delete(p)
  PROVE  EInv'
<1> USE NoSpanAssumption DEF EInv
<1>1. archived' = archived /\ mpc' = mpc /\ At(p, "delete")
  BY DEF Delete, MayWrite, mvars
<1>2. rows' = [s \in Spans |-> IF s \in job[p].delete \cap Kept
                               THEN [rows[s] EXCEPT !.is = "deleted"] ELSE rows[s]]
  BY DEF Delete
<1>3. job' = [job EXCEPT ![p] = NoJob]
  BY DEF Delete, End, Begin
<1>4. /\ RowsOK' /\ Recorded' = Recorded
      /\ \A s \in Recorded : \/ rows'[s] = rows[s]
                             \/ /\ s \in job[p].delete \cap Kept
                                /\ rows'[s] = [rows[s] EXCEPT !.is = "deleted"]
  BY <1>2, DeleteIs
<1>5. \A s \in Recorded : /\ rows'[s].is = "lost" <=> rows[s].is = "lost"
                         /\ rows'[s].text = rows[s].text
                         /\ (s \notin job[p].delete => rows'[s].is = rows[s].is)
  BY <1>4, RowDeleted DEF RowsOK, Recorded, Kept
<1>6. Stored' = Stored
  BY <1>4, <1>5 DEF Stored
<1>7. Targets(p) \subseteq archived
  BY <1>1 DEF ArchiveAhead
<1>8. JobsOK'
  BY <1>1, <1>3 DEF JobsOK, At
<1>9. ArchiveAhead'
  BY <1>1, <1>3, <1>6 DEF ArchiveAhead, Targets, At, JobsOK
<1>10. NothingErased'
  BY <1>1, <1>5, <1>6, <1>7 DEF NothingErased, Targets, Stored
<1> QED BY <1>4, <1>8, <1>9, <1>10

\* What ends keeps its text or gets it.
LEMMA EInvEndOk ==
  ASSUME EInv, NEW p \in Processes, EndOk(p)
  PROVE  EInv'
<1>1. archived' = archived /\ mpc' = mpc /\ At(p, "end")
  BY DEF EndOk, MayWrite, Fails, mvars
<1>2. job' = [job EXCEPT ![p].step = "accrue"]
  BY DEF EndOk
<1>3. /\ RowsOK' /\ Recorded' = Recorded
      /\ \A s \in Recorded :
           \/ rows'[s] = rows[s]
           \/ rows[s].is = "kept" /\ rows'[s] = [rows[s] EXCEPT !.text = TRUE, !.costed = TRUE]
  BY EndOkIs DEF EInv
<1>4. ASSUME NEW s \in Recorded
      PROVE  rows'[s].is = rows[s].is /\ (rows[s].text => rows'[s].text)
  <2>1. rows[s] \in SpanRows
    BY RowType DEF EInv
  <2>2. CASE rows'[s] = [rows[s] EXCEPT !.text = TRUE, !.costed = TRUE]
    <3>1. rows'[s].text = TRUE /\ rows'[s].is = rows[s].is
      BY <2>1, <2>2, RowEnded
    <3> QED BY <3>1
  <2>3. CASE rows'[s] = rows[s]
    BY <2>3
  <2> QED BY <1>3, <2>2, <2>3
<1>5. Stored' = Stored
  BY <1>3, <1>4 DEF Stored
<1>6. \A s \in Stored' : rows'[s].is = "deleted" \/ ~rows'[s].text =>
        s \in Stored /\ (rows[s].is = "deleted" \/ ~rows[s].text)
  BY <1>4, <1>5 DEF Stored
<1>7. job'[p] = [job[p] EXCEPT !.step = "accrue"] /\ \A q \in Processes \ {p} : job'[q] = job[q]
  BY <1>2 DEF EInv, JobsOK
<1>8. \A l \in Phases : ~At(p, l)'
  <2>1. CASE job'[p].step = "accrue"
    BY <2>1 DEF At, Phases
  <2>2. CASE job'[p].step # "accrue"
    BY <1>7, <2>2 DEF At, Phases
  <2> QED BY <2>1, <2>2
<1>9. /\ job' = [q \in Processes |-> job'[q]]
      /\ \A q \in Processes : job'[q] # NoJob => mpc'[q] = "open"
      /\ \A q \in Processes : \A l \in Phases : At(q, l)' => At(q, l) /\ job'[q] = job[q]
  BY <1>1, <1>2, <1>7, <1>8 DEF EInv, JobsOK, At
<1> QED BY <1>1, <1>3, <1>5, <1>6, <1>9, EInvFrame

LEMMA ClockStep == ASSUME ClockOK, [Next]_vars PROVE ClockOK'
<1> USE UpkeepAssumption DEF ClockOK
<1>1. CASE Tick
  BY <1>1 DEF Tick, Days, Times
<1>2. ASSUME NEW p \in Processes, Step(p) PROVE ClockOK'
  <2>1. today' = today /\ clock' = clock
    BY <1>2 DEF Step, Migrate, CommitBackfills, Start, StartLost, EndOk, EndFailed, Accrue,
       AccrueFails, SyncModel, Plan, ArchiveRow, CloseArchive, Strip, Delete, RetentionFails,
       SetOwner, Refresh, Touch, Die, records
  <2>2. model' \in Models
    <3>1. CASE SyncModel(p)
      BY <3>1 DEF SyncModel, Models
    <3>2. CASE CommitBackfills(p)
      BY <3>2 DEF CommitBackfills, MendModel, Models
    <3>3. CASE ~SyncModel(p) /\ ~CommitBackfills(p)
      BY <1>2, <3>3 DEF Step, Migrate, Start, StartLost, EndOk, EndFailed, Accrue,
         AccrueFails, Plan, ArchiveRow, CloseArchive, Strip, Delete, RetentionFails,
         SetOwner, Refresh, Touch, Die, records
    <3> QED BY <3>1, <3>2, <3>3
  <2> QED BY <2>1, <2>2
<1>3. CASE UNCHANGED vars
  BY <1>3 DEF vars, uvars, records
<1> QED BY <1>1, <1>2, <1>3 DEF Next

\* Every step keeps the archive ahead of retention.
LEMMA EInvStep == ASSUME MTypeOK, ClockOK, EInv, [Next]_vars PROVE EInv'
<1>1. ASSUME NEW p \in Processes, Step(p) PROVE EInv'
  BY <1>1, EInvMigrate, EInvCommit, EInvEnd, EInvOther, EInvStart, EInvEndOk, EInvPlan,
     EInvArchiveRow, EInvCloseArchive, EInvStrip, EInvDelete DEF Step
<1>2. CASE Tick
  BY <1>2, EInvQuiet DEF Tick, mvars, EInv, JobsOK, At, Phases
<1>3. CASE UNCHANGED vars
  BY <1>3, EInvQuiet DEF vars, uvars, records, mvars, EInv, JobsOK, At, Phases
<1> QED BY <1>1, <1>2, <1>3 DEF Next

LEMMA ClockInit == Init => ClockOK
BY UpkeepAssumption DEF Init, ClockOK, Days, Times, Models, Bounds, OldMark

\* Retention erases nothing that is not in the archive, however many runs of it
\* overlap, die or fail at the foreign key (retention.apply).
THEOREM UpkeepNothingErased == Spec => []NothingErased
<1>1. Spec => []MTypeOK
  <2>1. MInv => MTypeOK
    BY DEF MInv
  <2> QED BY <2>1, UpkeepMigrates, MigrationsInv, PTL
<1>2. Init => ClockOK /\ EInv
  BY ClockInit, EInvInit
<1>3. MTypeOK /\ ClockOK /\ EInv /\ [Next]_vars => ClockOK' /\ EInv'
  BY ClockStep, EInvStep
<1>4. EInv => NothingErased
  BY DEF EInv
<1> QED BY <1>1, <1>2, <1>3, <1>4, PTL DEF Spec

-----------------------------------------------------------------------------
(* Calls, their days and their marks *)

\* Old rows of a column may hold the default still.
Pending(c) == c \in bare \/ (c \notin has /\ TableOf[c] \in tables)

\* A row from before a moment.
Older(row, d, t) == row.day < d \/ (row.day = d /\ row.time < t)

\* What a process in the middle of its work knows of the rows.
JobFits(j, rs, bk, day, time) ==
  /\ j \in Jobs
  /\ j.step \in {"end", "accrue"} => rs[j.span] # NoSpan /\ bk[j.span] = NoDay
  /\ j.step \in Phases =>
       /\ j.strip \cup j.delete \cup j.lines \subseteq {s \in Spans : rs[s] # NoSpan}
       /\ j.todo \subseteq j.strip \cup j.delete
       /\ \A s \in j.delete : Older(rs[s], day - SpanDays, time)
  /\ j.step = "touch" =>
       \E s \in Spans : rs[s] # NoSpan /\ rs[s].is # "lost" /\ rs[s].day = j.last

Calling(j) == j # NoJob /\ j.step \in {"end", "accrue"}

JobsFit ==
  /\ job \in [Processes -> Jobs \cup {NoJob}]
  /\ \A p \in Processes : job[p] # NoJob => JobFits(job[p], rows, booked, today, clock)
  /\ \A p, q \in Processes :
       p # q /\ Calling(job[p]) /\ Calling(job[q]) => job[p].span # job[q].span

\* A row that is gone was old enough, and a call is booked after it began.  What
\* is billed was never read as anything else.
RowsFit ==
  \A s \in Recorded :
    /\ rows[s].day <= today
    /\ rows[s].is = "deleted" => Older(rows[s], today - SpanDays, clock)
    /\ booked[s] # NoDay => rows[s].day <= booked[s] /\ booked[s] <= today
    /\ rows[s].paid => rows[s].resolved

\* Where the mark of a day comes from: a call, a backfill, or the default that a
\* backfill has still to correct.
MarkFits(d) ==
  \/ \E s \in Booked(d) : rows[s].resolved = ledger[d].billable
  \/ ~ledger[d].billable /\ d \in struck /\ model.everFlat
  \/ ledger[d].billable /\ Booked(d) \subseteq bounds.old /\ Pending(CostFlag)

\* The ledger counts the calls that were booked.
LedgerFits ==
  \A d \in Days :
    /\ ledger[d].cost = Cardinality(Booked(d))
    /\ IF Booked(d) = {} THEN ~ledger[d].billable ELSE MarkFits(d)

\* Marks of the model and of the spans err only towards billed, and only while
\* a backfill is missing or because a call read such a mark.
ModelFits ==
  /\ model.paid => model.billable
  /\ model.billable # model.paid => Pending(ModelFlag)
  /\ ~model.everFlat => model.paid
MarksFit ==
  \A s \in Recorded :
    /\ ~model.everFlat => rows[s].paid
    /\ s \in Kept /\ rows[s].billable # rows[s].paid =>
         ~rows[s].paid /\ (rows[s].resolved \/ (s \in bounds.old /\ Pending(SpanFlag)))

RecordsOK ==
  /\ ledger \in [Days -> LedgerRows] /\ asset \in Assets
  /\ booked \in [Spans -> Days \cup {NoDay}] /\ bounds \in Bounds
  /\ archived \subseteq Recorded /\ struck \subseteq Days
  /\ \A s \in Spans \ Recorded : booked[s] = NoDay
  /\ asset.last # NoDay => \E s \in Stored : rows[s].day = asset.last

CallsInv == RecordsOK /\ JobsFit /\ RowsFit /\ LedgerFits /\ ModelFits /\ MarksFit

-----------------------------------------------------------------------------

LEMMA Settings ==
  /\ LastDay \in Nat /\ SpanDays \in Nat /\ StaleDays \in Nat
  /\ TextDays \in Nat /\ TextDays <= SpanDays
  /\ {SpanFlag, ModelFlag, CostFlag} \subseteq Backfilled
  /\ IsFiniteSet(Spans) /\ NoDay \notin Days /\ (\A d \in Days : d \in Nat)
  /\ \A t \in Times : t \in Nat
BY UpkeepAssumption DEF Days, Times, NoDay

\* What every step keeps of the bounds, and of what is pending unless its
\* backfill is committed.
BoundsKept == bounds' \in Bounds /\ bounds'.old = bounds.old
Waits      == \A c \in Backfilled : Pending(c) => Pending(c)'

LEMMA OneLess ==
  ASSUME bounds \in Bounds,
         NEW b \in {"opens", "calls", "retentions", "refreshes", "owners", "syncs", "faults",
                    "crashes"},
         Once(b)
  PROVE  BoundsKept
<1>1. bounds[b] \in Nat /\ bounds[b] > 0
  BY DEF Once, Bounds
<1>2. bounds[b] - 1 \in Nat
  BY <1>1
<1> QED BY <1>2 DEF Once, Bounds, BoundsKept

LEMMA SameBounds == ASSUME bounds \in Bounds, UNCHANGED bounds PROVE BoundsKept
BY DEF BoundsKept

\* A write that fails costs a fault, or nothing.
LEMMA FailsIs ==
  ASSUME bounds \in Bounds, NEW p \in Processes, Fails(p)
  PROVE  BoundsKept /\ UNCHANGED mvars
BY OneLess, SameBounds DEF Fails

LEMMA Unmigrated == ASSUME UNCHANGED mvars PROVE Waits
BY DEF mvars, Waits, Pending

LEMMA AdvanceWaits ==
  ASSUME NEW p \in Processes, Advance(p) \/ Disconnect(p)
  PROVE  Waits
<1> USE MigrationsAssumption DEF Waits, Pending
<1>1. CASE Connect(p) \/ Check(p) \/ Ready(p) \/ Refused(p) \/ Disconnect(p) \/ Backfill(p)
  BY <1>1 DEF Connect, Check, Ready, Refused, Disconnect, Backfill
<1>2. CASE Alter(p)
  BY <1>2 DEF Alter, View
<1>3. CASE Create(p)
  BY <1>3 DEF Create
<1> QED BY <1>1, <1>2, <1>3 DEF Advance

LEMMA CommitWaits ==
  ASSUME NEW p \in Processes, Commit(p), NEW c \in Backfilled, Pending(c)
  PROVE  Pending(c)' \/ c \in Mended(p)
BY DEF Commit, Pending, Mended

\* What is pending, nobody has repaired.
LEMMA PendingIs ==
  ASSUME BackfillKept, NEW c \in Backfilled, Pending(c)
  PROVE  c \in Unrepaired
BY MigrationsAssumption DEF BackfillKept, Unrepaired, Pending

\* The moment does not go back.
Later == /\ today' \in Days /\ clock' \in Times
         /\ today < today' \/ (today' = today /\ clock <= clock')

LEMMA SameMoment == ASSUME ClockOK, UNCHANGED <<today, clock>> PROVE Later
BY Settings DEF ClockOK, Later

LEMMA OlderStays ==
  ASSUME ClockOK, Later, NEW row, row.day \in Days, row.time \in Times,
         Older(row, today - SpanDays, clock)
  PROVE  Older(row, today' - SpanDays, clock')
BY Settings DEF ClockOK, Later, Older

\* What is recorded stays recorded, with its moment and what it cost; what was
\* stored is not lost.
RowsGrow ==
  \A s \in Recorded :
    /\ rows'[s] # NoSpan /\ rows'[s].day = rows[s].day /\ rows'[s].time = rows[s].time
    /\ rows'[s].paid = rows[s].paid /\ rows'[s].resolved = rows[s].resolved
    /\ rows[s].is # "lost" => rows'[s].is # "lost"

LEMMA FitsStays ==
  ASSUME ClockOK, RowsOK, RowsGrow, Later,
         NEW j, JobFits(j, rows, booked, today, clock),
         Calling(j) => booked'[j.span] = booked[j.span], j # NoJob
  PROVE  JobFits(j, rows', booked', today', clock')
<1>1. j \in Jobs
  BY DEF JobFits
<1>2. CASE j.step \in {"end", "accrue"}
  <2>1. j.span \in Recorded
    BY <1>1, <1>2 DEF JobFits, Jobs, Retentions, Recorded
  <2> QED BY <1>1, <1>2, <2>1 DEF JobFits, RowsGrow, Phases, Calling
<1>3. CASE j.step \in Phases
  <2>1. /\ j.strip \cup j.delete \cup j.lines \subseteq Recorded
        /\ j.todo \subseteq j.strip \cup j.delete
        /\ \A s \in j.delete : Older(rows[s], today - SpanDays, clock)
    BY <1>3 DEF JobFits, Recorded
  <2>2. j.strip \cup j.delete \cup j.lines \subseteq {s \in Spans : rows'[s] # NoSpan}
    BY <2>1 DEF RowsGrow, Recorded
  <2>3. ASSUME NEW s \in j.delete
        PROVE  Older(rows'[s], today' - SpanDays, clock')
    <3>1. s \in Recorded /\ rows'[s].day = rows[s].day /\ rows'[s].time = rows[s].time
      BY <2>1, <2>3 DEF RowsGrow
    <3>2. Older(rows[s], today' - SpanDays, clock')
      BY <2>1, <3>1, RowType, OlderStays
    <3> QED BY <3>1, <3>2 DEF Older
  <2>4. j.step \notin {"end", "accrue"} /\ j.step # "touch"
    BY <1>3 DEF Phases
  <2> QED BY <1>1, <2>1, <2>2, <2>3, <2>4 DEF JobFits
<1>4. CASE j.step = "touch"
  <2>1. PICK s \in Spans : rows[s] # NoSpan /\ rows[s].is # "lost" /\ rows[s].day = j.last
    BY <1>4 DEF JobFits
  <2>2. rows'[s] # NoSpan /\ rows'[s].is # "lost" /\ rows'[s].day = j.last
    BY <2>1 DEF RowsGrow, Recorded
  <2>3. "touch" \notin Phases /\ "touch" \notin {"end", "accrue"}
    BY DEF Phases
  <2> QED BY <1>1, <1>4, <2>2, <2>3 DEF JobFits
<1>5. j.step \in {"end", "accrue", "touch"} \cup Phases
  BY <1>1 DEF Jobs, Retentions, Phases
<1> QED BY <1>2, <1>3, <1>4, <1>5

\* One process goes on to the job j.
LEMMA JobsMove ==
  ASSUME ClockOK, RowsOK, JobsFit, RowsGrow, Later,
         NEW p \in Processes, NEW j, job' = [job EXCEPT ![p] = j],
         j = NoJob \/ JobFits(j, rows', booked', today', clock'),
         \A q \in Processes : q # p /\ Calling(job[q]) =>
            /\ booked'[job[q].span] = booked[job[q].span]
            /\ Calling(j) => job[q].span # j.span
  PROVE  JobsFit'
<1>1. /\ job'[p] = j /\ \A q \in Processes : q # p => job'[q] = job[q]
      /\ job \in [Processes -> Jobs \cup {NoJob}]
  BY DEF JobsFit
<1>2. j \in Jobs \cup {NoJob}
  BY DEF JobFits
<1>3. job' \in [Processes -> Jobs \cup {NoJob}]
  BY <1>1, <1>2
<1>4. ASSUME NEW q \in Processes, job'[q] # NoJob
      PROVE  JobFits(job'[q], rows', booked', today', clock')
  <2>1. CASE q = p
    BY <1>1, <1>4, <2>1
  <2>2. CASE q # p
    <3>1. job'[q] = job[q] /\ JobFits(job[q], rows, booked, today, clock)
      BY <1>1, <1>4, <2>2 DEF JobsFit
    <3>2. Calling(job[q]) => booked'[job[q].span] = booked[job[q].span]
      BY <2>2
    <3> QED BY <1>4, <3>1, <3>2, FitsStays
  <2> QED BY <2>1, <2>2
<1>5. ASSUME NEW q \in Processes, NEW r \in Processes, q # r,
             Calling(job'[q]), Calling(job'[r])
      PROVE  job'[q].span # job'[r].span
  BY <1>1, <1>5 DEF JobsFit
<1> QED BY <1>3, <1>4, <1>5 DEF JobsFit

\* No row that has been booked comes or goes.
LEMMA LedgerStays ==
  ASSUME LedgerFits, RowsGrow, UNCHANGED <<ledger, booked, struck>>, bounds'.old = bounds.old,
         model.everFlat => model'.everFlat, Pending(CostFlag) => Pending(CostFlag)',
         \A s \in Recorded' \ Recorded : booked[s] = NoDay
  PROVE  LedgerFits'
<1>1. ASSUME NEW d \in Days
      PROVE  Booked(d)' = Booked(d) /\ \A s \in Booked(d) : rows'[s].resolved = rows[s].resolved
  <2>1. Recorded \subseteq Recorded'
    BY DEF RowsGrow, Recorded
  <2>2. d # NoDay
    BY Settings
  <2>3. Booked(d)' = {s \in Recorded' : booked[s] = d}
    BY DEF Booked
  <2>4. Booked(d)' = Booked(d)
    BY <2>1, <2>2, <2>3 DEF Booked
  <2> QED BY <2>4 DEF Booked, RowsGrow
<1>2. ASSUME NEW d \in Days
      PROVE  /\ ledger'[d].cost = Cardinality(Booked(d)')
             /\ IF Booked(d)' = {} THEN ~ledger'[d].billable ELSE MarkFits(d)'
  <2>1. /\ ledger[d].cost = Cardinality(Booked(d))
        /\ IF Booked(d) = {} THEN ~ledger[d].billable ELSE MarkFits(d)
    BY DEF LedgerFits
  <2>2. MarkFits(d) => MarkFits(d)'
    BY <1>1 DEF MarkFits
  <2> QED BY <1>1, <2>1, <2>2
<1> QED BY <1>2 DEF LedgerFits

\* Nor are the definitions or the marks of the rows touched.
LEMMA MarksStay ==
  ASSUME ModelFits, MarksFit, RowsGrow, Waits, UNCHANGED model, bounds'.old = bounds.old,
         Recorded' = Recorded,
         \A s \in Recorded : rows'[s].is = "kept" => rows[s].is = "kept"
                                                     /\ rows'[s].billable = rows[s].billable
  PROVE  ModelFits' /\ MarksFit'
<1>1. Pending(SpanFlag) => Pending(SpanFlag)'
  BY Settings DEF Waits
<1>2. Pending(ModelFlag) => Pending(ModelFlag)'
  BY Settings DEF Waits
<1>3. ModelFits'
  BY <1>2 DEF ModelFits
<1>4. ASSUME NEW s \in Recorded
      PROVE  /\ ~model'.everFlat => rows'[s].paid
             /\ s \in Kept' /\ rows'[s].billable # rows'[s].paid =>
                  /\ ~rows'[s].paid
                  /\ rows'[s].resolved \/ (s \in bounds'.old /\ Pending(SpanFlag)')
  <2>1. rows'[s].paid = rows[s].paid /\ rows'[s].resolved = rows[s].resolved
    BY DEF RowsGrow
  <2>2. s \in Kept' => s \in Kept /\ rows'[s].billable = rows[s].billable
    BY DEF Kept
  <2> QED BY <1>1, <2>1, <2>2 DEF MarksFit
<1> QED BY <1>3, <1>4 DEF MarksFit

\* A step that neither records nor books a call, nor changes a definition.
LEMMA RowsCalls ==
  ASSUME ClockOK, RowsOK, CallsInv, RowsGrow, Recorded' = Recorded, Waits, BoundsKept,
         UNCHANGED <<ledger, booked, today, clock, struck, model>>,
         \A s \in Recorded :
           /\ rows'[s].is = "kept" => rows[s].is = "kept" /\ rows'[s].billable = rows[s].billable
           /\ rows'[s].is = "deleted" => \/ rows[s].is = "deleted"
                                         \/ Older(rows[s], today - SpanDays, clock),
         NEW p \in Processes, NEW j, job' = [job EXCEPT ![p] = j],
         j = NoJob \/ JobFits(j, rows, booked, today, clock),
         Calling(j) => Calling(job[p]) /\ j.span = job[p].span,
         archived' \subseteq Recorded, asset' \in Assets,
         asset'.last # NoDay => \E s \in Stored : rows[s].day = asset'.last
  PROVE  CallsInv'
<1>1. Later
  BY SameMoment
<1>2. JobsFit'
  <2>1. \A q \in Processes : q # p /\ Calling(job[q]) =>
          /\ booked'[job[q].span] = booked[job[q].span]
          /\ Calling(j) => job[q].span # j.span
    BY DEF CallsInv, JobsFit
  <2>2. j = NoJob \/ JobFits(j, rows', booked', today', clock')
    BY <1>1, FitsStays
  <2>3. JobsFit
    BY DEF CallsInv
  <2> QED BY ZenonT(30), <1>1, <2>1, <2>2, <2>3, JobsMove
<1>3. RecordsOK'
  <2>1. asset'.last # NoDay => \E s \in Stored' : rows'[s].day = asset'.last
    BY DEF RowsGrow, Stored
  <2> QED BY <2>1 DEF CallsInv, RecordsOK, BoundsKept
<1>4. RowsFit'
  <2>1. ASSUME NEW s \in Recorded
        PROVE  /\ rows'[s].day <= today
               /\ rows'[s].is = "deleted" => Older(rows'[s], today - SpanDays, clock)
               /\ booked[s] # NoDay => rows'[s].day <= booked[s] /\ booked[s] <= today
               /\ rows'[s].paid => rows'[s].resolved
    BY DEF CallsInv, RowsFit, RowsGrow, Older
  <2> QED BY <2>1 DEF RowsFit
<1>5. LedgerFits'
  BY LedgerStays, Settings DEF CallsInv, Waits, BoundsKept
<1>6. ModelFits' /\ MarksFit'
  BY MarksStay DEF CallsInv, BoundsKept
<1> QED BY <1>2, <1>3, <1>4, <1>5, <1>6 DEF CallsInv

\* The same for steps that leave the rows alone.
LEMMA QuietCalls ==
  ASSUME ClockOK, RowsOK, CallsInv, Waits, BoundsKept,
         UNCHANGED <<rows, ledger, booked, today, clock, struck, model>>,
         NEW p \in Processes, NEW j, job' = [job EXCEPT ![p] = j],
         j = NoJob \/ JobFits(j, rows, booked, today, clock),
         Calling(j) => Calling(job[p]) /\ j.span = job[p].span,
         archived' \subseteq Recorded, asset' \in Assets,
         asset'.last # NoDay => \E s \in Stored : rows[s].day = asset'.last
  PROVE  CallsInv'
<1>1. RowsGrow /\ Recorded' = Recorded
  BY DEF RowsGrow, Recorded
<1> QED BY <1>1, RowsCalls

\* The databases to start from fit, as far as they are migrated.
LEMMA CallsInvInit == Init => CallsInv
<1> SUFFICES ASSUME Init PROVE CallsInv
  OBVIOUS
<1>1. /\ bounds \in Bounds /\ bounds.old \subseteq Spans /\ (~bounds.paid => bounds.flat)
      /\ bounds.paid \in BOOLEAN /\ bounds.flat \in BOOLEAN
      /\ RowsOK /\ Recorded = bounds.old
  BY InitRows DEF Bounds
<1>2. PICK paid \in [bounds.old -> IF bounds.flat THEN BOOLEAN ELSE {TRUE}] :
        /\ \A s \in bounds.old : rows[s] = OldCall(paid[s]) /\ paid[s] \in BOOLEAN
        /\ \E mark \in IF bounds.old = {} THEN {FALSE}
                       ELSE {OldMark(CostFlag, paid[s]) : s \in bounds.old} :
             ledger = [d \in Days |-> IF d = 0
                                      THEN [cost |-> Cardinality(bounds.old), billable |-> mark]
                                      ELSE [cost |-> 0, billable |-> FALSE]]
  BY InitRows
<1>3. PICK mark \in IF bounds.old = {} THEN {FALSE}
                    ELSE {OldMark(CostFlag, paid[s]) : s \in bounds.old} :
        ledger = [d \in Days |-> IF d = 0
                                 THEN [cost |-> Cardinality(bounds.old), billable |-> mark]
                                 ELSE [cost |-> 0, billable |-> FALSE]]
  BY <1>2
<1>4. \A s \in bounds.old : paid[s] \in BOOLEAN /\ (~bounds.flat => paid[s])
  <2>1. CASE bounds.flat
    BY <2>1, <1>2
  <2>2. CASE ~bounds.flat
    <3>1. paid \in [bounds.old -> {TRUE}]
      BY <2>2
    <3> QED BY <2>2, <3>1, <1>2
  <2> QED BY <1>1, <2>1, <2>2
<1>5. \A c : /\ OldMark(c, TRUE) = TRUE /\ OldMark(c, FALSE) \in BOOLEAN
             /\ OldMark(c, FALSE) => Pending(c)
  BY DEF OldMark, Pending
<1>6. \A b \in BOOLEAN :
        /\ OldCall(b).is = "kept" /\ OldCall(b).day = 0 /\ OldCall(b).paid = b
        /\ OldCall(b).resolved = b /\ OldCall(b).billable = OldMark(SpanFlag, b)
  BY DEF OldCall
<1>7. ASSUME NEW s \in Recorded
      PROVE  /\ rows[s].is = "kept" /\ rows[s].day = 0
             /\ rows[s].paid = paid[s] /\ rows[s].resolved = paid[s]
             /\ rows[s].billable = OldMark(SpanFlag, paid[s])
             /\ paid[s] \in BOOLEAN /\ s \in bounds.old
  <2>1. s \in bounds.old /\ paid[s] \in BOOLEAN /\ rows[s] = OldCall(paid[s])
    BY <1>1, <1>2, <1>4
  <2> QED BY <2>1, <1>6
<1>8. 0 \in Days /\ 0 # NoDay /\ today = 0
  BY UpkeepAssumption DEF Days, NoDay, Init
<1>9. IsFiniteSet(bounds.old) /\ Cardinality(bounds.old) \in Nat
  BY <1>1, Settings, FS_Subset, FS_CardinalityType
<1>10. booked = [s \in Spans |-> IF s \in bounds.old THEN 0 ELSE NoDay]
  BY DEF Init
<1>11. RecordsOK
  <2>1. mark \in BOOLEAN
    <3>1. \A s \in bounds.old : OldMark(CostFlag, paid[s]) \in BOOLEAN
      BY <1>4 DEF OldMark
    <3> QED BY <1>3, <3>1
  <2>2. ledger \in [Days -> LedgerRows]
    BY <1>3, <1>9, <2>1 DEF LedgerRows
  <2>3. asset \in Assets /\ asset.last = NoDay
    BY DEF Init, Assets
  <2>4. booked \in [Spans -> Days \cup {NoDay}] /\ \A s \in Spans \ Recorded : booked[s] = NoDay
    BY <1>1, <1>8, <1>10
  <2> QED BY <1>1, <2>2, <2>3, <2>4 DEF Init, RecordsOK
<1>12. JobsFit
  BY DEF Init, JobsFit, Calling
<1>13. RowsFit
  <2>1. \A s \in Recorded : booked[s] = 0
    BY <1>1, <1>10
  <2> QED BY <1>7, <1>8, <2>1 DEF RowsFit
<1>14. LedgerFits
  <2>1. \A d \in Days : Booked(d) = IF d = 0 THEN bounds.old ELSE {}
    BY <1>1, <1>10, Settings DEF Booked
  <2>2. Cardinality({}) = 0
    BY FS_EmptySet
  <2>3. ASSUME NEW d \in Days
        PROVE  /\ ledger[d].cost = Cardinality(Booked(d))
               /\ IF Booked(d) = {} THEN ~ledger[d].billable ELSE MarkFits(d)
    <3>1. CASE Booked(d) = {}
      BY <1>3, <2>1, <2>2, <3>1
    <3>2. CASE Booked(d) # {}
      <4>1. /\ d = 0 /\ Booked(d) = bounds.old /\ bounds.old # {}
            /\ ledger[d] = [cost |-> Cardinality(bounds.old), billable |-> mark]
        BY <1>3, <2>1, <3>2
      <4>2. PICK s \in bounds.old : mark = OldMark(CostFlag, paid[s])
        BY <1>3, <4>1
      <4>3. paid[s] \in BOOLEAN /\ rows[s].resolved = paid[s]
        BY <1>1, <1>7
      <4>4. ledger[d].billable = mark /\ ledger[d].cost = Cardinality(bounds.old)
        BY <4>1
      <4>5. MarkFits(d)
        <5>1. CASE mark = paid[s]
          <6>1. s \in Booked(d) /\ rows[s].resolved = ledger[d].billable
            BY <4>1, <4>3, <4>4, <5>1
          <6> QED BY <6>1 DEF MarkFits
        <5>2. CASE mark # paid[s]
          <6>1. paid[s] = FALSE
            BY <1>5, <4>2, <4>3, <5>2
          <6>2. mark = OldMark(CostFlag, FALSE)
            BY <4>2, <6>1
          <6>3. mark = TRUE /\ Pending(CostFlag)
            BY <1>5, <5>2, <6>1, <6>2
          <6>4. ledger[d].billable
            BY <4>4, <6>3
          <6> QED BY <4>1, <6>3, <6>4 DEF MarkFits
        <5> QED BY <5>1, <5>2
      <4> QED BY <3>2, <4>1, <4>4, <4>5
    <3> QED BY <3>1, <3>2
  <2> QED BY <2>3 DEF LedgerFits
<1>15. ModelFits
  <2>1. model = [paid |-> bounds.paid, billable |-> OldMark(ModelFlag, bounds.paid),
                 everFlat |-> bounds.flat]
    BY DEF Init
  <2>2. CASE bounds.paid
    BY <1>1, <2>1, <2>2 DEF ModelFits, OldMark
  <2>3. CASE ~bounds.paid
    <3>1. bounds.paid = FALSE /\ bounds.flat
      BY <1>1, <2>3
    <3>2. OldMark(ModelFlag, FALSE) => Pending(ModelFlag)
      BY <1>5
    <3>3. OldMark(ModelFlag, FALSE) \in BOOLEAN
      BY DEF OldMark
    <3> QED BY <2>1, <3>1, <3>2, <3>3 DEF ModelFits
  <2> QED BY <2>2, <2>3
<1>16. MarksFit
  <2>1. model.everFlat = bounds.flat
    BY DEF Init
  <2>2. ASSUME NEW s \in Recorded
        PROVE  /\ ~model.everFlat => rows[s].paid
               /\ s \in Kept /\ rows[s].billable # rows[s].paid =>
                    ~rows[s].paid /\ (rows[s].resolved \/ (s \in bounds.old /\ Pending(SpanFlag)))
    <3>1. CASE paid[s]
      BY <1>7, <3>1 DEF OldMark
    <3>2. CASE ~paid[s]
      <4>1. paid[s] = FALSE /\ bounds.flat
        BY <1>1, <1>4, <1>7, <3>2
      <4>2. rows[s].billable # rows[s].paid => Pending(SpanFlag)
        BY <1>5, <1>7, <4>1 DEF OldMark
      <4> QED BY <1>7, <2>1, <4>1, <4>2
    <3> QED BY <3>1, <3>2
  <2> QED BY <2>2 DEF MarksFit
<1> QED BY <1>11, <1>12, <1>13, <1>14, <1>15, <1>16 DEF CallsInv

-----------------------------------------------------------------------------
(* Steps that neither record nor book a call *)

LEMMA SameJob ==
  ASSUME JobsFit, NEW p \in Processes
  PROVE  /\ job = [job EXCEPT ![p] = job[p]]
         /\ job[p] = NoJob \/ JobFits(job[p], rows, booked, today, clock)
BY DEF JobsFit

LEMMA AssetKnown ==
  ASSUME CallsInv
  PROVE  /\ asset \in Assets /\ bounds \in Bounds /\ archived \subseteq Recorded /\ JobsFit
         /\ asset.last # NoDay => \E s \in Stored : rows[s].day = asset.last
BY DEF CallsInv, RecordsOK

\* The day of the newest row there is.
LEMMA LastUsedIs ==
  ASSUME RowsOK
  PROVE  IF Kept = {} THEN LastUsed = NoDay
         ELSE /\ \E s \in Kept : rows[s].day = LastUsed
              /\ LastUsed \in Days /\ \A s \in Kept : rows[s].day <= LastUsed
<1> SUFFICES ASSUME Kept # {}
             PROVE  /\ \E s \in Kept : rows[s].day = LastUsed
                    /\ LastUsed \in Days /\ \A s \in Kept : rows[s].day <= LastUsed
  BY DEF LastUsed
<1> DEFINE days == {rows[s].day : s \in Kept}
<1>1. days \subseteq Days /\ days # {}
  BY RowType DEF Kept
<1>2. IsFiniteSet(days)
  <2>1. IsFiniteSet(Days)
    BY FS_Interval, UpkeepAssumption DEF Days
  <2> HIDE DEF days
  <2> QED BY <1>1, <2>1, FS_Subset
<1>3. days \in SUBSET Nat
  BY <1>1, Settings
<1> HIDE DEF days
<1>4. Max(days) \in days /\ \A d \in days : Max(days) >= d
  BY <1>1, <1>2, <1>3, MaxOfNats
<1> USE DEF days
<1>5. LastUsed = Max(days)
  BY DEF LastUsed
<1> HIDE DEF days
<1>6. \A d \in days : d <= LastUsed
  BY <1>3, <1>4, <1>5
<1> QED BY <1>1, <1>4, <1>5, <1>6 DEF days

LEMMA MigrateCalls ==
  ASSUME ClockOK, RowsOK, CallsInv, NEW p \in Processes, Migrate(p)
  PROVE  CallsInv'
<1>1. /\ UNCHANGED <<rows, ledger, booked, today, clock, struck, model, archived, asset>>
      /\ job' = job /\ (UNCHANGED bounds \/ Once("opens"))
  BY DEF Migrate, records
<1>2. BoundsKept /\ Waits
  BY <1>1, AssetKnown, OneLess, SameBounds, AdvanceWaits DEF Migrate
<1>3. job' = [job EXCEPT ![p] = job[p]]
  BY <1>1, SameJob, AssetKnown
<1>4. job[p] = NoJob \/ JobFits(job[p], rows, booked, today, clock)
  BY SameJob, AssetKnown
<1> QED BY <1>1, <1>2, <1>3, <1>4, QuietCalls, AssetKnown

LEMMA GiveUpCalls ==
  ASSUME ClockOK, RowsOK, CallsInv, NEW p \in Processes,
         EndFailed(p) \/ AccrueFails(p) \/ RetentionFails(p)
  PROVE  CallsInv'
<1>1. /\ UNCHANGED <<rows, ledger, booked, today, clock, struck, model, archived, asset>>
      /\ job' = [job EXCEPT ![p] = NoJob]
  BY DEF EndFailed, AccrueFails, RetentionFails, records, End, Begin
<1>2. BoundsKept
  BY AssetKnown, FailsIs, SameBounds DEF EndFailed, AccrueFails, RetentionFails
<1>3. Waits
  BY AssetKnown, FailsIs, Unmigrated, AdvanceWaits DEF EndFailed, AccrueFails, RetentionFails
<1> QED BY <1>1, <1>2, <1>3, QuietCalls, AssetKnown DEF Calling

LEMMA DieCalls ==
  ASSUME ClockOK, RowsOK, JobsOK, CallsInv, NEW p \in Processes, Die(p)
  PROVE  CallsInv'
<1>1. /\ UNCHANGED <<rows, ledger, booked, today, clock, struck, model, asset>> /\ Once("crashes")
      /\ job' = [job EXCEPT ![p] = NoJob]
  BY DEF Die, End, Begin
<1>2. BoundsKept /\ Waits
  BY <1>1, AssetKnown, OneLess, AdvanceWaits DEF Die
<1>3. PICK flushed \in SUBSET IF At(p, "archive") THEN job[p].lines ELSE {} :
        archived' = archived \cup flushed
  BY DEF Die
<1>4. At(p, "archive") => job[p].lines \subseteq Recorded
  BY DEF At, CallsInv, JobsFit, JobFits, Phases, Recorded
<1>5. archived' \subseteq Recorded
  BY <1>3, <1>4, AssetKnown
<1> QED BY <1>1, <1>2, <1>5, QuietCalls, AssetKnown DEF Calling

LEMMA PlanCalls ==
  ASSUME ClockOK, RowsOK, CallsInv, NEW p \in Processes, Plan(p)
  PROVE  CallsInv'
<1> DEFINE delete == OldRows
           strip == {s \in OlderThan(TextDays) : rows[s].text} \ delete
           j == [step |-> "archive", strip |-> strip, delete |-> delete,
                 todo |-> strip \cup delete, lines |-> {}]
<1>1. /\ UNCHANGED <<rows, ledger, booked, today, clock, struck, model, archived, asset>> /\ Once("retentions")
      /\ job' = job \/ job' = [job EXCEPT ![p] = j]
  BY DEF Plan, records, Begin
<1>2. BoundsKept /\ Waits
  BY <1>1, AssetKnown, OneLess, Unmigrated DEF Plan
<1>3. /\ delete \subseteq Recorded /\ strip \subseteq Recorded /\ Recorded \subseteq Spans
      /\ \A s \in delete : Older(rows[s], today - SpanDays, clock)
  BY DEF OldRows, OlderThan, Kept, Recorded, Before, Older
<1>4. JobFits(j, rows, booked, today, clock)
  <2> HIDE DEF delete, strip
  <2>1. j \in Jobs
    BY <1>3 DEF Jobs, Retentions
  <2> QED BY <1>3, <2>1 DEF JobFits, Recorded
<1>5. ~Calling(j)
  BY DEF Calling
<1>6. CASE job' = job
  <2>1. job' = [job EXCEPT ![p] = job[p]]
    BY <1>6, SameJob, AssetKnown
  <2>2. job[p] = NoJob \/ JobFits(job[p], rows, booked, today, clock)
    BY SameJob, AssetKnown
  <2> QED BY <1>1, <1>2, <2>1, <2>2, QuietCalls, AssetKnown
<1>7. CASE job' = [job EXCEPT ![p] = j]
  <2> HIDE DEF j
  <2> QED BY <1>1, <1>2, <1>4, <1>5, <1>7, QuietCalls, AssetKnown
<1> QED BY <1>1, <1>6, <1>7

\* A process that applies retention.
LEMMA AtPhase ==
  ASSUME CallsInv, NEW p \in Processes, NEW l \in Phases, At(p, l)
  PROVE  /\ job[p] \in Retentions /\ job[p].step = l /\ job[p] \in Jobs
         /\ job[p].strip \cup job[p].delete \cup job[p].lines \subseteq Recorded
         /\ job[p].todo \subseteq job[p].strip \cup job[p].delete
         /\ \A s \in job[p].delete : Older(rows[s], today - SpanDays, clock)
<1>1. JobFits(job[p], rows, booked, today, clock) /\ job[p].step = l
  BY DEF At, CallsInv, JobsFit
<1>2. job[p] \in Retentions
  BY <1>1 DEF JobFits, Jobs, Phases
<1> QED BY <1>1, <1>2 DEF JobFits, Recorded

LEMMA ArchiveRowCalls ==
  ASSUME ClockOK, RowsOK, CallsInv, NEW p \in Processes, ArchiveRow(p)
  PROVE  CallsInv'
<1>1. /\ UNCHANGED <<rows, ledger, booked, today, clock, struck, model, archived, asset, bounds>>
      /\ At(p, "archive") /\ "archive" \in Phases /\ UNCHANGED mvars
  BY DEF ArchiveRow, records, Phases
<1>2. PICK s \in job[p].todo :
        job' = [job EXCEPT ![p] = [job[p] EXCEPT !.todo = @ \ {s}, !.lines = @ \cup Lines(p, s)]]
  BY DEF ArchiveRow
<1>3. /\ job[p] \in Retentions /\ job[p].step = "archive"
      /\ job[p].strip \cup job[p].delete \cup job[p].lines \subseteq Recorded
      /\ job[p].todo \subseteq job[p].strip \cup job[p].delete
      /\ \A t \in job[p].delete : Older(rows[t], today - SpanDays, clock)
  BY <1>1, AtPhase
<1> DEFINE j == [job[p] EXCEPT !.todo = @ \ {s}, !.lines = @ \cup Lines(p, s)]
<1>4. Lines(p, s) \subseteq Recorded /\ Recorded \subseteq Spans
  BY <1>3 DEF Lines, Recorded
<1>5. /\ j \in Retentions /\ j.step = "archive" /\ j.strip = job[p].strip
      /\ j.delete = job[p].delete /\ j.todo = job[p].todo \ {s}
      /\ j.lines = job[p].lines \cup Lines(p, s)
  BY <1>3, <1>4 DEF Retentions
<1>6. job' = [job EXCEPT ![p] = j]
  BY <1>2
<1> HIDE DEF j
<1>7. JobFits(j, rows, booked, today, clock) /\ ~Calling(j)
  BY <1>3, <1>4, <1>5 DEF JobFits, Jobs, Recorded, Calling
<1>8. BoundsKept /\ Waits
  BY <1>1, AssetKnown, SameBounds, Unmigrated
<1> QED BY <1>1, <1>6, <1>7, <1>8, QuietCalls, AssetKnown

LEMMA CloseArchiveCalls ==
  ASSUME ClockOK, RowsOK, CallsInv, NEW p \in Processes, CloseArchive(p)
  PROVE  CallsInv'
<1>1. /\ UNCHANGED <<rows, ledger, booked, today, clock, struck, model, asset, bounds>>
      /\ At(p, "archive") /\ "archive" \in Phases /\ UNCHANGED mvars
      /\ archived' = archived \cup job[p].lines
      /\ job' = [job EXCEPT ![p] = [job[p] EXCEPT !.step = "strip"]]
  BY DEF CloseArchive, Phases
<1>2. /\ job[p] \in Retentions /\ job[p].step = "archive"
      /\ job[p].strip \cup job[p].delete \cup job[p].lines \subseteq Recorded
      /\ job[p].todo \subseteq job[p].strip \cup job[p].delete
      /\ \A t \in job[p].delete : Older(rows[t], today - SpanDays, clock)
  BY <1>1, AtPhase
<1> DEFINE j == [job[p] EXCEPT !.step = "strip"]
<1>3. /\ j \in Retentions /\ j.step = "strip" /\ j.strip = job[p].strip
      /\ j.delete = job[p].delete /\ j.todo = job[p].todo /\ j.lines = job[p].lines
  BY <1>2 DEF Retentions
<1>4. job' = [job EXCEPT ![p] = j]
  BY <1>1
<1> HIDE DEF j
<1>5. JobFits(j, rows, booked, today, clock) /\ ~Calling(j)
  BY <1>2, <1>3 DEF JobFits, Jobs, Recorded, Calling
<1>6. archived' \subseteq Recorded
  BY <1>1, <1>2, AssetKnown
<1>7. BoundsKept /\ Waits
  BY <1>1, AssetKnown, SameBounds, Unmigrated
<1> QED BY <1>1, <1>4, <1>5, <1>6, <1>7, QuietCalls, AssetKnown

LEMMA SetOwnerCalls ==
  ASSUME ClockOK, RowsOK, CallsInv, NEW p \in Processes, SetOwner(p)
  PROVE  CallsInv'
<1>1. /\ UNCHANGED <<rows, ledger, booked, today, clock, struck, model, archived>> /\ Once("owners") /\ job' = job
      /\ asset' = [asset EXCEPT !.registered = TRUE]
  BY DEF SetOwner
<1>2. BoundsKept /\ Waits
  BY <1>1, AssetKnown, OneLess, Unmigrated DEF SetOwner, MayWrite
<1>3. asset' \in Assets /\ asset'.last = asset.last
  BY <1>1, AssetKnown DEF Assets
<1>4. job' = [job EXCEPT ![p] = job[p]]
  BY <1>1, SameJob, AssetKnown
<1>5. job[p] = NoJob \/ JobFits(job[p], rows, booked, today, clock)
  BY SameJob, AssetKnown
<1> QED BY <1>1, <1>2, <1>3, <1>4, <1>5, QuietCalls, AssetKnown

LEMMA RefreshCalls ==
  ASSUME ClockOK, RowsOK, CallsInv, NEW p \in Processes, Refresh(p)
  PROVE  CallsInv'
<1> DEFINE j == [step |-> "touch", last |-> LastUsed]
<1>1. /\ UNCHANGED <<rows, ledger, booked, today, clock, struck, model, archived, asset>> /\ Once("refreshes")
      /\ job' = job \/ (Newer /\ job' = [job EXCEPT ![p] = j])
  BY DEF Refresh, records, Begin
<1>2. BoundsKept /\ Waits
  BY <1>1, AssetKnown, OneLess, Unmigrated DEF Refresh
<1>3. CASE job' = job
  <2>1. job' = [job EXCEPT ![p] = job[p]]
    BY <1>3, SameJob, AssetKnown
  <2>2. job[p] = NoJob \/ JobFits(job[p], rows, booked, today, clock)
    BY SameJob, AssetKnown
  <2> QED BY <1>1, <1>2, <2>1, <2>2, QuietCalls, AssetKnown
<1>4. CASE Newer /\ job' = [job EXCEPT ![p] = j]
  <2>1. LastUsed \in Days /\ \E s \in Kept : rows[s].day = LastUsed
    BY <1>4, LastUsedIs DEF Newer
  <2>2. JobFits(j, rows, booked, today, clock) /\ ~Calling(j)
    BY <2>1 DEF JobFits, Jobs, Phases, Kept, Recorded, Calling
  <2> HIDE DEF j
  <2> QED BY <1>1, <1>2, <1>4, <2>2, QuietCalls, AssetKnown
<1> QED BY <1>1, <1>3, <1>4

LEMMA TouchCalls ==
  ASSUME ClockOK, RowsOK, CallsInv, NEW p \in Processes, Touch(p)
  PROVE  CallsInv'
<1>1. /\ UNCHANGED <<rows, ledger, booked, today, clock, struck, model, archived, bounds>>
      /\ At(p, "touch") /\ job' = [job EXCEPT ![p] = NoJob]
      /\ asset' = [asset EXCEPT !.last = job[p].last]
  BY DEF Touch, End, Begin
<1>2. JobFits(job[p], rows, booked, today, clock) /\ job[p].step = "touch"
  BY <1>1 DEF At, CallsInv, JobsFit
<1>3. job[p].last \in Days /\ \E s \in Stored : rows[s].day = job[p].last
  BY <1>2 DEF JobFits, Jobs, Retentions, Stored, Recorded
<1>4. asset' \in Assets /\ \E s \in Stored : rows[s].day = asset'.last
  BY <1>1, <1>3, AssetKnown DEF Assets
<1>5. BoundsKept /\ Waits
  BY <1>1, AssetKnown, SameBounds, Unmigrated DEF Touch, MayWrite
<1> QED BY <1>1, <1>4, <1>5, QuietCalls, AssetKnown DEF Calling

-----------------------------------------------------------------------------
(* Steps on the rows of calls *)

LEMMA EndOkCalls ==
  ASSUME ClockOK, RowsOK, CallsInv, NEW p \in Processes, EndOk(p)
  PROVE  CallsInv'
<1>1. /\ UNCHANGED <<ledger, booked, today, clock, struck, model, archived, asset>>
      /\ At(p, "end") /\ job' = [job EXCEPT ![p] = [job[p] EXCEPT !.step = "accrue"]]
  BY DEF EndOk
<1>2. BoundsKept /\ Waits
  BY AssetKnown, FailsIs, SameBounds, Unmigrated DEF EndOk, MayWrite
<1>3. /\ Recorded' = Recorded /\ Recorded \subseteq Spans
      /\ \A s \in Recorded :
           \/ rows'[s] = rows[s]
           \/ rows[s].is = "kept" /\ rows'[s] = [rows[s] EXCEPT !.text = TRUE, !.costed = TRUE]
  BY EndOkIs DEF Recorded
<1>4. ASSUME NEW s \in Recorded
      PROVE  /\ rows'[s] # NoSpan /\ Fields(rows'[s], rows[s])
             /\ rows'[s].is = rows[s].is /\ rows'[s].billable = rows[s].billable
  <2>1. rows[s] \in SpanRows /\ rows'[s] # NoSpan
    BY <1>3, RowType DEF Recorded
  <2> QED BY <1>3, <2>1, RowEnded DEF Fields
<1>5. RowsGrow
  BY <1>4 DEF RowsGrow, Fields
<1> DEFINE j == [job[p] EXCEPT !.step = "accrue"]
<1>6. JobFits(job[p], rows, booked, today, clock) /\ job[p].step = "end" /\ Calling(job[p])
  BY <1>1 DEF At, CallsInv, JobsFit, Calling
<1>7. job[p] \in [step : {"end", "accrue"}, span : Spans]
  BY <1>6 DEF JobFits, Jobs, Retentions
<1>8. j \in Jobs /\ j.step = "accrue" /\ j.span = job[p].span
  BY <1>7 DEF Jobs
<1>9. job' = [job EXCEPT ![p] = j]
  BY <1>1
<1> HIDE DEF j
<1>10. JobFits(j, rows, booked, today, clock)
  BY <1>6, <1>8 DEF JobFits, Phases
<1>11. \A s \in Recorded :
         /\ rows'[s].is = "kept" => rows[s].is = "kept" /\ rows'[s].billable = rows[s].billable
         /\ rows'[s].is = "deleted" => rows[s].is = "deleted"
  BY <1>4
<1>12. archived' \subseteq Recorded /\ asset' \in Assets
       /\ (asset'.last # NoDay => \E s \in Stored : rows[s].day = asset'.last)
  BY <1>1, AssetKnown
<1> QED BY <1>1, <1>2, <1>3, <1>5, <1>6, <1>8, <1>9, <1>10, <1>11, <1>12, RowsCalls

LEMMA StripCalls ==
  ASSUME ClockOK, RowsOK, CallsInv, NEW p \in Processes, Strip(p)
  PROVE  CallsInv'
<1>1. /\ UNCHANGED <<ledger, booked, today, clock, struck, model, archived, asset, bounds>>
      /\ At(p, "strip") /\ "strip" \in Phases /\ UNCHANGED mvars
      /\ rows' = [s \in Spans |-> IF s \in job[p].strip \cap Kept
                                  THEN [rows[s] EXCEPT !.text = FALSE] ELSE rows[s]]
      /\ job' = [job EXCEPT ![p] = [job[p] EXCEPT !.step = "delete"]]
  BY DEF Strip, Phases, MayWrite
<1>2. /\ job[p] \in Retentions
      /\ job[p].strip \cup job[p].delete \cup job[p].lines \subseteq Recorded
      /\ job[p].todo \subseteq job[p].strip \cup job[p].delete
      /\ \A t \in job[p].delete : Older(rows[t], today - SpanDays, clock)
  BY <1>1, AtPhase
<1> DEFINE j == [job[p] EXCEPT !.step = "delete"]
<1>3. /\ j \in Retentions /\ j.step = "delete" /\ j.strip = job[p].strip
      /\ j.delete = job[p].delete /\ j.todo = job[p].todo /\ j.lines = job[p].lines
  BY <1>2 DEF Retentions
<1>4. job' = [job EXCEPT ![p] = j]
  BY <1>1
<1> HIDE DEF j
<1>5. JobFits(j, rows, booked, today, clock) /\ ~Calling(j)
  BY <1>2, <1>3 DEF JobFits, Jobs, Recorded, Calling
<1>6. /\ Recorded' = Recorded /\ Recorded \subseteq Spans
      /\ \A s \in Recorded : \/ rows'[s] = rows[s]
                             \/ rows'[s] = [rows[s] EXCEPT !.text = FALSE]
  BY <1>1, StripIs DEF Recorded
<1>7. ASSUME NEW s \in Recorded
      PROVE  /\ rows'[s] # NoSpan /\ Fields(rows'[s], rows[s])
             /\ rows'[s].is = rows[s].is /\ rows'[s].billable = rows[s].billable
  <2>1. rows[s] \in SpanRows /\ rows'[s] # NoSpan
    BY <1>6, RowType DEF Recorded
  <2> QED BY <1>6, <2>1, RowStripped DEF Fields
<1>8. RowsGrow
  BY <1>7 DEF RowsGrow, Fields
<1>9. BoundsKept /\ Waits
  BY <1>1, AssetKnown, SameBounds, Unmigrated
<1>10. \A s \in Recorded :
         /\ rows'[s].is = "kept" => rows[s].is = "kept" /\ rows'[s].billable = rows[s].billable
         /\ rows'[s].is = "deleted" => rows[s].is = "deleted"
  BY <1>7
<1>11. archived' \subseteq Recorded /\ asset' \in Assets
       /\ (asset'.last # NoDay => \E s \in Stored : rows[s].day = asset'.last)
  BY <1>1, AssetKnown
<1> QED BY <1>1, <1>4, <1>5, <1>6, <1>8, <1>9, <1>10, <1>11, RowsCalls

LEMMA DeleteCalls ==
  ASSUME ClockOK, RowsOK, CallsInv, NEW p \in Processes, Delete(p)
  PROVE  CallsInv'
<1>1. /\ UNCHANGED <<ledger, booked, today, clock, struck, model, archived, asset, bounds>>
      /\ At(p, "delete") /\ "delete" \in Phases /\ UNCHANGED mvars
      /\ rows' = [s \in Spans |-> IF s \in job[p].delete \cap Kept
                                  THEN [rows[s] EXCEPT !.is = "deleted"] ELSE rows[s]]
      /\ job' = [job EXCEPT ![p] = NoJob]
  BY DEF Delete, Phases, End, Begin, MayWrite
<1>2. \A t \in job[p].delete : Older(rows[t], today - SpanDays, clock)
  BY <1>1, AtPhase
<1>3. /\ Recorded' = Recorded /\ Recorded \subseteq Spans
      /\ \A s \in Recorded : \/ rows'[s] = rows[s]
                             \/ /\ s \in job[p].delete \cap Kept
                                /\ rows'[s] = [rows[s] EXCEPT !.is = "deleted"]
  BY <1>1, DeleteIs DEF Recorded
<1>4. ASSUME NEW s \in Recorded
      PROVE  /\ rows'[s] # NoSpan /\ Fields(rows'[s], rows[s])
             /\ rows'[s].billable = rows[s].billable
             /\ \/ rows'[s].is = rows[s].is
                \/ /\ rows'[s].is = "deleted" /\ rows[s].is = "kept"
                   /\ Older(rows[s], today - SpanDays, clock)
  <2>1. rows[s] \in SpanRows /\ rows'[s] # NoSpan
    BY <1>3, RowType DEF Recorded
  <2>2. CASE rows'[s] = rows[s]
    BY <2>1, <2>2 DEF Fields
  <2>3. CASE s \in job[p].delete \cap Kept /\ rows'[s] = [rows[s] EXCEPT !.is = "deleted"]
    BY <1>2, <2>1, <2>3, RowDeleted DEF Kept
  <2> QED BY <1>3, <2>2, <2>3
<1>5. RowsGrow
  BY <1>4 DEF RowsGrow, Fields
<1>6. BoundsKept /\ Waits
  BY <1>1, AssetKnown, SameBounds, Unmigrated
<1>7. \A s \in Recorded :
        /\ rows'[s].is = "kept" => rows[s].is = "kept" /\ rows'[s].billable = rows[s].billable
        /\ rows'[s].is = "deleted" => \/ rows[s].is = "deleted"
                                      \/ Older(rows[s], today - SpanDays, clock)
  BY <1>4
<1>8. archived' \subseteq Recorded /\ asset' \in Assets /\ ~Calling(NoJob)
      /\ (asset'.last # NoDay => \E s \in Stored : rows[s].day = asset'.last)
  BY <1>1, AssetKnown DEF Calling
<1> QED BY <1>1, <1>3, <1>5, <1>6, <1>7, <1>8, RowsCalls

\* Both of the bounds that a lost call takes from.
LEMMA StartBounds ==
  ASSUME bounds \in Bounds, NEW p \in Processes, Start(p) \/ StartLost(p)
  PROVE  BoundsKept
<1>1. CASE Start(p)
  BY <1>1, OneLess DEF Start
<1>2. CASE StartLost(p)
  <2>1. bounds.calls \in Nat /\ bounds.faults \in Nat /\ bounds.calls - 1 \in Nat
    BY <1>2 DEF StartLost, Bounds
  <2>2. \/ bounds' = [bounds EXCEPT !.calls = @ - 1]
        \/ bounds.faults > 0 /\ bounds' = [bounds EXCEPT !.calls = @ - 1, !.faults = @ - 1]
    BY <1>2 DEF StartLost
  <2>3. CASE bounds' = [bounds EXCEPT !.calls = @ - 1]
    BY <2>1, <2>3 DEF BoundsKept, Bounds
  <2>4. CASE bounds.faults > 0 /\ bounds' = [bounds EXCEPT !.calls = @ - 1, !.faults = @ - 1]
    <3>1. bounds.faults - 1 \in Nat
      BY <2>1, <2>4
    <3> QED BY <2>1, <2>4, <3>1 DEF BoundsKept, Bounds
  <2> QED BY <2>2, <2>3, <2>4
<1> QED BY <1>1, <1>2

LEMMA StartCalls ==
  ASSUME ClockOK, RowsOK, CallsInv, NEW p \in Processes, Start(p) \/ StartLost(p)
  PROVE  CallsInv'
<1>1. PICK s \in Spans \ Recorded, row \in SpanRows :
        /\ rows' = [rows EXCEPT ![s] = row]
        /\ job' = [job EXCEPT ![p] = [step |-> "end", span |-> s]]
        /\ row.day = today /\ row.time = clock /\ row.is \in {"kept", "lost"}
        /\ row.paid = model.paid /\ row.resolved = model.billable
        /\ row.billable = model.billable
  BY StartIs
<1>2. /\ UNCHANGED <<today, clock, ledger, model, archived, asset, booked, struck>>
      /\ UNCHANGED mvars
  BY DEF Start, StartLost, MayWrite, mvars
<1>3. BoundsKept /\ Waits
  BY <1>2, AssetKnown, StartBounds, Unmigrated
<1> DEFINE j == [step |-> "end", span |-> s]
<1>4. row # NoSpan
  BY NoSpanAssumption
<1>5. j \in Jobs /\ j.step = "end" /\ j.span = s /\ job' = [job EXCEPT ![p] = j]
  BY <1>1 DEF Jobs
<1> HIDE DEF j
<1>6. /\ rows'[s] = row /\ s \notin Recorded /\ booked[s] = NoDay
      /\ \A t \in Recorded : t # s /\ rows'[t] = rows[t]
      /\ Recorded' = Recorded \cup {s}
  BY <1>1, <1>4 DEF RowsOK, Recorded, CallsInv, RecordsOK
<1>7. RowsGrow /\ Later
  BY <1>2, <1>6, SameMoment DEF RowsGrow, Recorded
<1>8. JobsFit'
  <2>1. JobFits(j, rows', booked', today', clock')
    BY <1>2, <1>4, <1>5, <1>6 DEF JobFits, Phases
  <2>2. ASSUME NEW q \in Processes, q # p, Calling(job[q])
        PROVE  booked'[job[q].span] = booked[job[q].span] /\ job[q].span # j.span
    <3>1. /\ JobFits(job[q], rows, booked, today, clock) /\ job[q].step \in {"end", "accrue"}
          /\ job[q] \in Jobs
      BY <2>2 DEF CallsInv, JobsFit, Calling, JobFits
    <3>2. job[q].span \in Recorded
      BY <3>1 DEF JobFits, Jobs, Retentions, Recorded
    <3> QED BY <1>2, <1>5, <1>6, <3>2
  <2>3. \A q \in Processes : q # p /\ Calling(job[q]) =>
          /\ booked'[job[q].span] = booked[job[q].span]
          /\ Calling(j) => job[q].span # j.span
    BY <2>2
  <2>4. JobsFit /\ job' = [job EXCEPT ![p] = j]
    BY <1>5 DEF CallsInv
  <2>5. j = NoJob \/ JobFits(j, rows', booked', today', clock')
    BY <2>1
  <2> QED BY ZenonT(60), <1>7, <2>3, <2>4, <2>5, JobsMove
<1>9. LedgerFits'
  BY <1>2, <1>3, <1>6, <1>7, LedgerStays, Settings DEF CallsInv, Waits, BoundsKept
<1>10. RowsFit'
  <2>1. ASSUME NEW t \in Recorded'
        PROVE  /\ rows'[t].day <= today'
               /\ rows'[t].is = "deleted" => Older(rows'[t], today' - SpanDays, clock')
               /\ booked'[t] # NoDay => rows'[t].day <= booked'[t] /\ booked'[t] <= today'
               /\ rows'[t].paid => rows'[t].resolved
    <3>1. CASE t = s
      <4>1. today \in Nat
        BY Settings DEF ClockOK
      <4> QED BY <1>1, <1>2, <1>6, <3>1, <4>1 DEF CallsInv, ModelFits
    <3>2. CASE t \in Recorded
      BY <1>2, <1>6, <3>2 DEF CallsInv, RowsFit
    <3> QED BY <1>6, <2>1, <3>1, <3>2
  <2> QED BY <2>1 DEF RowsFit
<1>11. RecordsOK'
  <2>1. \A t \in Spans \ Recorded' : booked'[t] = NoDay
    BY <1>2, <1>6 DEF CallsInv, RecordsOK
  <2>2. asset'.last # NoDay => \E t \in Stored' : rows'[t].day = asset'.last
    BY <1>2, <1>6, AssetKnown DEF Stored
  <2>3. archived' \subseteq Recorded'
    BY <1>2, <1>6, AssetKnown
  <2> QED BY <1>2, <1>3, <2>1, <2>2, <2>3 DEF CallsInv, RecordsOK, BoundsKept
<1>12. ModelFits'
  BY <1>2, <1>3, Settings DEF CallsInv, ModelFits, Waits
<1>13. MarksFit'
  <2>1. Pending(SpanFlag) => Pending(SpanFlag)'
    BY <1>3, Settings DEF Waits
  <2>2. ASSUME NEW t \in Recorded'
        PROVE  /\ ~model'.everFlat => rows'[t].paid
               /\ t \in Kept' /\ rows'[t].billable # rows'[t].paid =>
                    /\ ~rows'[t].paid
                    /\ rows'[t].resolved \/ (t \in bounds'.old /\ Pending(SpanFlag)')
    <3>1. CASE t = s
      <4>1. model.paid \in BOOLEAN /\ model.billable \in BOOLEAN
        BY DEF ClockOK, Models
      <4> QED BY <1>1, <1>2, <1>6, <3>1, <4>1 DEF CallsInv, ModelFits
    <3>2. CASE t \in Recorded
      <4>1. rows'[t] = rows[t] /\ (t \in Kept' => t \in Kept)
        BY <1>6, <3>2 DEF Kept
      <4> QED BY <1>2, <1>3, <2>1, <3>2, <4>1 DEF CallsInv, MarksFit, BoundsKept
    <3> QED BY <1>6, <2>2, <3>1, <3>2
  <2> QED BY <2>2 DEF MarksFit
<1> QED BY <1>8, <1>9, <1>10, <1>11, <1>12, <1>13 DEF CallsInv

LEMMA BookedFinite ==
  ASSUME NEW d
  PROVE  /\ IsFiniteSet(Booked(d)) /\ Cardinality(Booked(d)) \in Nat
         /\ IsFiniteSet(Recorded)
<1>1. Recorded \subseteq Spans /\ Booked(d) \subseteq Spans
  BY DEF Recorded, Booked
<1> QED BY <1>1, Settings, FS_Subset, FS_CardinalityType

LEMMA AccrueCalls ==
  ASSUME ClockOK, RowsOK, CallsInv, NEW p \in Processes, Accrue(p)
  PROVE  CallsInv'
<1> DEFINE s == job[p].span
           entry == [cost |-> ledger[today].cost + 1, billable |-> Mark(job[p])]
<1>1. /\ UNCHANGED <<rows, model, archived, asset, bounds, today, clock>> /\ At(p, "accrue")
      /\ job' = [job EXCEPT ![p] = NoJob] /\ struck' = struck \ {today}
      /\ ledger' = [ledger EXCEPT ![today] = entry] /\ booked' = [booked EXCEPT ![s] = today]
      /\ UNCHANGED mvars
  BY DEF Accrue, End, Begin, MayWrite
<1>2. /\ JobFits(job[p], rows, booked, today, clock) /\ job[p].step = "accrue" /\ job[p] \in Jobs
      /\ Calling(job[p])
  BY <1>1 DEF At, CallsInv, JobsFit, JobFits, Calling
<1>3. s \in Recorded /\ booked[s] = NoDay /\ s \in Spans /\ Mark(job[p]) = rows[s].resolved
  BY <1>2 DEF JobFits, Jobs, Retentions, Recorded, Mark
<1> HIDE DEF s
<1>4. /\ today \in Days /\ today \in Nat /\ today # NoDay
      /\ ledger \in [Days -> LedgerRows] /\ booked \in [Spans -> Days \cup {NoDay}]
  BY Settings DEF ClockOK, CallsInv, RecordsOK
<1>5. entry \in LedgerRows /\ entry.cost = ledger[today].cost + 1
      /\ entry.billable = rows[s].resolved
  <2>1. rows[s].resolved \in BOOLEAN
    BY <1>3, RowType
  <2>2. ledger[today].cost \in Nat
    BY <1>4 DEF LedgerRows
  <2> QED BY <1>3, <2>1, <2>2 DEF LedgerRows
<1> HIDE DEF entry
<1>6. RowsGrow /\ Later /\ Recorded' = Recorded
  BY <1>1, SameMoment DEF RowsGrow, Recorded
<1>7. JobsFit'
  <2>1. \A q \in Processes : q # p /\ Calling(job[q]) => booked'[job[q].span] = booked[job[q].span]
    BY <1>1, <1>2, <1>4 DEF CallsInv, JobsFit, s
  <2>2. ~Calling(NoJob)
    BY DEF Calling
  <2> QED BY <1>1, <1>6, <2>1, <2>2, JobsMove DEF CallsInv
<1>8. /\ booked'[s] = today /\ booked' \in [Spans -> Days \cup {NoDay}]
      /\ \A t \in Spans : t # s => booked'[t] = booked[t]
      /\ ledger'[today] = entry /\ ledger' \in [Days -> LedgerRows]
      /\ \A d \in Days : d # today => ledger'[d] = ledger[d]
  BY <1>1, <1>3, <1>4, <1>5
<1>9. /\ Booked(today)' = Booked(today) \cup {s} /\ s \notin Booked(today)
      /\ \A d \in Days : d # today => Booked(d)' = Booked(d)
  <2>1. \A d : Booked(d)' = {t \in Recorded : booked'[t] = d}
    BY <1>6 DEF Booked
  <2>2. \A t \in Recorded : t \in Spans
    BY DEF Recorded
  <2>3. Booked(today)' = Booked(today) \cup {s}
    BY <1>3, <1>8, <2>1, <2>2, <1>1 DEF Booked
  <2>4. s \notin Booked(today)
    BY <1>3, <1>4 DEF Booked
  <2>5. ASSUME NEW d \in Days, d # today PROVE Booked(d)' = Booked(d)
    BY <1>3, <1>8, <2>1, <2>2, <2>5, Settings DEF Booked
  <2> QED BY <2>3, <2>4, <2>5
<1>10. BoundsKept /\ Waits
  BY <1>1, AssetKnown, SameBounds, Unmigrated
<1>11. LedgerFits'
  <2>1. ASSUME NEW d \in Days
        PROVE  /\ ledger'[d].cost = Cardinality(Booked(d)')
               /\ IF Booked(d)' = {} THEN ~ledger'[d].billable ELSE MarkFits(d)'
    <3>1. CASE d = today
      <4>1. Cardinality(Booked(today) \cup {s}) = Cardinality(Booked(today)) + 1
        BY <1>9, BookedFinite, FS_AddElement
      <4>2. ledger[today].cost = Cardinality(Booked(today))
        BY <1>4 DEF CallsInv, LedgerFits
      <4>3. ledger'[d].cost = Cardinality(Booked(today) \cup {s})
        BY <1>5, <1>8, <3>1, <4>1, <4>2
      <4>4. Booked(d)' = Booked(today) \cup {s}
        BY <1>9, <1>1, <3>1
      <4>5. rows'[s].resolved = ledger'[d].billable
        BY <1>1, <1>5, <1>8, <3>1
      <4>6. MarkFits(d)'
        BY <4>4, <4>5 DEF MarkFits
      <4> QED BY <4>3, <4>4, <4>6
    <3>2. CASE d # today
      <4>1. ledger'[d] = ledger[d] /\ Booked(d)' = Booked(d)
        BY <1>8, <1>9, <3>2
      <4>2. Pending(CostFlag) => Pending(CostFlag)'
        BY <1>10, Settings DEF Waits
      <4>3. MarkFits(d) => MarkFits(d)'
        BY <1>1, <1>10, <3>2, <4>1, <4>2 DEF MarkFits, BoundsKept
      <4>4. /\ ledger[d].cost = Cardinality(Booked(d))
            /\ IF Booked(d) = {} THEN ~ledger[d].billable ELSE MarkFits(d)
        BY DEF CallsInv, LedgerFits
      <4> QED BY <4>1, <4>3, <4>4
    <3> QED BY <3>1, <3>2
  <2> QED BY <2>1 DEF LedgerFits
<1>12. RowsFit'
  <2>1. ASSUME NEW t \in Recorded
        PROVE  /\ rows[t].day <= today
               /\ rows[t].is = "deleted" => Older(rows[t], today - SpanDays, clock)
               /\ booked'[t] # NoDay => rows[t].day <= booked'[t] /\ booked'[t] <= today
               /\ rows[t].paid => rows[t].resolved
    <3>1. t \in Spans
      BY DEF Recorded
    <3>2. CASE t = s
      BY <1>4, <1>8, <3>2 DEF CallsInv, RowsFit
    <3>3. CASE t # s
      BY <1>8, <3>1, <3>3 DEF CallsInv, RowsFit
    <3> QED BY <3>2, <3>3
  <2> QED BY <1>1, <1>6, <2>1 DEF RowsFit
<1>13. RecordsOK'
  <2>1. \A t \in Spans \ Recorded : booked'[t] = NoDay
    BY <1>3, <1>8 DEF CallsInv, RecordsOK
  <2>2. struck' \subseteq Days /\ Stored' = Stored
    BY <1>1, <1>6 DEF CallsInv, RecordsOK, Stored
  <2> QED BY <1>1, <1>6, <1>8, <2>1, <2>2, <1>10 DEF CallsInv, RecordsOK, BoundsKept
<1>14. ModelFits' /\ MarksFit'
  BY <1>1, <1>6, <1>10, MarksStay DEF CallsInv, BoundsKept
<1> QED BY <1>7, <1>11, <1>12, <1>13, <1>14 DEF CallsInv

-----------------------------------------------------------------------------
(* Time, definitions and backfills *)

LEMMA JobsStay ==
  ASSUME ClockOK, RowsOK, JobsFit, RowsGrow, Later, UNCHANGED <<job, booked>>
  PROVE  JobsFit'
<1>1. ASSUME NEW q \in Processes, job[q] # NoJob
      PROVE  JobFits(job[q], rows', booked', today', clock')
  BY <1>1, FitsStays DEF JobsFit
<1> QED BY <1>1 DEF JobsFit

LEMMA RowsFitStays ==
  ASSUME ClockOK, RowsOK, CallsInv, RowsGrow, Later, Recorded' = Recorded, UNCHANGED booked,
         \A s \in Recorded : rows'[s].is = rows[s].is
  PROVE  RowsFit'
<1>1. ASSUME NEW s \in Recorded
      PROVE  /\ rows'[s].day <= today'
             /\ rows'[s].is = "deleted" => Older(rows'[s], today' - SpanDays, clock')
             /\ booked[s] # NoDay => rows'[s].day <= booked[s] /\ booked[s] <= today'
             /\ rows'[s].paid => rows'[s].resolved
  <2>1. /\ rows[s].day \in Nat /\ rows[s].day \in Days /\ rows[s].time \in Times
        /\ (booked[s] # NoDay => booked[s] \in Nat) /\ today \in Nat /\ today' \in Nat
        /\ today <= today'
    BY RowType, Settings DEF CallsInv, RecordsOK, ClockOK, Later
  <2>2. /\ rows'[s].day = rows[s].day /\ rows'[s].time = rows[s].time
        /\ rows'[s].paid = rows[s].paid /\ rows'[s].resolved = rows[s].resolved
        /\ rows'[s].is = rows[s].is
    BY DEF RowsGrow
  <2>3. /\ rows[s].day <= today
        /\ rows[s].is = "deleted" => Older(rows[s], today - SpanDays, clock)
        /\ booked[s] # NoDay => rows[s].day <= booked[s] /\ booked[s] <= today
        /\ rows[s].paid => rows[s].resolved
    BY DEF CallsInv, RowsFit
  <2>4. rows[s].is = "deleted" => Older(rows[s], today' - SpanDays, clock')
    BY <2>1, <2>3, OlderStays
  <2>5. rows'[s].is = "deleted" => Older(rows'[s], today' - SpanDays, clock')
    BY <2>2, <2>4 DEF Older
  <2> QED BY <2>1, <2>2, <2>3, <2>5
<1> QED BY <1>1 DEF RowsFit

\* Time passes over whatever is under way.
LEMMA TickCalls ==
  ASSUME ClockOK, RowsOK, CallsInv, Tick \/ UNCHANGED vars
  PROVE  CallsInv'
<1>1. /\ UNCHANGED <<rows, ledger, booked, job, model, archived, asset, struck, bounds>>
      /\ UNCHANGED mvars
  BY DEF Tick, vars, uvars, records
<1>2. Later
  <2>1. CASE Tick
    BY <2>1, UpkeepAssumption DEF Tick, ClockOK, Later, Days, Times
  <2>2. CASE UNCHANGED vars
    BY <2>2, SameMoment DEF vars, uvars, records
  <2> QED BY <2>1, <2>2
<1>3. RowsGrow /\ Recorded' = Recorded /\ Stored' = Stored
  BY <1>1 DEF RowsGrow, Recorded, Stored
<1>4. BoundsKept /\ Waits
  BY <1>1, AssetKnown, SameBounds, Unmigrated
<1>5. JobsFit'
  BY <1>1, <1>2, <1>3, JobsStay DEF CallsInv
<1>6. RowsFit'
  BY <1>1, <1>2, <1>3, RowsFitStays
<1>7. LedgerFits'
  BY <1>1, <1>3, <1>4, LedgerStays, Settings DEF CallsInv, Waits, BoundsKept
<1>8. ModelFits' /\ MarksFit'
  BY <1>1, <1>3, <1>4, MarksStay DEF CallsInv, BoundsKept
<1>9. RecordsOK'
  BY <1>1, <1>3 DEF CallsInv, RecordsOK
<1> QED BY <1>5, <1>6, <1>7, <1>8, <1>9 DEF CallsInv

\* A new definition is marked as it is.
LEMMA SyncCalls ==
  ASSUME ClockOK, RowsOK, CallsInv, NEW p \in Processes, SyncModel(p)
  PROVE  CallsInv'
<1>1. /\ UNCHANGED <<rows, ledger, booked, job, archived, asset, struck, today, clock>>
      /\ UNCHANGED mvars /\ Once("syncs")
  BY DEF SyncModel, MayWrite
<1>2. PICK paid \in BOOLEAN :
        model' = [paid |-> paid, billable |-> paid, everFlat |-> model.everFlat \/ ~paid]
  BY DEF SyncModel
<1>3. /\ model'.paid = model'.billable /\ (model.everFlat => model'.everFlat)
      /\ (~model'.everFlat => model'.paid /\ ~model.everFlat)
  BY <1>2
<1>4. RowsGrow /\ Recorded' = Recorded /\ Stored' = Stored /\ Kept' = Kept /\ Later
  BY <1>1, SameMoment DEF RowsGrow, Recorded, Stored, Kept
<1>5. BoundsKept /\ Waits
  BY <1>1, AssetKnown, OneLess, Unmigrated
<1>6. JobsFit'
  BY <1>1, <1>4, JobsStay DEF CallsInv
<1>7. RowsFit'
  BY <1>1, <1>4, RowsFitStays
<1>8. LedgerFits'
  BY <1>1, <1>3, <1>4, <1>5, LedgerStays, Settings DEF CallsInv, Waits, BoundsKept
<1>9. ModelFits'
  BY <1>2, <1>3 DEF ModelFits
<1>10. MarksFit'
  <2>1. Pending(SpanFlag) => Pending(SpanFlag)'
    BY <1>5, Settings DEF Waits
  <2> QED BY <1>1, <1>3, <1>4, <1>5, <2>1 DEF CallsInv, MarksFit, BoundsKept
<1>11. RecordsOK'
  BY <1>1, <1>4, <1>5 DEF CallsInv, RecordsOK, BoundsKept
<1> QED BY <1>6, <1>7, <1>8, <1>9, <1>10, <1>11 DEF CallsInv

\* The backfill of cost_daily takes days out of the budget, and it alone.
LEMMA MendCostsLedger ==
  ASSUME RowsOK, CallsInv, MendCosts, RowsGrow, Recorded' = Recorded, UNCHANGED booked,
         model'.everFlat = model.everFlat
  PROVE  LedgerFits' /\ ledger' \in [Days -> LedgerRows] /\ struck' \subseteq Days
<1>1. /\ ledger' = [d \in Days |-> IF d \in NamedDays THEN [ledger[d] EXCEPT !.billable = FALSE]
                                   ELSE ledger[d]]
      /\ struck' = struck \cup NamedDays
      /\ ledger \in [Days -> LedgerRows] /\ struck \subseteq Days /\ NamedDays \subseteq Days
  BY DEF MendCosts, CallsInv, RecordsOK, NamedDays
<1>2. \A d \in Days : /\ [ledger[d] EXCEPT !.billable = FALSE] \in LedgerRows
                      /\ [ledger[d] EXCEPT !.billable = FALSE].billable = FALSE
                      /\ [ledger[d] EXCEPT !.billable = FALSE].cost = ledger[d].cost
  BY <1>1 DEF LedgerRows
<1>3. \A d \in Days : Booked(d)' = Booked(d)
  BY DEF Booked
<1>4. ASSUME NEW d \in Days
      PROVE  /\ ledger'[d].cost = Cardinality(Booked(d)')
             /\ IF Booked(d)' = {} THEN ~ledger'[d].billable ELSE MarkFits(d)'
  <2>1. /\ ledger[d].cost = Cardinality(Booked(d))
        /\ IF Booked(d) = {} THEN ~ledger[d].billable ELSE MarkFits(d)
    BY DEF CallsInv, LedgerFits
  <2>2. ledger'[d].cost = ledger[d].cost
    BY <1>1, <1>2
  <2>3. CASE d \in NamedDays
    <3>1. ledger'[d].billable = FALSE /\ d \in struck' /\ model'.everFlat
      BY <1>1, <1>2, <2>3 DEF NamedDays
    <3>2. MarkFits(d)'
      BY <3>1 DEF MarkFits
    <3> QED BY <1>3, <2>1, <2>2, <3>1, <3>2
  <2>4. CASE d \notin NamedDays /\ Booked(d) = {}
    BY <1>1, <1>3, <2>1, <2>2, <2>4
  <2>5. CASE d \notin NamedDays /\ Booked(d) # {}
    <3>1. ledger[d].cost > 0
      <4>1. Cardinality(Booked(d)) \in Nat /\ Cardinality(Booked(d)) # 0
        BY <2>5, BookedFinite, FS_EmptySet
      <4> QED BY <2>1, <4>1
    <3>2. ~model.everFlat
      BY <2>5, <3>1 DEF NamedDays
    <3>3. \A s \in Booked(d) : rows[s].resolved = TRUE
      <4>1. ASSUME NEW s \in Booked(d) PROVE rows[s].resolved = TRUE
        <5>1. s \in Recorded /\ rows[s].paid
          BY <3>2 DEF Booked, CallsInv, MarksFit
        <5> QED BY <5>1, RowType DEF CallsInv, RowsFit
      <4> QED BY <4>1
    <3>4. PICK s \in Booked(d) : TRUE
      BY <2>5
    <3>5. ledger[d].billable = TRUE
      <4>1. ledger[d].billable \in BOOLEAN
        BY <1>1 DEF LedgerRows
      <4>2. MarkFits(d)
        BY <2>1, <2>5
      <4> QED BY <3>2, <3>3, <4>1, <4>2 DEF MarkFits
    <3>6. s \in Booked(d)' /\ rows'[s].resolved = ledger'[d].billable
      BY <1>1, <1>3, <2>5, <3>3, <3>4, <3>5 DEF RowsGrow, Booked
    <3>7. MarkFits(d)'
      BY <3>6 DEF MarkFits
    <3> QED BY <1>3, <2>1, <2>2, <2>5, <3>7
  <2> QED BY <2>3, <2>4, <2>5
<1> QED BY <1>1, <1>2, <1>4 DEF LedgerFits

\* A migration is committed with the backfills it holds.
LEMMA CommitCalls ==
  ASSUME ClockOK, RowsOK, CallsInv, NEW p \in Processes, CommitBackfills(p)
  PROVE  CallsInv'
<1>1. /\ UNCHANGED <<booked, job, archived, asset, today, clock, bounds>> /\ Commit(p)
      /\ IF SpanFlag \in Mended(p) THEN MendSpans ELSE UNCHANGED rows
      /\ IF ModelFlag \in Mended(p) THEN MendModel ELSE UNCHANGED model
      /\ IF CostFlag \in Mended(p) THEN MendCosts ELSE UNCHANGED <<ledger, struck>>
  BY DEF CommitBackfills
<1>2. \A c \in Backfilled : Pending(c) => Pending(c)' \/ c \in Mended(p)
  BY <1>1, CommitWaits
<1>3. BoundsKept
  BY <1>1, AssetKnown, SameBounds
<1>4. /\ RowsOK' /\ Recorded' = Recorded /\ Recorded \subseteq Spans
      /\ \A s \in Recorded :
           rows'[s] = rows[s] \/ rows'[s] = [rows[s] EXCEPT !.billable = FALSE]
  BY <1>1, MendSpansIs DEF Recorded
<1>5. ASSUME NEW s \in Recorded
      PROVE  rows'[s] # NoSpan /\ Fields(rows'[s], rows[s]) /\ rows'[s].is = rows[s].is
  <2>1. rows[s] \in SpanRows /\ rows'[s] # NoSpan
    BY <1>4, RowType DEF Recorded
  <2> QED BY <1>4, <2>1, RowUnmarked DEF Fields
<1>6. RowsGrow /\ Later /\ Kept' = Kept /\ Stored' = Stored
  BY <1>1, <1>4, <1>5, SameMoment DEF RowsGrow, Fields, Kept, Stored
<1>7. /\ model'.paid = model.paid /\ model'.everFlat = model.everFlat
      /\ (ModelFlag \notin Mended(p) => model' = model)
      /\ (ModelFlag \in Mended(p) /\ model.paid => model'.billable = model.billable)
      /\ (ModelFlag \in Mended(p) /\ ~model.paid => model'.billable = FALSE)
  BY <1>1 DEF MendModel, ClockOK, Models
<1>8. JobsFit'
  BY <1>1, <1>6, JobsStay DEF CallsInv
<1>9. RowsFit'
  BY <1>1, <1>4, <1>5, <1>6, RowsFitStays
<1>10. LedgerFits' /\ ledger' \in [Days -> LedgerRows] /\ struck' \subseteq Days
  <2>1. CASE CostFlag \in Mended(p)
    BY <1>1, <1>4, <1>6, <1>7, <2>1, MendCostsLedger
  <2>2. CASE CostFlag \notin Mended(p)
    <3>1. UNCHANGED <<ledger, struck, booked>>
      BY <1>1, <2>2
    <3>2. Pending(CostFlag) => Pending(CostFlag)'
      BY <1>2, <2>2, Settings
    <3>3. LedgerFits'
      BY <1>3, <1>4, <1>6, <1>7, <3>1, <3>2, LedgerStays DEF CallsInv, BoundsKept
    <3> QED BY <3>1, <3>3 DEF CallsInv, RecordsOK
  <2> QED BY <2>1, <2>2
<1>11. RecordsOK'
  <2>1. asset'.last # NoDay => \E s \in Stored' : rows'[s].day = asset'.last
    BY <1>1, <1>6, AssetKnown DEF RowsGrow, Stored
  <2> QED BY <1>1, <1>3, <1>4, <1>10, <2>1 DEF CallsInv, RecordsOK, BoundsKept
<1>12. ModelFits'
  <2>1. Pending(ModelFlag) => Pending(ModelFlag)' \/ ModelFlag \in Mended(p)
    BY <1>2, Settings
  <2>2. model.paid \in BOOLEAN /\ model.billable \in BOOLEAN
    BY DEF ClockOK, Models
  <2> QED BY <1>7, <2>1, <2>2 DEF CallsInv, ModelFits
<1>13. MarksFit'
  <2>1. Pending(SpanFlag) => Pending(SpanFlag)' \/ SpanFlag \in Mended(p)
    BY <1>2, Settings
  <2>2. ASSUME NEW s \in Recorded
        PROVE  /\ ~model'.everFlat => rows'[s].paid
               /\ s \in Kept' /\ rows'[s].billable # rows'[s].paid =>
                    /\ ~rows'[s].paid
                    /\ rows'[s].resolved \/ (s \in bounds'.old /\ Pending(SpanFlag)')
    <3>1. rows'[s].paid = rows[s].paid /\ rows'[s].resolved = rows[s].resolved
      BY <1>6 DEF RowsGrow
    <3>2. rows[s] \in SpanRows /\ rows[s].paid \in BOOLEAN
      BY RowType
    <3>3. /\ ~model.everFlat => rows[s].paid
          /\ s \in Kept /\ rows[s].billable # rows[s].paid =>
               ~rows[s].paid /\ (rows[s].resolved \/ (s \in bounds.old /\ Pending(SpanFlag)))
      BY DEF CallsInv, MarksFit
    <3>4. CASE SpanFlag \notin Mended(p)
      <4>1. rows' = rows
        BY <1>1, <3>4
      <4> QED BY <1>3, <1>6, <1>7, <2>1, <3>3, <3>4, <4>1 DEF BoundsKept
    <3>5. CASE SpanFlag \in Mended(p) /\ s \in Kept
      <4>1. rows'[s] = IF ~rows[s].paid THEN [rows[s] EXCEPT !.billable = FALSE] ELSE rows[s]
        BY <1>1, <1>4, <3>5 DEF MendSpans
      <4>2. CASE rows[s].paid
        <5>1. rows'[s] = rows[s]
          BY <4>1, <4>2
        <5> QED BY <1>7, <3>3, <4>2, <5>1, <3>5
      <4>3. CASE ~rows[s].paid
        <5>1. rows'[s].billable = FALSE /\ rows'[s].paid = FALSE
          BY <3>1, <3>2, <4>1, <4>3, RowUnmarked
        <5> QED BY <1>7, <3>3, <4>3, <5>1
      <4> QED BY <4>2, <4>3
    <3>6. CASE SpanFlag \in Mended(p) /\ s \notin Kept
      BY <1>6, <1>7, <3>1, <3>3, <3>6
    <3> QED BY <3>4, <3>5, <3>6
  <2> QED BY <1>4, <2>2 DEF MarksFit
<1> QED BY <1>8, <1>9, <1>10, <1>11, <1>12, <1>13 DEF CallsInv

LEMMA CallsInvStep ==
  ASSUME ClockOK, EInv, CallsInv, [Next]_vars
  PROVE  CallsInv'
<1>1. RowsOK /\ JobsOK
  BY DEF EInv
<1>2. ASSUME NEW p \in Processes, Step(p) PROVE CallsInv'
  BY <1>1, <1>2, MigrateCalls, CommitCalls, StartCalls, EndOkCalls, AccrueCalls, GiveUpCalls,
     SyncCalls, PlanCalls, ArchiveRowCalls, CloseArchiveCalls, StripCalls, DeleteCalls,
     SetOwnerCalls, RefreshCalls, TouchCalls, DieCalls DEF Step
<1> QED BY <1>1, <1>2, TickCalls DEF Next

-----------------------------------------------------------------------------
(* What the reports and the budget rest on *)

\* The rows, the ledger, the marks and the work under way fit together at all
\* times, whatever writes fail and whoever dies or migrates meanwhile.
THEOREM UpkeepCalls == Spec => [](MInv /\ ClockOK /\ EInv /\ CallsInv)
<1>1. Spec => []MInv
  BY UpkeepMigrates, MigrationsInv, PTL
<1>2. Init => ClockOK /\ EInv /\ CallsInv
  BY ClockInit, EInvInit, CallsInvInit
<1>3. MInv /\ ClockOK /\ EInv /\ CallsInv /\ [Next]_vars => ClockOK' /\ EInv' /\ CallsInv'
  BY ClockStep, EInvStep, CallsInvStep DEF MInv
<1> QED BY <1>1, <1>2, <1>3, PTL DEF Spec

\* Every variable of the upkeep keeps its shape, and work goes on only over an
\* open database.
THEOREM UpkeepTypeOK == Spec => []TypeOK
<1>1. MInv /\ ClockOK /\ EInv /\ CallsInv => TypeOK
  <2> SUFFICES ASSUME MInv, ClockOK, EInv, CallsInv PROVE TypeOK
    OBVIOUS
  <2>1. MTypeOK /\ today \in Days /\ clock \in Times /\ model \in Models
    BY DEF MInv, ClockOK
  <2>2. rows \in [Spans -> SpanRows \cup {NoSpan}]
    BY DEF EInv, RowsOK
  <2>3. /\ ledger \in [Days -> LedgerRows] /\ asset \in Assets /\ archived \subseteq Recorded
        /\ booked \in [Spans -> Days \cup {NoDay}] /\ bounds \in Bounds /\ struck \subseteq Days
    BY DEF CallsInv, RecordsOK
  <2>4. job \in [Processes -> Jobs \cup {NoJob}]
    BY DEF CallsInv, JobsFit
  <2>5. \A p \in Processes : job[p] # NoJob => mpc[p] = "open"
    BY DEF EInv, JobsOK
  <2> QED BY <2>1, <2>2, <2>3, <2>4, <2>5 DEF TypeOK
<1> QED BY <1>1, UpkeepCalls, PTL

\* The budget sees the calls that are billed: the marks of models and spans err
\* only as a missing backfill makes them err, and the mark of a day whose calls
\* are all of one kind is theirs, but for the same reason and for the backfill
\* that goes by the name of a model (month_cost, upsert_cost_daily, BACKFILLS).
THEOREM UpkeepBudgetSeesBilled == Spec => []BudgetSeesBilled
<1>1. MInv /\ ClockOK /\ EInv /\ CallsInv => BudgetSeesBilled
  <2> SUFFICES ASSUME MInv, ClockOK, EInv, CallsInv PROVE BudgetSeesBilled
    OBVIOUS
  <2>1. \A c \in Backfilled : Pending(c) => c \in Unrepaired
    BY PendingIs DEF MInv
  <2>2. RowsOK
    BY DEF EInv
  <2>3. model.billable # model.paid => ~model.paid /\ ModelFlag \in Unrepaired
    <3>1. model.paid \in BOOLEAN /\ model.billable \in BOOLEAN
      BY DEF ClockOK, Models
    <3> QED BY <2>1, <3>1, Settings DEF CallsInv, ModelFits
  <2>4. ASSUME NEW s \in Kept, rows[s].billable # rows[s].paid
        PROVE  ~rows[s].paid /\ (Doubtful(s) \/ (s \in bounds.old /\ SpanFlag \in Unrepaired))
    <3>1. s \in Recorded
      BY DEF Kept
    <3>2. rows[s].paid \in BOOLEAN /\ rows[s].resolved \in BOOLEAN
      BY <2>2, <3>1, RowType
    <3>3. ~rows[s].paid /\ (rows[s].resolved \/ (s \in bounds.old /\ Pending(SpanFlag)))
      BY <2>4, <3>1 DEF CallsInv, MarksFit
    <3> QED BY <2>1, <3>2, <3>3, Settings DEF Doubtful
  <2>5. ASSUME NEW d \in Days, NEW b \in BOOLEAN, Booked(d) # {},
               \A s \in Booked(d) : rows[s].paid = b, ledger[d].billable # b
        PROVE  IF b THEN d \in struck /\ model.everFlat
               ELSE \/ \E s \in Booked(d) : Doubtful(s)
                    \/ Booked(d) \subseteq bounds.old /\ CostFlag \in Unrepaired
    <3>1. MarkFits(d)
      BY <2>5 DEF CallsInv, LedgerFits
    <3>2. ledger[d].billable \in BOOLEAN
      BY DEF CallsInv, RecordsOK, LedgerRows
    <3>3. ASSUME NEW s \in Booked(d)
          PROVE  rows[s].resolved \in BOOLEAN /\ (b = TRUE => rows[s].resolved = TRUE)
      <4>1. s \in Recorded /\ rows[s].paid = b
        BY <2>5 DEF Booked
      <4> QED BY <2>2, <4>1, RowType DEF CallsInv, RowsFit
    <3>4. CASE b = TRUE
      <4>1. ledger[d].billable = FALSE
        BY <2>5, <3>2, <3>4
      <4> QED BY <3>1, <3>3, <3>4, <4>1 DEF MarkFits
    <3>5. CASE b = FALSE
      <4>1. ledger[d].billable = TRUE
        BY <2>5, <3>2, <3>5
      <4>2. Pending(CostFlag) => CostFlag \in Unrepaired
        BY <2>1, Settings
      <4> QED BY <2>5, <3>1, <3>5, <4>1, <4>2 DEF MarkFits, Doubtful
    <3> QED BY <3>4, <3>5
  <2> QED BY <2>3, <2>4, <2>5 DEF BudgetSeesBilled
<1> QED BY <1>1, UpkeepCalls, PTL

\* An asset is reported as unused exactly when no call of it was stored for so
\* long, whatever retention deleted and however far the catalogue is behind, when
\* retention keeps the spans for longer.
THEOREM UpkeepStaleIsUnused == Spec => []StaleIsUnused
<1>1. MInv /\ ClockOK /\ EInv /\ CallsInv => StaleIsUnused
  <2> SUFFICES ASSUME ClockOK, EInv, CallsInv, StaleDays < SpanDays
               PROVE  Stale <=> \A s \in Stored : rows[s].day < today - StaleDays
    BY DEF StaleIsUnused
  <2>1. /\ RowsOK /\ today \in Nat /\ SpanDays \in Nat /\ StaleDays \in Nat
        /\ StaleDays < SpanDays /\ NoDay \notin Days
    BY Settings DEF EInv, ClockOK
  <2>2. ASSUME NEW s \in Stored
        PROVE  /\ rows[s].day \in Nat /\ rows[s].day \in Days
               /\ s \notin Kept => rows[s].day < today - StaleDays
    <3>1. s \in Recorded /\ rows[s].is # "lost"
      BY DEF Stored
    <3>2. rows[s].day \in Nat /\ rows[s].day \in Days /\ rows[s].is \in {"lost", "kept", "deleted"}
      BY <2>1, <3>1, RowType, Settings
    <3>3. rows[s].is = "deleted" => rows[s].day <= today - SpanDays
      BY <2>1, <3>1, <3>2 DEF CallsInv, RowsFit, Older
    <3> QED BY <2>1, <3>1, <3>2, <3>3 DEF Kept
  <2>3. CASE Kept = {}
    <3>1. \A s \in Stored : rows[s].day < today - StaleDays
      BY <2>2, <2>3
    <3>2. LastUsed = NoDay
      BY <2>1, <2>3, LastUsedIs
    <3>3. LastReported = NoDay \/ \E s \in Stored : rows[s].day = LastReported
      BY <3>2 DEF LastReported, CallsInv, RecordsOK
    <3> QED BY <3>1, <3>3 DEF Stale
  <2>4. CASE Kept # {}
    <3>1. PICK s \in Kept : rows[s].day = LastUsed
      BY <2>1, <2>4, LastUsedIs
    <3>2. LastUsed \in Days /\ \A t \in Kept : rows[t].day <= LastUsed
      BY <2>1, <2>4, LastUsedIs
    <3>3. LastReported = LastUsed /\ LastUsed # NoDay /\ LastUsed \in Nat
      BY <2>1, <3>2, Settings DEF LastReported
    <3>4. Kept \subseteq Stored
      BY DEF Kept, Stored
    <3>5. ASSUME LastUsed < today - StaleDays, NEW t \in Stored
          PROVE  rows[t].day < today - StaleDays
      <4>1. CASE t \in Kept
        BY <2>1, <2>2, <3>2, <3>3, <3>5, <4>1
      <4> QED BY <2>2, <4>1
    <3>6. Stale <=> LastUsed < today - StaleDays
      BY <3>3 DEF Stale
    <3> QED BY <3>1, <3>4, <3>5, <3>6
  <2> QED BY <2>3, <2>4
<1> QED BY <1>1, UpkeepCalls, PTL

\* The two sources of the cost report agree over every window that retention
\* keeps, but for calls whose record is another day's or was lost (collect and
\* _period_totals).
LEMMA CostsAgreeHolds ==
  ASSUME ClockOK, RowsOK, CallsInv
  PROVE  CostsAgree
<1> SUFFICES ASSUME NEW d \in Days, NEW t \in Times,
                    d > today - SpanDays \/ (d = today - SpanDays /\ t >= clock)
             PROVE  LedgerSince(d) =
                      Cardinality({s \in SpansSince(d, t) : rows[s].costed /\ booked[s] # NoDay})
                      + Cardinality({s \in Recorded :
                                       /\ booked[s] >= d
                                       /\ \/ Before(s, d, t)
                                          \/ rows[s].is = "lost" \/ ~rows[s].costed})
  BY DEF CostsAgree
<1> DEFINE cost == [e \in Days |-> ledger[e].cost]
           window == d .. LastDay
           In    == {s \in SpansSince(d, t) : rows[s].costed /\ booked[s] # NoDay}
           Apart == {s \in Recorded : /\ booked[s] >= d
                                      /\ \/ Before(s, d, t)
                                         \/ rows[s].is = "lost" \/ ~rows[s].costed}
<1>1. d \in Nat /\ LastDay \in Nat /\ today \in Nat /\ SpanDays \in Nat /\ t \in Nat /\ clock \in Nat
  BY Settings DEF ClockOK
<1>2. IsFiniteSet(window) /\ IsFiniteSet(Recorded) /\ window \subseteq Days
  <2>1. IsFiniteSet(Recorded)
    BY BookedFinite
  <2>2. window \subseteq Days
    BY <1>1 DEF Days
  <2>3. IsFiniteSet(d .. LastDay)
    BY <1>1, FS_Interval
  <2> QED BY <2>1, <2>2, <2>3
<1>3. \A e \in window : cost[e] = Cardinality(Class(Recorded, booked, e))
  BY <1>2 DEF CallsInv, LedgerFits, Booked, Class
<1> HIDE DEF cost
<1>4. SumFunctionOnSet(cost, window) = Cardinality(Among(Recorded, booked, window))
  <2> HIDE DEF window
  <2> QED BY <1>2, <1>3, SumOfClasses
<1>5. LedgerSince(d) = SumFunctionOnSet(cost, window)
  BY DEF LedgerSince, cost
<1>6. ASSUME NEW s \in Recorded
      PROVE  /\ s \in In \cup Apart <=> booked[s] \in window
             /\ s \notin In \cap Apart
  <2>1. /\ rows[s].day \in Nat /\ rows[s].time \in Nat /\ s \in Spans
        /\ rows[s].is \in {"lost", "kept", "deleted"} /\ rows[s].costed \in BOOLEAN
    BY RowType, Settings
  <2>2. booked[s] = -1 \/ booked[s] \in 0 .. LastDay
    BY <2>1 DEF CallsInv, RecordsOK, Days, NoDay
  <2>3. /\ rows[s].is = "deleted" => Older(rows[s], today - SpanDays, clock)
        /\ booked[s] # -1 => rows[s].day <= booked[s]
    BY DEF CallsInv, RowsFit, NoDay
  <2>4. s \in In <=> /\ rows[s].is = "kept" /\ ~Before(s, d, t)
                     /\ rows[s].costed /\ booked[s] # -1
    BY DEF SpansSince, Kept, NoDay
  <2>5. s \in Apart <=> /\ booked[s] >= d
                        /\ Before(s, d, t) \/ rows[s].is = "lost" \/ ~rows[s].costed
    OBVIOUS
  <2>6. booked[s] \in window <=> booked[s] >= d
    BY <1>1, <2>2
  <2> HIDE DEF In, Apart, window
  <2>7. ~Before(s, d, t) => rows[s].day >= d /\ rows[s].is # "deleted"
    BY <1>1, <2>1, <2>3 DEF Before, Older
  <2>8. s \notin In \cap Apart
    BY <2>1, <2>4, <2>5
  <2>9. s \in In => booked[s] >= d
    BY <1>1, <2>1, <2>2, <2>3, <2>4, <2>7
  <2>10. booked[s] >= d => s \in In \cup Apart
    <3>1. booked[s] >= d => booked[s] # -1
      BY <1>1
    <3> QED BY <2>1, <2>4, <2>5, <2>7, <3>1
  <2> QED BY <2>5, <2>6, <2>8, <2>9, <2>10
<1>7. In \in SUBSET Recorded /\ Apart \in SUBSET Recorded
  BY DEF SpansSince, Kept
<1> HIDE DEF In, Apart, window
<1>8. Among(Recorded, booked, window) = In \cup Apart /\ In \cap Apart = {}
  BY <1>6, <1>7 DEF Among
<1>9. Cardinality(In \cup Apart) = Cardinality(In) + Cardinality(Apart)
  <2>1. IsFiniteSet(In) /\ IsFiniteSet(Apart)
    BY <1>2, <1>7, FS_Subset
  <2> QED BY <1>8, <2>1, DisjointUnion
<1>10. LedgerSince(d) = Cardinality(In) + Cardinality(Apart)
  BY <1>4, <1>5, <1>8, <1>9
<1> QED BY <1>10 DEF In, Apart

-----------------------------------------------------------------------------
(* The median of a series, and what stands out *)

Below(series, days, v)   == {d \in days : series[d] < v}
NoMore(series, days, v)  == {d \in days : series[d] <= v}

LEMMA TimesMonotone ==
  ASSUME NEW a \in Nat, NEW b \in Nat, NEW c \in Nat, a <= b
  PROVE  c * a \in Nat /\ c * b \in Nat /\ c * a <= c * b
<1>1. b - a \in Nat /\ b = a + (b - a)
  OBVIOUS
<1>2. c * (b - a) \in Nat /\ c * a \in Nat /\ c * b \in Nat
  BY <1>1
<1>3. c * b = c * a + c * (b - a)
  OBVIOUS
<1> QED BY <1>2, <1>3

LEMMA Sizes ==
  ASSUME NEW days, IsFiniteSet(days), NEW series, NEW v
  PROVE  /\ IsFiniteSet(Below(series, days, v)) /\ IsFiniteSet(NoMore(series, days, v))
         /\ Cardinality(Below(series, days, v)) \in Nat
         /\ Cardinality(NoMore(series, days, v)) \in Nat
<1>1. Below(series, days, v) \subseteq days /\ NoMore(series, days, v) \subseteq days
  BY DEF Below, NoMore
<1> QED BY <1>1, FS_Subset, FS_CardinalityType

\* The values of a series over finitely many days.
LEMMA ValuesFinite ==
  ASSUME NEW days, IsFiniteSet(days), NEW series, \A d \in days : series[d] \in Nat
  PROVE  {series[d] : d \in days} \in SUBSET Nat /\ IsFiniteSet({series[d] : d \in days})
<1> DEFINE f == [d \in days |-> series[d]]
           values == {series[d] : d \in days}
<1>1. f \in Surjection(days, values)
  BY DEF Surjection
<1> HIDE DEF f
<1>2. IsFiniteSet(values)
  <2> HIDE DEF values
  <2> QED BY <1>1, FS_Surjection
<1> QED BY <1>2

\* A finite series has an i-th smallest value.
LEMMA SmallestIs ==
  ASSUME NEW days, IsFiniteSet(days), NEW series, \A d \in days : series[d] \in Nat,
         NEW i \in Nat, 1 <= i, i <= Cardinality(days)
  PROVE  /\ Smallest(i, series, days) \in Nat
         /\ Cardinality(Below(series, days, Smallest(i, series, days))) < i
         /\ i <= Cardinality(NoMore(series, days, Smallest(i, series, days)))
<1> DEFINE values == {series[d] : d \in days}
           Enough == {v \in values : i <= Cardinality(NoMore(series, days, v))}
<1>1. values \in SUBSET Nat /\ IsFiniteSet(values)
  BY ValuesFinite
<1>2. values # {}
  <2>1. days # {}
    BY FS_EmptySet
  <2> QED BY <2>1
<1>3. Enough # {}
  <2> HIDE DEF values
  <2>1. Max(values) \in values /\ \A v \in values : Max(values) >= v
    BY <1>1, <1>2, MaxOfNats
  <2>2. \A v \in values : v \in Nat
    BY <1>1
  <2>3. \A d \in days : series[d] <= Max(values)
    BY <2>1, <2>2 DEF values
  <2>4. NoMore(series, days, Max(values)) = days
    BY <2>3 DEF NoMore
  <2> QED BY <2>1, <2>4
<1>4. Enough \in SUBSET Nat
  BY <1>1
<1> DEFINE v == Min(Enough)
<1>5. v \in Enough /\ \A w \in Enough : v <= w
  <2> HIDE DEF Enough
  <2> QED BY <1>3, <1>4, MinOfNats
<1>6. v \in values /\ v \in Nat /\ i <= Cardinality(NoMore(series, days, v))
  BY <1>1, <1>5
<1> HIDE DEF v
<1>7. Cardinality(Below(series, days, v)) < i
  <2> SUFFICES ASSUME i <= Cardinality(Below(series, days, v)) PROVE FALSE
    BY Sizes
  <2> DEFINE low == Below(series, days, v)
             lower == {series[d] : d \in low}
  <2>1. low \subseteq days /\ IsFiniteSet(low)
    BY Sizes DEF Below
  <2>2. low # {}
    <3>1. Cardinality({}) = 0
      BY FS_EmptySet
    <3> QED BY <3>1
  <2>3. \A d \in low : series[d] \in Nat /\ series[d] < v
    BY DEF Below
  <2> HIDE DEF low
  <2>4. lower \in SUBSET Nat /\ IsFiniteSet(lower)
    BY <2>1, <2>3, ValuesFinite
  <2>5. lower # {}
    BY <2>2
  <2> HIDE DEF lower
  <2>6. Max(lower) \in lower /\ \A x \in lower : Max(lower) >= x
    BY <2>4, <2>5, MaxOfNats
  <2>7. Max(lower) \in values /\ Max(lower) < v /\ Max(lower) \in Nat
    BY <2>1, <2>3, <2>6 DEF lower
  <2>8. low \subseteq NoMore(series, days, Max(lower))
    <3>1. \A d \in low : series[d] <= Max(lower)
      BY <2>3, <2>6, <2>7 DEF lower
    <3> QED BY <2>1, <3>1 DEF NoMore
  <2>9. i <= Cardinality(NoMore(series, days, Max(lower)))
    <3>1. /\ IsFiniteSet(NoMore(series, days, Max(lower)))
          /\ Cardinality(NoMore(series, days, Max(lower))) \in Nat
      BY Sizes
    <3>2. Cardinality(low) <= Cardinality(NoMore(series, days, Max(lower)))
      BY <2>8, <3>1, FS_Subset
    <3>3. i <= Cardinality(low) /\ Cardinality(low) \in Nat
      BY Sizes DEF low
    <3> QED BY <3>1, <3>2, <3>3
  <2>10. Max(lower) \in Enough
    BY <2>7, <2>9
  <2> QED BY <1>5, <1>6, <2>7, <2>10
<1> DEFINE Is(x) == /\ Cardinality({d \in days : series[d] < x}) < i
                   /\ i <= Cardinality({d \in days : series[d] <= x})
<1>8. Is(v)
  BY <1>6, <1>7 DEF Below, NoMore
<1>9. Smallest(i, series, days) = CHOOSE x \in values : Is(x)
  BY DEF Smallest
<1> HIDE DEF Is, values
<1>10. Smallest(i, series, days) \in values /\ Is(Smallest(i, series, days))
  BY <1>6, <1>8, <1>9
<1> QED BY <1>1, <1>10 DEF Is, Below, NoMore

\* Of an odd number of days, a day stands out when it is above the floor and
\* most of them, times the multiple, are no more than it.
LEMMA StandsOutIs ==
  ASSUME NEW days, IsFiniteSet(days), NEW series, \A d \in days : series[d] \in Nat,
         NEW x \in Nat, NEW n \in Nat, Cardinality(days) = n, n % 2 = 1
  PROVE  (TwiceMedian(series, days) > 0 /\ 2 * x < TwiceMedian(series, days) * Multiple)
           <=> ~(2 * Cardinality({d \in days : Multiple * series[d] <= x}) > n)
<1> DEFINE k == n \div 2 + 1
           m == Smallest(k, series, days)
           ordinary == {d \in days : Multiple * series[d] <= x}
<1>1. k \in Nat /\ (n + 1) \div 2 = k /\ n = 2 * k - 1 /\ 1 <= k /\ k <= n
  OBVIOUS
<1>2. Multiple \in Nat /\ Multiple # 0
  BY UpkeepAssumption
<1>3. TwiceMedian(series, days) = m + m
  BY <1>1 DEF TwiceMedian
<1> HIDE DEF k
<1>4. /\ m \in Nat /\ Cardinality(Below(series, days, m)) < k
      /\ k <= Cardinality(NoMore(series, days, m))
  BY <1>1, SmallestIs
<1> HIDE DEF m
<1>5. IsFiniteSet(ordinary) /\ Cardinality(ordinary) \in Nat
  BY FS_Subset, FS_CardinalityType
<1>6. Multiple * m \in Nat /\ (m + m) * Multiple = 2 * (Multiple * m)
  BY <1>2, <1>4
<1>7. CASE Multiple * m <= x
  <2>1. NoMore(series, days, m) \subseteq ordinary
    <3> SUFFICES ASSUME NEW d \in days, series[d] <= m PROVE Multiple * series[d] <= x
      BY DEF NoMore
    <3>1. Multiple * series[d] \in Nat /\ Multiple * series[d] <= Multiple * m
      BY <1>2, <1>4, TimesMonotone
    <3> QED BY <1>6, <1>7, <3>1
  <2> HIDE DEF ordinary
  <2>2. Cardinality(NoMore(series, days, m)) <= Cardinality(ordinary)
    BY <1>5, <2>1, FS_Subset
  <2>3. 2 * Cardinality(ordinary) > n
    BY <1>1, <1>4, <1>5, <2>2, Sizes
  <2> QED BY <1>3, <1>6, <1>7, <2>3 DEF ordinary
<1>8. CASE ~(Multiple * m <= x)
  <2>1. ordinary \subseteq Below(series, days, m)
    <3> SUFFICES ASSUME NEW d \in days, Multiple * series[d] <= x PROVE series[d] < m
      BY DEF Below
    <3>1. CASE m <= series[d]
      <4>1. Multiple * series[d] \in Nat /\ Multiple * m <= Multiple * series[d]
        BY <1>2, <1>4, <3>1, TimesMonotone
      <4> QED BY <1>6, <1>8, <4>1
    <3> QED BY <1>4, <3>1
  <2> HIDE DEF ordinary
  <2>2. Cardinality(ordinary) <= Cardinality(Below(series, days, m))
    BY <2>1, Sizes, FS_Subset
  <2>3. ~(2 * Cardinality(ordinary) > n)
    BY <1>1, <1>4, <1>5, <2>2, Sizes
  <2>4. m # 0
    <3>1. Multiple * 0 = 0
      BY <1>2
    <3> QED BY <1>8, <3>1
  <2> QED BY <1>3, <1>4, <1>6, <1>8, <2>3, <2>4 DEF ordinary
<1> QED BY <1>7, <1>8

\* The series of the report is the number of subscription calls, on a day whose
\* mark can tell.
LEMMA SubscriptionIs ==
  ASSUME BackfillKept, RowsOK, CallsInv, CostFlag \notin Unrepaired,
         NEW d \in (-BaselineDays) .. LastDay, ~Unclear(d)
  PROVE  /\ Subscription[d] = Cardinality(FlatOn(d))
         /\ Cardinality(FlatOn(d)) \in Nat
<1> DEFINE calls == Cardinality(FlatOn(d))
<1> SUFFICES Subscription[d] = calls /\ calls \in Nat
  OBVIOUS
<1> HIDE DEF calls
<1>1. ~Pending(CostFlag)
  BY PendingIs, Settings
<1>2. Subscription[d] = IF d \in Days /\ ~ledger[d].billable THEN ledger[d].cost ELSE 0
  BY DEF Subscription
<1>3. Cardinality({}) = 0
  BY FS_EmptySet
<1>4. CASE d \notin Days
  <2>1. FlatOn(d) = {}
    BY <1>4 DEF FlatOn
  <2>2. Subscription[d] = 0
    BY <1>2, <1>4
  <2>3. calls = 0
    BY <1>3, <2>1 DEF calls
  <2> QED BY <2>2, <2>3
<1>5. CASE d \in Days
  <2>1. \A s \in Booked(d) : /\ s \in Recorded /\ rows[s].paid \in BOOLEAN
                             /\ rows[s].resolved \in BOOLEAN
                             /\ (rows[s].paid => rows[s].resolved = TRUE)
    BY RowType DEF Booked, CallsInv, RowsFit
  <2>2. /\ \A s \in FlatOn(d) : s \in Booked(d) /\ ~rows[s].paid
        /\ \A s \in PaidOn(d) : s \in Booked(d) /\ rows[s].paid
        /\ \A s \in Booked(d) : s \in FlatOn(d) \/ s \in PaidOn(d)
    BY <1>5, <2>1 DEF FlatOn, PaidOn, Booked
  <2>3. /\ ledger[d].cost = Cardinality(Booked(d)) /\ ledger[d].billable \in BOOLEAN
        /\ IF Booked(d) = {} THEN ~ledger[d].billable ELSE MarkFits(d)
    BY <1>5 DEF CallsInv, RecordsOK, LedgerFits, LedgerRows
  <2>4. Cardinality(Booked(d)) \in Nat
    BY BookedFinite
  <2>5. CASE FlatOn(d) = {} /\ Booked(d) # {}
    <3>1. d \notin struck
      BY <2>2, <2>5 DEF Unclear
    <3>2. \A s \in Booked(d) : rows[s].resolved = TRUE
      BY <2>1, <2>2, <2>5
    <3>3. ledger[d].billable
      BY <1>1, <2>3, <2>5, <3>1, <3>2 DEF MarkFits
    <3>4. Subscription[d] = 0
      BY <1>2, <3>3
    <3>5. calls = 0
      BY <1>3, <2>5 DEF calls
    <3> QED BY <3>4, <3>5
  <2>6. CASE FlatOn(d) # {} \/ Booked(d) = {}
    <3>1. PaidOn(d) = {}
      BY <2>2, <2>6 DEF Unclear
    <3>2. FlatOn(d) = Booked(d)
      BY <2>2, <3>1
    <3>3. \A s \in Booked(d) : rows[s].resolved = FALSE
      BY <2>1, <2>2, <3>1, <3>2 DEF Unclear, Doubtful
    <3>4. ~ledger[d].billable
      BY <1>1, <2>3, <3>3 DEF MarkFits
    <3>5. Subscription[d] = ledger[d].cost
      BY <1>2, <1>5, <3>4
    <3>6. calls = Cardinality(Booked(d))
      BY <3>2 DEF calls
    <3> QED BY <2>3, <2>4, <3>5, <3>6
  <2> QED BY <2>5, <2>6
<1> QED BY <1>4, <1>5

\* A day is reported exactly when its calls under a subscription stand out
\* (find_anomalies).
LEMMA AnomaliesAgreeHolds ==
  ASSUME BackfillKept, ClockOK, RowsOK, CallsInv
  PROVE  AnomaliesAgree
<1> DEFINE calls(e) == Cardinality(FlatOn(e))
           before(d) == (d - BaselineDays) .. (d - 1)
           ordinary(d) == {e \in before(d) : Multiple * calls(e) <= calls(d)}
<1>1. ASSUME NEW d \in 0 .. today, BaselineDays % 2 = 1, CostFlag \notin Unrepaired,
             ~ \E e \in before(d) \cup {d} : Unclear(e)
      PROVE  d \in Anomalies(0) <=>
               calls(d) >= Floor /\ 2 * Cardinality(ordinary(d)) > BaselineDays
  <2>1. /\ BaselineDays \in Nat /\ BaselineDays # 0 /\ LastDay \in Nat /\ Floor \in Nat
        /\ today \in Nat /\ today <= LastDay /\ d \in Nat /\ d <= LastDay /\ d <= today
    BY <1>1, UpkeepAssumption DEF ClockOK, Days
  <2>2. before(d) \cup {d} \subseteq (-BaselineDays) .. LastDay
    BY <2>1
  <2>3. ASSUME NEW e \in before(d) \cup {d}
        PROVE  Subscription[e] = calls(e) /\ calls(e) \in Nat
    <3>1. ~Unclear(e)
      BY <1>1, <2>3
    <3>2. e \in (-BaselineDays) .. LastDay
      BY <2>2
    <3> HIDE DEF before
    <3> QED BY <1>1, <3>1, <3>2, SubscriptionIs
  <2>4. IsFiniteSet(before(d)) /\ Cardinality(before(d)) = BaselineDays
    <3>1. /\ d - BaselineDays \in Int /\ d - 1 \in Int /\ ~(d - BaselineDays > d - 1)
          /\ (d - 1) - (d - BaselineDays) + 1 = BaselineDays
      BY <2>1
    <3> QED BY <3>1, FS_Interval
  <2>5. Baseline(d) = before(d)
    BY DEF Baseline
  <2> HIDE DEF before
  <2>6. /\ \A e \in before(d) : Subscription[e] \in Nat /\ Subscription[e] = calls(e)
        /\ Subscription[d] = calls(d) /\ calls(d) \in Nat
    BY <2>3
  <2> HIDE DEF calls
  <2>7. ordinary(d) = {e \in before(d) : Multiple * Subscription[e] <= calls(d)}
    BY <2>6
  <2>8. (/\ TwiceMedian(Subscription, before(d)) > 0
         /\ 2 * calls(d) < TwiceMedian(Subscription, before(d)) * Multiple)
          <=> ~(2 * Cardinality({e \in before(d) : Multiple * Subscription[e] <= calls(d)})
                  > BaselineDays)
    BY <1>1, <2>1, <2>4, <2>6, StandsOutIs
  <2>9. d \in Anomalies(0) <=> StandsOut(Subscription, d)
    BY <2>1 DEF Anomalies
  <2> QED BY <2>5, <2>6, <2>7, <2>8, <2>9 DEF StandsOut
<1> QED BY <1>1 DEF AnomaliesAgree

\* The reports agree with each other and with what happened, whatever retention
\* deletes, calls cross midnight and models are redefined (collect,
\* _period_totals, find_anomalies).
THEOREM UpkeepReportsAgree == Spec => []ReportsAgree
<1>1. MInv /\ ClockOK /\ EInv /\ CallsInv => ReportsAgree
  BY CostsAgreeHolds, AnomaliesAgreeHolds DEF MInv, EInv, ReportsAgree
<1> QED BY <1>1, UpkeepCalls, PTL
=============================================================================
