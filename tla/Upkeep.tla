------------------------------- MODULE Upkeep -------------------------------
(***************************************************************************)
(* The records over the days: calls that are recorded, ended and booked,   *)
(* each best-effort (gateway/gateway.py, observability/tracer.py and       *)
(* cost.py), model definitions that change between being billed and being  *)
(* part of a subscription (registry/model_registry.py), retention that     *)
(* archives, strips and deletes spans (governance/retention.py), the asset *)
(* catalogue (governance/catalog.py) and what the reports read from all    *)
(* that (observability/report.py, governance/weekly.py).  Every process    *)
(* first opens the database, as in Migrations, whose backfills reach old   *)
(* rows here; one action is one committed statement or one read.           *)
(*                                                                         *)
(* There is one system and one logical model, and each call costs 1.  A    *)
(* version of the model is billed unless its adapter is claude_cli or mock *)
(* (default_billable).  What comes before a call is the subject of Gateway.*)
(***************************************************************************)
EXTENDS Migrations, FiniteSetsExt, Functions

CONSTANTS
  Spans,      \* ids of spans
  NoSpan,     \* no parent_span_id
  SpanFlag,   \* the column spans.billable
  ModelFlag,  \* the column model_versions.billable
  CostFlag,   \* the column cost_daily.billable
  LastDay,    \* bound: the days are 0 .. LastDay
  LastTime,   \* bound: the times of a day are 0 .. LastTime
  TextDays,   \* retention.span_text_days
  SpanDays,   \* retention.span_days
  StaleDays,  \* days without use after which an asset is reported
  BaselineDays, \* anomaly.baseline_days
  Multiple,   \* anomaly.cost_multiple
  Floor,      \* anomaly.min_cost_usd
  NoJob,      \* no work under way
  Scenarios   \* bounds: how often each thing may happen, see Bounds

Days  == 0 .. LastDay
Times == 0 .. LastTime
NoDay == -1

\* The database to start from, its old calls, whether the latest version of the
\* model is billed, and whether any version was not (flat); processes that open
\* the database, calls, runs of retention, of refresh-usage and of set-owner,
\* model definitions that change, writes that fail, deaths.
Bounds == [release : Releases, old : SUBSET Spans, paid : BOOLEAN, flat : BOOLEAN,
           opens : Nat, calls : Nat, retentions : Nat, refreshes : Nat, owners : Nat,
           syncs : Nat, faults : Nat, crashes : Nat]

ASSUME UpkeepAssumption ==
  /\ IsFiniteSet(Spans) /\ NoSpan \notin Spans
  /\ {SpanFlag, ModelFlag, CostFlag} \subseteq Backfilled
  /\ LastDay \in Nat /\ LastTime \in Nat
  /\ TextDays \in Nat \ {0} /\ SpanDays \in Nat /\ TextDays <= SpanDays
  /\ StaleDays \in Nat
  /\ BaselineDays \in Nat /\ Multiple \in Nat \ {0} /\ Floor \in Nat
  /\ Scenarios \subseteq Bounds
  /\ \A b \in Scenarios : ~b.paid => b.flat

VARIABLES
  today, clock, \* the day and the time, in UTC
  rows,     \* the calls, with their rows of spans; see SpanRows
  ledger,   \* table cost_daily
  model,    \* the versions of the model
  archived, \* spans whose text is in the archive
  asset,    \* the row of the model in asset_catalog
  job,      \* what each process is busy with
  booked,   \* history: the day on which each call was booked
  struck,   \* history: days that the backfill of cost_daily marked, and not booked since
  bounds    \* how often things may still happen

records == <<today, clock, rows, ledger, model, archived, asset, booked, struck>>
uvars   == <<records, job, bounds>>
vars    == <<mvars, uvars>>

\* A call whose row was not inserted, or was deleted, is remembered.  It began
\* on a day at a time; its cost is in the row when it was ended; paid is what the
\* version that served it is, resolved the mark the call read of that version.
SpanRows   == [is : {"lost", "kept", "deleted"}, day : Days, time : Times, text : BOOLEAN,
               parent : Spans \cup {NoSpan}, costed : BOOLEAN,
               paid : BOOLEAN, resolved : BOOLEAN, billable : BOOLEAN]
LedgerRows == [cost : Nat, billable : BOOLEAN]
\* The latest version and its mark; was any version part of a subscription?
Models     == [paid : BOOLEAN, billable : BOOLEAN, everFlat : BOOLEAN]
Assets     == [registered : BOOLEAN, last : Days \cup {NoDay}]
Retentions == [step : {"archive", "strip", "delete"}, strip : SUBSET Spans,
               delete : SUBSET Spans, todo : SUBSET Spans, lines : SUBSET Spans]
Jobs       == [step : {"end", "accrue"}, span : Spans]
              \cup Retentions \cup [step : {"touch"}, last : Days]

ASSUME NoSpanAssumption == NoSpan \notin SpanRows

Recorded == {s \in Spans : rows[s] # NoSpan}
Kept     == {s \in Recorded : rows[s].is = "kept"}
Stored   == {s \in Recorded : rows[s].is # "lost"}

\* The mark of old data: a column that is still to come will hold its default, 1.
OldMark(c, paid) == paid \/ (TableOf[c] \in tables /\ c \notin has)

OldCall(paid) ==
  [is |-> "kept", day |-> 0, time |-> 0, text |-> TRUE, parent |-> NoSpan, costed |-> TRUE,
   paid |-> paid, resolved |-> paid, billable |-> OldMark(SpanFlag, paid)]

Init ==
  /\ MInit
  /\ bounds \in {b \in Scenarios : b.release = [tables |-> tables, has |-> has]}
  /\ today = 0 /\ clock = 0
  /\ model = [paid |-> bounds.paid, billable |-> OldMark(ModelFlag, bounds.paid),
              everFlat |-> bounds.flat]
  /\ \E paid \in [bounds.old -> IF bounds.flat THEN BOOLEAN ELSE {TRUE}] :
       /\ rows = [s \in Spans |-> IF s \in bounds.old THEN OldCall(paid[s]) ELSE NoSpan]
       /\ \E mark \in IF bounds.old = {} THEN {FALSE}
                      ELSE {OldMark(CostFlag, paid[s]) : s \in bounds.old} :
            ledger = [d \in Days |-> IF d = 0
                                     THEN [cost |-> Cardinality(bounds.old), billable |-> mark]
                                     ELSE [cost |-> 0, billable |-> FALSE]]
  /\ booked = [s \in Spans |-> IF s \in bounds.old THEN 0 ELSE NoDay]
  /\ struck = {}
  /\ archived = {}
  /\ asset = [registered |-> FALSE, last |-> NoDay]
  /\ job   = [p \in Processes |-> NoJob]

-----------------------------------------------------------------------------
(* Building blocks *)

Once(b) == bounds[b] > 0 /\ bounds' = [bounds EXCEPT ![b] = @ - 1]

Idle(p)     == mpc[p] = "open" /\ job[p] = NoJob
At(p, l)    == mpc[p] = "open" /\ job[p] # NoJob /\ job[p].step = l
Begin(p, j) == job' = [job EXCEPT ![p] = j]
End(p)      == Begin(p, NoJob)

\* While a migration is being written, nobody else writes.
MayWrite(p) == Free(p) /\ UNCHANGED mvars

\* A best-effort write that fails with a warning: the database is locked, or
\* there is another fault.
Fails(p) ==
  /\ IF Free(p) THEN Once("faults") ELSE UNCHANGED bounds
  /\ UNCHANGED mvars

\* A call began before that moment.
Before(s, d, t) == rows[s].day < d \/ (rows[s].day = d /\ rows[s].time < t)

-----------------------------------------------------------------------------
(* Calls *)

NewCall(is, parent) ==
  [is |-> is, day |-> today, time |-> clock, text |-> is = "kept", parent |-> parent,
   costed |-> FALSE, paid |-> model.paid, resolved |-> model.billable,
   billable |-> model.billable]

\* The model is resolved and start_span inserts the row; a parent is any call
\* the application still has the id of.
Start(p) ==
  /\ Idle(p) /\ MayWrite(p)
  /\ Once("calls")
  /\ \E s \in Spans \ Recorded, parent \in Kept \cup {NoSpan} :
       /\ rows' = [rows EXCEPT ![s] = NewCall("kept", parent)]
       /\ Begin(p, [step |-> "end", span |-> s])
  /\ UNCHANGED <<today, clock, ledger, model, archived, asset, booked, struck>>

\* The INSERT fails, also because the parent is not stored, and the call goes on.
StartLost(p) ==
  /\ Idle(p) /\ bounds.calls > 0
  /\ \/ /\ ~Free(p) \/ Recorded \ Kept # {}
        /\ bounds' = [bounds EXCEPT !.calls = @ - 1]
     \/ /\ bounds.faults > 0
        /\ bounds' = [bounds EXCEPT !.calls = @ - 1, !.faults = @ - 1]
  /\ \E s \in Spans \ Recorded :
       /\ rows' = [rows EXCEPT ![s] = NewCall("lost", NoSpan)]
       /\ Begin(p, [step |-> "end", span |-> s])
  /\ UNCHANGED <<mvars, today, clock, ledger, model, archived, asset, booked, struck>>

\* A usable answer: end_span updates the row, if there is one; accrue follows,
\* whatever became of the row.
EndOk(p) ==
  /\ At(p, "end")
  /\ \/ /\ MayWrite(p) /\ UNCHANGED bounds
        /\ rows' = IF job[p].span \in Kept
                   THEN [rows EXCEPT ![job[p].span].text = TRUE, ![job[p].span].costed = TRUE]
                   ELSE rows
     \/ Fails(p) /\ UNCHANGED rows
  /\ job' = [job EXCEPT ![p].step = "accrue"]
  /\ UNCHANGED <<today, clock, ledger, model, archived, asset, booked, struck>>

\* _end_failed: neither a cost nor a booking.
EndFailed(p) ==
  /\ At(p, "end")
  /\ End(p)
  /\ UNCHANGED <<mvars, records, bounds>>

\* Bug: what is booked is marked as the model is defined now.
MarkNow(j) == model.billable

\* The definition that the call resolved.
Mark(j) == rows[j.span].resolved

\* upsert_cost_daily: under the day of the booking; the latest mark wins.
Accrue(p) ==
  /\ At(p, "accrue") /\ MayWrite(p)
  /\ ledger' = [ledger EXCEPT ![today] = [cost |-> @.cost + 1, billable |-> Mark(job[p])]]
  /\ booked' = [booked EXCEPT ![job[p].span] = today]
  /\ struck' = struck \ {today}
  /\ End(p)
  /\ UNCHANGED <<today, clock, rows, model, archived, asset, bounds>>

\* accrue gives up without a word.
AccrueFails(p) ==
  /\ At(p, "accrue") /\ Fails(p)
  /\ End(p)
  /\ UNCHANGED records

\* ModelRegistry.sync after a change of models.yaml: the new version is marked
\* as its adapter is.
SyncModel(p) ==
  /\ Idle(p) /\ MayWrite(p)
  /\ Once("syncs")
  /\ \E paid \in BOOLEAN :
       model' = [paid |-> paid, billable |-> paid, everFlat |-> model.everFlat \/ ~paid]
  /\ UNCHANGED <<today, clock, rows, ledger, archived, asset, job, booked, struck>>

-----------------------------------------------------------------------------
(* Retention *)

\* spans_older_than: before this time of day, that many days ago.
OlderThan(days) == {s \in Kept : Before(s, today - days, clock)}

\* Bug: one cutoff for both.
OldRowsByText == OlderThan(TextDays)

\* spans_older_than(span_cutoff)
OldRows == OlderThan(SpanDays)

\* plan; nothing is changed yet.
Plan(p) ==
  /\ Idle(p)
  /\ Once("retentions")
  /\ LET delete == OldRows
         strip  == {s \in OlderThan(TextDays) : rows[s].text} \ delete
     IN  IF strip \cup delete = {} THEN UNCHANGED job
         ELSE Begin(p, [step |-> "archive", strip |-> strip, delete |-> delete,
                        todo |-> strip \cup delete, lines |-> {}])
  /\ UNCHANGED <<mvars, records>>

\* Bug: only rows that go altogether are archived.
LinesOfDeleted(p, s) == IF s \in Kept /\ rows[s].text /\ s \in job[p].delete THEN {s} ELSE {}

\* get_span: a row that is gone is passed over; one that was stripped meanwhile
\* gives a line without the text.
Lines(p, s) == IF s \in Kept /\ rows[s].text THEN {s} ELSE {}

\* archive, row by row, through the buffer of the file.
ArchiveRow(p) ==
  /\ At(p, "archive")
  /\ \E s \in job[p].todo :
       job' = [job EXCEPT ![p].todo = @ \ {s}, ![p].lines = @ \cup Lines(p, s)]
  /\ UNCHANGED <<mvars, records, bounds>>

CloseArchive(p) ==
  /\ At(p, "archive") /\ job[p].todo = {}
  /\ archived' = archived \cup job[p].lines
  /\ job' = [job EXCEPT ![p].step = "strip"]
  /\ UNCHANGED <<mvars, today, clock, rows, ledger, model, asset, booked, struck, bounds>>

\* strip_span_text: the text goes, all the rest stays.
Strip(p) ==
  /\ At(p, "strip") /\ MayWrite(p)
  /\ rows' = [s \in Spans |-> IF s \in job[p].strip \cap Kept
                              THEN [rows[s] EXCEPT !.text = FALSE] ELSE rows[s]]
  /\ job' = [job EXCEPT ![p].step = "delete"]
  /\ UNCHANGED <<today, clock, ledger, model, archived, asset, booked, struck, bounds>>

\* A kept span names one of these as its parent.
Referenced(ids) == \E s \in Kept \ ids : rows[s].parent \in ids \cap Kept

\* delete_spans, then the audit row.
Delete(p) ==
  /\ At(p, "delete") /\ ~Referenced(job[p].delete) /\ MayWrite(p)
  /\ rows' = [s \in Spans |-> IF s \in job[p].delete \cap Kept
                              THEN [rows[s] EXCEPT !.is = "deleted"] ELSE rows[s]]
  /\ End(p)
  /\ UNCHANGED <<today, clock, ledger, model, archived, asset, booked, struck, bounds>>

\* The foreign key of parent_span_id refuses the whole DELETE, or the database
\* is locked: the command ends, the text is stripped, no audit row tells it.
RetentionFails(p) ==
  /\ \/ At(p, "delete") /\ Referenced(job[p].delete)
     \/ (At(p, "strip") \/ At(p, "delete")) /\ ~Free(p)
  /\ Disconnect(p) /\ End(p)
  /\ UNCHANGED <<records, bounds>>

-----------------------------------------------------------------------------
(* The catalogue *)

\* model_last_used; NoDay without spans.
LastUsed == IF Kept = {} THEN NoDay ELSE Max({rows[s].day : s \in Kept})

\* upsert_asset
SetOwner(p) ==
  /\ Idle(p) /\ MayWrite(p)
  /\ Once("owners")
  /\ asset' = [asset EXCEPT !.registered = TRUE]
  /\ UNCHANGED <<today, clock, rows, ledger, model, archived, job, booked, struck>>

\* Bug: a model without any span left is written back as well.
NewerOrNone == TRUE

\* There is a last use to write back.
Newer == LastUsed # NoDay

\* refresh_usage reads both moments of last use, and writes if they differ, were
\* it by a second; a model that is not registered is not looked at.
Refresh(p) ==
  /\ Idle(p) /\ asset.registered
  /\ Once("refreshes")
  /\ \/ Newer /\ Begin(p, [step |-> "touch", last |-> LastUsed])
     \/ LastUsed \in {NoDay, asset.last} /\ UNCHANGED job
  /\ UNCHANGED <<mvars, records>>

Touch(p) ==
  /\ At(p, "touch") /\ MayWrite(p)
  /\ asset' = [asset EXCEPT !.last = job[p].last]
  /\ End(p)
  /\ UNCHANGED <<today, clock, rows, ledger, model, archived, booked, struck, bounds>>

\* Bug: the day in the catalogue comes before the one derived from the spans.
LastReportedStored ==
  IF asset.registered /\ asset.last # NoDay THEN asset.last ELSE LastUsed

\* AssetCatalog._build: derived from the spans, else as the catalogue has it.
LastReported ==
  IF LastUsed # NoDay THEN LastUsed ELSE IF asset.registered THEN asset.last ELSE NoDay

\* AssetCatalog.stale, which the weekly report shows.
Stale == LastReported = NoDay \/ LastReported < today - StaleDays

-----------------------------------------------------------------------------
(* What the cost reports read *)

\* collect: the spans since a moment, of which those with a cost count.
SpansSince(d, t) == {s \in Kept : ~Before(s, d, t)}
\* _period_totals: the ledger since a day.
LedgerSince(d) == SumFunctionOnSet([e \in Days |-> ledger[e].cost], d .. LastDay)

\* daily_cost_by_system(billable=False), back to the first day that a baseline
\* may have; a day without a row counts as 0.
Subscription ==
  [d \in (-BaselineDays) .. LastDay |->
     IF d \in Days /\ ~ledger[d].billable THEN ledger[d].cost ELSE 0]

\* The i-th smallest value of a series over some days.
Smallest(i, series, days) ==
  CHOOSE v \in {series[d] : d \in days} :
    /\ Cardinality({d \in days : series[d] < v}) < i
    /\ i <= Cardinality({d \in days : series[d] <= v})

\* statistics.median, doubled: of an even number it is the mean of two.
TwiceMedian(series, days) ==
  LET n == Cardinality(days)
  IN  Smallest((n + 1) \div 2, series, days) + Smallest(n \div 2 + 1, series, days)

\* Bug: the day itself is part of what it is compared with.
BaselineWithDay(d) == (d - BaselineDays + 1) .. d

Baseline(d) == (d - BaselineDays) .. (d - 1)

\* detect: a day above the floor, unless it is below a multiple of the median
\* of the days before, which says nothing when it is 0.
StandsOut(series, d) ==
  LET base == TwiceMedian(series, Baseline(d))
  IN  /\ series[d] >= Floor
      /\ ~(base > 0 /\ 2 * series[d] < base * Multiple)

\* find_anomalies, of which the report shows the worst day.
Anomalies(since) ==
  IF BaselineDays = 0 THEN {} ELSE {d \in since .. today : StandsOut(Subscription, d)}

-----------------------------------------------------------------------------
(* The surroundings *)

\* Time passes, also while calls, migrations and retention are under way.
Tick ==
  /\ \/ clock < LastTime /\ clock' = clock + 1 /\ UNCHANGED today
     \/ clock = LastTime /\ today < LastDay /\ clock' = 0 /\ today' = today + 1
  /\ UNCHANGED <<mvars, rows, ledger, model, archived, asset, booked, struck, job, bounds>>

\* A process dies, or ends: of the lines it had not written, the file has any.
Die(p) ==
  /\ mpc[p] # "down"
  /\ Once("crashes")
  /\ Disconnect(p) /\ End(p)
  /\ \E flushed \in SUBSET IF At(p, "archive") THEN job[p].lines ELSE {} :
       archived' = archived \cup flushed
  /\ UNCHANGED <<today, clock, rows, ledger, model, asset, booked, struck>>

Migrate(p) ==
  /\ Advance(p)
  /\ IF mpc[p] = "down" THEN Once("opens") ELSE UNCHANGED bounds
  /\ UNCHANGED <<records, job>>

\* The backfills of spans and of model_versions go by the adapter of the row.
MendSpans ==
  rows' = [s \in Spans |-> IF s \in Kept /\ ~rows[s].paid
                           THEN [rows[s] EXCEPT !.billable = FALSE] ELSE rows[s]]
MendModel == model' = IF model.paid THEN model ELSE [model EXCEPT !.billable = FALSE]

\* The backfill of cost_daily goes by the name of the model: when any version of
\* it had such an adapter, all its days are marked.
NamedDays == {d \in Days : model.everFlat /\ ledger[d].cost > 0}
MendCosts ==
  /\ ledger' = [d \in Days |-> IF d \in NamedDays THEN [ledger[d] EXCEPT !.billable = FALSE]
                               ELSE ledger[d]]
  /\ struck' = struck \cup NamedDays

\* The transaction of a migration is committed, with its backfills.
CommitBackfills(p) ==
  /\ Commit(p)
  /\ IF SpanFlag  \in Mended(p) THEN MendSpans ELSE UNCHANGED rows
  /\ IF ModelFlag \in Mended(p) THEN MendModel ELSE UNCHANGED model
  /\ IF CostFlag  \in Mended(p) THEN MendCosts ELSE UNCHANGED <<ledger, struck>>
  /\ UNCHANGED <<today, clock, archived, asset, booked, job, bounds>>

Step(p) ==
  \/ Migrate(p) \/ CommitBackfills(p)
  \/ Start(p) \/ StartLost(p) \/ EndOk(p) \/ EndFailed(p) \/ Accrue(p) \/ AccrueFails(p)
  \/ SyncModel(p)
  \/ Plan(p) \/ ArchiveRow(p) \/ CloseArchive(p) \/ Strip(p) \/ Delete(p)
  \/ RetentionFails(p) \/ SetOwner(p) \/ Refresh(p) \/ Touch(p)
  \/ Die(p)

Next == Tick \/ \E p \in Processes : Step(p)

Spec == Init /\ [][Next]_vars

-----------------------------------------------------------------------------
(* Properties *)

\* Every variable keeps its shape; a process works only on an open database.
TypeOK ==
  /\ MTypeOK
  /\ today \in Days /\ clock \in Times
  /\ rows \in [Spans -> SpanRows \cup {NoSpan}]
  /\ ledger \in [Days -> LedgerRows]
  /\ model \in Models
  /\ archived \subseteq Recorded
  /\ asset \in Assets
  /\ job \in [Processes -> Jobs \cup {NoJob}]
  /\ booked \in [Spans -> Days \cup {NoDay}]
  /\ struck \subseteq Days
  /\ bounds \in Bounds
  /\ \A p \in Processes : job[p] # NoJob => mpc[p] = "open"

\* No text that was stored is lost before it is in the archive, whatever
\* retention runs overlap, die between archive, strip and delete, or fail at the
\* foreign key (the promise at the head of retention.py).
NothingErased ==
  \A s \in Stored : rows[s].is = "deleted" \/ ~rows[s].text => s \in archived

\* The two sources of the cost report, over every window that starts after the
\* cutoff of retention: the ledger, by days, holds the cost of the spans, by the
\* second, but for calls that were not booked, and besides holds only calls that
\* were booked on these days and began before the window, or whose INSERT or end
\* was lost.  Nothing else is missing from the spans (collect, _period_totals).
CostsAgree ==
  \A d \in Days, t \in Times :
    LET in    == {s \in SpansSince(d, t) : rows[s].costed /\ booked[s] # NoDay}
        apart == {s \in Recorded : /\ booked[s] >= d
                                   /\ \/ Before(s, d, t)
                                      \/ rows[s].is = "lost" \/ ~rows[s].costed}
    IN  d > today - SpanDays \/ (d = today - SpanDays /\ t >= clock) =>
          LedgerSince(d) = Cardinality(in) + Cardinality(apart)

\* Columns whose old rows may hold the default still.
Unrepaired == cut \cup (Columns \ has) \cup UNION {Unfinished(p) : p \in Processes}

\* A call that read the wrong mark of its model.
Doubtful(s) == rows[s].resolved # rows[s].paid

\* The calls that were booked on a day.
Booked(d) == {s \in Recorded : booked[s] = d}

\* The budget sees the calls that are billed.  A mark that is wrong counts a call
\* of a subscription as billed, because its column is not migrated yet, a process
\* died or was refused while it migrated, or the call read such a mark itself.
\* On a day whose calls are all billed or all part of a subscription, the mark of
\* the ledger is that of the calls but for the same reasons; and but for the
\* backfill of cost_daily, which takes days out of the budget whose model had any
\* version under a subscription, until they are booked again (month_cost,
\* upsert_cost_daily, BACKFILLS).
BudgetSeesBilled ==
  /\ model.billable # model.paid => ~model.paid /\ ModelFlag \in Unrepaired
  /\ \A s \in Kept :
       rows[s].billable # rows[s].paid =>
         ~rows[s].paid /\ (Doubtful(s) \/ (s \in bounds.old /\ SpanFlag \in Unrepaired))
  /\ \A d \in Days, b \in BOOLEAN :
       /\ Booked(d) # {}
       /\ \A s \in Booked(d) : rows[s].paid = b
       /\ ledger[d].billable # b
       => IF b THEN d \in struck /\ model.everFlat
          ELSE \/ \E s \in Booked(d) : Doubtful(s)
               \/ Booked(d) \subseteq bounds.old /\ CostFlag \in Unrepaired

\* The calls of a day that were part of a subscription, and the others.
FlatOn(d) == {s \in Booked(d) : d \in Days /\ ~rows[s].paid}
PaidOn(d) == {s \in Booked(d) : d \in Days /\ rows[s].paid}

\* Days whose mark cannot tell: the model was redefined, a call read a wrong
\* mark, or billed calls were taken out of the budget by the backfill.
Unclear(d) ==
  \/ FlatOn(d) # {} /\ PaidOn(d) # {}
  \/ \E s \in FlatOn(d) : Doubtful(s)
  \/ d \in struck /\ PaidOn(d) # {}

\* What no budget holds back is watched: a day is reported exactly when its
\* calls under a subscription cost enough, and on most of the days before no
\* more than their part of it, whatever retention deleted meanwhile and whether
\* or not their spans were stored (anomaly.py).
AnomaliesAgree ==
  LET reported == Anomalies(0)
  IN  \A d \in 0 .. today :
        LET calls(e) == Cardinality(FlatOn(e))
            before   == (d - BaselineDays) .. (d - 1)
            ordinary == {e \in before : Multiple * calls(e) <= calls(d)}
        IN  /\ BaselineDays % 2 = 1
            /\ CostFlag \notin Unrepaired
            /\ ~ \E e \in before \cup {d} : Unclear(e)
            => (d \in reported <=>
                  calls(d) >= Floor /\ 2 * Cardinality(ordinary) > BaselineDays)

\* The reports agree with each other and with what happened.
ReportsAgree == CostsAgree /\ AnomaliesAgree

\* An asset is reported as unused exactly when no call of it was stored for so
\* long, even when its spans are deleted and the catalogue is behind, provided
\* that retention keeps the spans for longer (weekly report).
StaleIsUnused ==
  StaleDays < SpanDays =>
    (Stale <=> \A s \in Stored : rows[s].day < today - StaleDays)
=============================================================================
