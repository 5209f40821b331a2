# Verification of the LLMOps framework (ELF)

TLA+ models of the framework's own logic, TLC runs on small instances, and
theorems checked by TLAPS. Paths such as `quota.py:85` are below
`src/llmops/`; `docs/` is the repository's documentation.

The framework is a Python library embedded in several applications. All of them
share one SQLite file (WAL mode); there is no server. Each method of
`db/repository.py` executes one statement and commits it, so whatever spans two
methods is not atomic, and another process or thread may run in between. That is
where the hard questions of this code are, and it fixes the grain of the models:
**one action per committed statement or per read**.

## 1. The system

| Component | State it keeps | Operations | Talks to | What is hard |
|---|---|---|---|---|
| Gateway (`gateway/gateway.py`) | none but its frames | `complete`, `_invoke_once`, `_fallback` | Guard, Tracer, Cost, Prompt and Model Registry, adapters | retries, fallback by recursion, failures of every callee |
| Guard (`guard/quota.py`) | reads `spans`, `budgets`, `cost_daily`; writes `audit_logs` | `check` | Repository | decides on numbers that change before the decision is used |
| Tracer (`observability/tracer.py`) | `traces`, `spans` | `start_trace`, `end_trace`, `start_span`, `end_span` | Repository | best effort: any write may be lost; numbering races |
| Cost (`observability/cost.py`) | `cost_daily` | `estimate`, `resolve_cost`, `accrue`, `month_total` | Repository | booked after the call and apart from the span |
| Prompt Registry (`prompt/registry.py`) | `prompt_versions`, `prompt_transitions`, `prompt_deployments` | `sync`, `submit`, `approve`, `reject`, `publish`, `deprecate`, `archive`, `rollback`, `canary`, `resolve` | prompt files, publish gate, Repository | read, decide, write in separate statements; crash between status and pointer |
| Deployer (`governance/deploy.py`) | the same deployment row | `canary`, `promote`, `rollback`, `stop_canary` | Prompt Registry | rewrites a row from a stale copy |
| Publish gate (`eval/gate.py`) | reads `eval_runs` | `__call__` | Repository | evaluation and publication of the same version |
| Evaluation (`eval/runner.py`, `regression.py`, `judge.py`, ...) | `eval_runs`, `eval_results`, `eval_cases` | `run`, `judge_run`, add a case | Gateway, Model Registry | runs that die, latest by a one-second clock, baseline read late |
| SDK (`sdk/client.py`, `sdk/compat.py`) | `traces` | `trace`, `complete`, `complete_raw`, `LLMClient` | Gateway, Tracer | processes that share a trace by external id |
| Model Registry (`registry/model_registry.py`) | `model_versions` | `sync`, `resolve` | `models.yaml` | a model changes while it is in use |
| Database (`db/connection.py`, `db/repository.py`) | the schema | `init_schema`, `apply_migrations` | SQLite | committed DDL before its backfill |
| Retention (`governance/retention.py`) | `spans`, archive files | `plan`, `apply` | Repository | three steps that may stop half way |
| Catalogue (`governance/catalog.py`, `weekly.py`) | `asset_catalog` | `set_owner`, `refresh_usage`, `stale` | Repository | what is stored is behind what can be derived, which retention deletes |
| Reports and anomalies (`observability/report.py`, `anomaly.py`) | read only | `collect`, `find_anomalies` | Repository | two sources for one number; which days count |
| Policies (`guard/policy.py`) | read only | checks | Repository | what a query leaves out |
| Loader, renderer, adapters, CLI, configuration | none | text, processes, values | | not state machines |

Every place of this kind that we know is in `PROJECT.json` under `hazards`, at
its line, with the properties that would notice it going wrong, or the reason
why none does yet.

What makes the components correct, in one sentence each: the gateway never calls
a provider that the guard did not admit and the tracer did not record, and comes
to an end; the limit and the budgets are exceeded by at most what concurrency
makes unavoidable; the ledger never says more than was charged; a version that
production uses was evaluated, forced on record or imported; rollback goes back,
a canary gets its share, and nothing is published without evidence; an
evaluation that passes was made with the models it names and graded by its
judge; an article gets one trace from the compatibility client, and its status tells
the truth; a process that
has opened the database finds every column; no text is deleted before it is
archived; and the reports agree with each other and with what happened.

## 2. Modules

| Module | What it is |
|---|---|
| `Gateway` | `complete()` with guard, tracer, ledger: the request path |
| `AdmittedCalls` | abstract specification: calls are made under admissions and on record |
| `PromptRegistry` | one prompt's versions, deployment row and commands |
| `EvalRuns` | evaluation runs, the verdict, the publish gate on their rows, the closed loop |
| `SdkTraces` | who opens a trace, which calls go under it, who closes it |
| `Migrations` | processes that open an old database and bring it up to date |
| `Upkeep` | the records over the days, on top of `Migrations`: bookings, retention, catalogue, reports, anomalies |
| `MCGateway`, `MCAdmittedCalls`, `MCPromptRegistry`, `MCEvalRuns`, `MCSdkTraces`, `MCUpkeep` | values of the constants for TLC |
| `AdmittedCallsProofs`, `GatewayProofs`, `GatewayRefinement`, `PromptRegistryProofs`, `EvalRunsProofs`, `SdkTracesProofs`, `UpkeepProofs` | theorems about these; `UpkeepProofs` has those about `Migrations` as well |
| `SumTheorems` | what sums over finite sets compute, and the greatest, the least and the classes of such sets; used by the other proofs |

Definitions prefixed by a comment `Bug:` are mistakes somebody could make in the
definition below them. No specification uses them. Replacing the definition by
its bug must make TLC refute a property; `PROJECT.json` lists the pairs
(`mutants`).

### Gateway

A client is a process or thread that holds an `LLMOps` handle. Its locals are the
frame of `complete()`; `pc` is the next statement:

| `pc` | Code | Action |
|---|---|---|
| `idle` | application | `Submit` |
| `prepare` | `_prepare_text`, `models.resolve` | `Prepare`, `PrepareRejected` |
| `guard` | `count_spans` and the comparison (`quota.py:81-98`) | `GuardCallsPass`, `GuardCallsExceeded`, `GuardReadFails` |
| `global`, `system` | `budget_states`: one read of the month's total per scope | `ReadGlobalBudget`, `ReadSystemBudget`, `GuardReadFails` |
| `budget` | the loop of `_check_budget`, with its audit rows | `BudgetsPass`, `BudgetExceeded` |
| `loop` | the attempt loop (`gateway.py:101`) and `_fallback` | `NextAttempt`, `Fallback`, `GiveUp` |
| `seq`, `insert` | the two statements of `start_span` | `ReadSeq`, `InsertSpan` |
| `invoke` | the adapter and the parsing of its answer | `InvokeOk`, `InvokeFails` |
| `close`, `accrue` | `end_span`, `CostTracker.accrue`, return | `CloseSpan`, `Accrue` |
| `closeFailed` | `_end_failed` | `CloseFailed` |

State and code: `spans` is the table, per trace and in insertion order, with the
columns the properties tell apart; `row` is the span id a frame holds; `cost` is
`cost_daily` of the month; `audited` the subjects of `quota.exceeded` rows.
`made`, `bill` and `lost` are history: what reached the provider, what
it charged, and which span INSERTs failed. A database fault may strike any
statement; what follows is what the code does with it: the tracer, the ledger and
the audit swallow it (or raise it, for the tracer, with `trace.strict`), the
guard's reads raise it. A crash ends the frame anywhere and keeps the tables.

Three things are data: prompts and texts (a request is rejected or goes on),
prices and tokens (a call is estimated at `Estimate` and charged one of
`Charges`; when the adapter reports no cost, any amount is booked), and model
definitions (constants). The provider is external.

### AdmittedCalls

Seven definitions without prompts, money or answers. A client is admitted for
`n` calls if `n` more rows fit its limit at that moment; each call is recorded,
or its record is lost, before it is made; the rest of an admission can be given
up or withdrawn. `Gateway!Admission` maps the gateway to it: an admission begins
when the guard has counted and ends with the frame, or when the fallback goes
back to the guard; what is left is the attempts that have not inserted their row.

### PromptRegistry

Operators are `llmops` processes. A command is started with its arguments, does
its statements one by one, and may die between any two of them (a statement that
raises ends it in the same way). `at` is the next statement:

| `at` | Code |
|---|---|
| `latest`, `insert` | `_sync_one`: latest version, INSERT (primary key `(prompt_id, version)`) |
| `choose`, `gate` | `publish`: `_version_in`, then `PublishGate` or the row of `--force` |
| `pick`, `write`, `trail` | `_transition`: choose and look up, UPDATE, INSERT into `prompt_transitions` |
| `state`, `clear` | `Deployer.rollback` stopping a canary first |
| `base`, `list`, `check`, `point` | the read of the row, the list of versions, the check of the target, `set_deployment` |

`Point` is the one UPSERT that `publish`, `sync`, `rollback`, `canary`, `promote`
and `stop_canary` share; `NewActive` says what each writes: `canary` and
`stop_canary` the active version they read before, the others their target.
`resolve()` is `ChosenVersion`, over all hundred buckets.

`imported`, `alone` and `deployed` are history; `forced` and `explained`
abstract `audit_logs` and `prompt_transitions`. Audit rows that nobody reads
back are left out. Initial states are a fresh database, one in use, and one with
a running canary. The CLI always injects the gate, so `publish` has it; a
program that builds a `PromptRegistry` without one is not modelled.

### EvalRuns

A runner is a process inside `EvalRunner.run`; `frame` holds its locals and `pc`
the next statement:

| `pc` | Code | Action |
|---|---|---|
| `idle` | the command | `Start` |
| `guard` | `_guard_judge_model` | `GuardJudge` |
| `generatorMode`, `judgeMode` | `_resolve_mode`, one model after the other | `ReadGeneratorMode`, `ReadJudgeMode` |
| `list`, `trace`, `insert` | `list_eval_cases`, `start_trace`, `insert_eval_run` | `ListCases`, `StartTrace`, `InsertRun` |
| `case` | generation and rules of `_run_case`; at the end `trace_totals` | `Generate`, `GenerateFails`, `ReadTotals` |
| `judge` | `Judge.score` for the next metric | `AskJudge`, `JudgeFails` |
| `deployment`, `baseline` | the two reads of `_baseline` | `ReadDeployment`, `ReadBaseline` |
| `finish`, `report` | `judge_run` and `finish_eval_run`; `end_trace` and the audit row | `Finish`, `Report` |

`runs`, `results`, `cases`, `published`, `active` and `def` are the tables, with
the columns somebody decides on. The publish gate is two actions, `PassGate` and
`Publish`, because other processes may act in between; the closed loop is
`CheckCase` and `AddCase`. `SyncModel` redefines a model at any time, blocked ones
included (`resolve` then raises, and where it raises decides whether the run
stops or one case fails). A call through the gateway is one action, with three
outcomes that matter here: an answer, the answer of a fallback model with its
degraded span, or that answer with the span lost. Scores are integers up to
`Full`; averages round down where the code has floats, and no property depends on
the fraction. A suite without a judge is `Weights = <<>>`: a case then has score full or
0, and none at all when a rule failed and `deterministic_first` is on
(`ScoreWithoutJudge`). `fed` is history: what kind of answers a run was judged on.

### SdkTraces

A process is one run of an application, with an `LLMClient`, a stack of `with
ops.trace(...)` blocks and nothing else; started again it remembers nothing. Its
`pc` follows one call: `lookup` and `open` (`_trace_id`), `budget`
(`ensure_budget`), `audit` (`complete_raw`), `guard`, `record` and `answer` (the
gateway, attempt by attempt, with one fallback), and the end: `derive` and `close`
(`finish`, `finish_open_traces`). Rows of `traces` and counts of `spans` are
tables; `made`, `lost`, `overlapped`, `excused` and `abandoned` are history and
say what the properties allow for. `with ops.trace(...)` (`Enter`) stores a new trace
each time, also for an `external_id` that has one; a client that starts again finds
the newest, and counts the calls of that one only.

### Migrations and Upkeep

`mpc` is where a process is inside `init_schema`: `check` (one column of
`MIGRATIONS` after the other), `alter`, `backfill`, `schema`, `open`. Python's
`sqlite3` opens a transaction before an UPDATE and not before an ALTER TABLE, so
the columns up to the first backfill are committed one by one and the rest all at
once; `writer` and `draft` are that transaction. `bare` are the columns in which old
rows still hold the default, `cut` those whose process ended before it got to
the backfill. `Mended` are the columns whose backfill is in the transaction; what the
UPDATE does to the rows of others is seen when it is committed.

`Upkeep` extends it: only an open process works, and only when no migration is
being written. The time is a day (`today`) and a time of day (`clock`), and `Tick` may
come between any two steps, so a call may take any time. `job` is what a process is
busy with:

| Actions | Code |
|---|---|
| `Start`, `StartLost` | `models.resolve` and `start_span`; or its INSERT fails and the call goes on |
| `EndOk`, `EndFailed` | `end_span` with the cost, which may fail; `_end_failed`, without cost and booking |
| `Accrue`, `AccrueFails` | `upsert_cost_daily`, whatever became of the row, under the day it is by then; or it gives up |
| `SyncModel` | a new version of the model, billed or part of a subscription |
| `Plan`, `ArchiveRow`, `CloseArchive`, `Strip`, `Delete`, `RetentionFails` | `plan` with its cutoffs to the time of day (`Before`, `OlderThan`), then `apply` |
| `SetOwner`, `Refresh`, `Touch` | the catalogue |
| `CommitBackfills` | the commit of a migration, with `MendSpans`, `MendModel` and `MendCosts` |

Archive lines go through the buffer of the file, so a process that dies has written
any part of them. The foreign key of `parent_span_id` refuses a whole `DELETE`
(`RetentionFails`). A row of `rows` says of a call whether its row was stored, lost or
deleted, what the version that served it is (`paid`), how that version was marked when
the call resolved it (`resolved`), and how its own row is marked. The first two
backfills go by the adapter of the row; that of `cost_daily` goes by the name of the
model (`NamedDays`), and so marks each day of a model of which *any* version was
`claude_cli` or `mock` (`everFlat`). `struck` is history: the days it marked that were
not booked since. A database to start from may have old rows of billed calls as well
as of others.

The reports are operators: `SpansSince` (from a moment, by the second) and
`LedgerSince` (from a day) for the two sources of the cost report, `Stale` for the
weekly report, `Anomalies` for `find_anomalies` with `TwiceMedian` for
`statistics.median` (doubled, to stay in the integers).

## 3. Runs

All bounds are constants of the modules, enforced in guards, never by a state
constraint. Distinct states are rounded.

| Run | Instance | States | Asks |
|---|---|---|---|
| `gateway_single` | 1 client, 2 traces, fallback chain of 3 models, 2 requests, 1 fault, 1 crash | 148 k | `TypeOK`; the exact limit of an own trace |
| `gateway_shared` | 2 clients, 1 trace, `strict`, 2 requests each, 1 fault, 1 crash | 750 k | spans closed once, by their id; the bound on the excess; refinement of `AdmittedCalls` |
| `gateway_budget` | 2 systems, global and own budgets, one of them soft, a subscription model that falls back to a charged one, estimates below charges, 2 requests each | 682 k | ledger, overspending, unjustified refusals |
| `gateway_live` | 2 clients, fallback cycle, `hard_quota: false`, 0 or 3 attempts, 1 fault | 245 k | every request ends; overruns leave an audit row |
| `admitted_calls` | 3 clients with limits 2, 3, 2 and 2 traces | 159 k | the promise's own invariants |
| `registry` | 2 operators, 2 commands, 3 databases, 1 edit, 1 evaluation, 1 overlap, 1 crash | 704 k | clearance, evidence, deployment, rollback, canary, sync |
| `eval_runs` | 2 runs of 2 versions and a tick; 1 run with 4 definitions of each model, 1 redefinition, 1 lost span, 1 death; 1 run with a case added; 4 cases from 2 jobs and by hand; 2 weighted metrics | 430 k | what a pass, a publication and a baseline rest on |
| `sdk_traces` | 2 processes, 3 launches, 1 article; up to 3 calls with retry and fallback, restarts, faults, deaths, `with` blocks with and without the article; 6 scenarios | 1.4 M | traces and calls per article, derived status, who closes |
| `upkeep` | 2 processes, databases of 4 releases, 3 spans, 4 days of 2 times; 10 scenarios | 0.8 M | schema, archive, marks of the ledger, reports, anomalies, stale assets |
| `gateway_limit_race` | as `gateway_shared`, 1 request | | **refutes** `LimitEnforced` |
| `gateway_failed_cost` | 1 client, every charge 1, budget 2 | | **refutes** `QuotaStops` |
| `registry_pointer` | `sync`, then `deprecate` | | **refutes** `DeploymentPublished` |

Why the bounds are enough. A race in this code needs two parties, a statement of
one between two of the other, so two clients and two operators; both registry
commands may be any of the fifteen, in any order or interleaved. A limit of 3
with reservations of 2 has a state in which exactly one reservation fits; two
requests per client have the second one meet what the first left. One fault and
one crash reach every single point of failure, and a crash and a fault together
in one behaviour. Three runs (`eval_runs`, `sdk_traces`, `upkeep`) take a set of scenarios instead of one large instance: each says how
often each thing may happen, so that what has to meet does meet (two runs and
the gate; a redefinition and a run; overlapping retention and a death) without
the product of everything. An evaluation has up to two cases and each grade may
be 0, full or missing, which gives every order of errors and scores; four days of two
times with windows of one and two days have rows on both sides of each cutoff and on
it, also on the day of the cutoff itself, and a baseline of three days has medians of 0
and 1. One old billed row and a model that was once part of a subscription are enough
for a day that the backfill by name takes out of the budget; one fault loses the INSERT,
the end or the booking of a call, each without the others. The theorems below are for every
number of clients, operators, requests, faults and crashes.

What each property means is in the comment above it. The ones that carry most:

* `CallsWithinLimit`, `SharedOvershootBounded`: a limit of L calls is exact on a
  trace one client uses. Clients that share a trace pass it by at most one
  reservation each, except one of them. Spans whose INSERT was lost are not counted.
* `BudgetOvershootBounded`: a budget is passed by at most one answer of each
  client that spends from it, less the estimate the last of them left room for,
  even when estimates are below what calls cost (`estimate` counts a quarter of
  the characters as tokens and as many for the answer).
* `RefusalJustified`: the ledger may lag behind the bill; nobody is refused for
  money that was not charged.
* `PublishedWasCleared`, `DeployedWasCleared`: whatever interleaves and dies, what
  is or was published, and whatever a trace can be routed to, passed an evaluation
  of that very version, was forced on record, or was imported with that status.
* `LegalWhenAlone`, `RollbackGoesBack`, `CanaryKeepsActive`, `SyncConverges`: what
  a command promises when no other one runs. With two operators each of these is
  false in the code, as the condition on `alone` says; `LegalWhenAlone` still
  lets only an interrupted command take a forbidden step.
* `PublishedGetsDeployed`, `ChangesExplained`, `LedgerDerived`: pairs of
  statements that belong together do stay together unless a process dies (for the
  ledger, or a statement fails).
* `AlarmsHaveCause` (in `DeployedWasCleared`): `eval_before_publish` complains
  about the active version only with a cause: it was forced, was imported, or
  failed an evaluation after the one that cleared it.
* `PassIsClean`: `fail_on_degraded` and `mock_is_wiring_check` keep stand-ins
  and mocks out of passing runs, except through a span that was lost or a model
  that was redefined after the run looked at it. Both exceptions are real.
* `EvidenceSound`, `VerdictSound`: a publication rests on the newest finished
  evaluation of that version, up to the second; a verdict fits for ever the row
  it was compared with; errors and score are those of the result rows.
* `TracesPerArticle`, `ArticleWithinLimit`, `StatusTrue`, `RunningIsHeld`: what
  the compatibility client promises, with the exceptions written out: overlapping
  calls may open a trace each; a `with` block for the article opens a further one, and
  with it comes a further allowance; the retries of a fallback are not reserved; a
  process that goes on under a closed trace makes its status stale; a dead one
  closes nothing.
* `NothingErased`: no text that was stored goes before it is archived, through
  overlapping retention runs, deaths and the foreign key.
* `BudgetSeesBilled`: every wrong mark has one of the reasons it names. A call of a
  subscription counts as billed only through a column that is not migrated, a backfill
  that was cut off, or a call that read such a mark; a billed day does not count only
  because the backfill by name took it out and nothing was booked on it since.
* `ReportsAgree`: `CostsAgree` says which calls the ledger has and the spans of the same
  window do not (booked in the window and begun before it, to the second; or without a
  row, or without its end), and that nothing else is missing or counted twice, for any
  window after the cutoff of retention. `AnomaliesAgree` says the days reported are those
  that stand out in what was really called, unless the marks of a day cannot tell.
* `StaleIsUnused` holds when spans are kept for longer than the days of no use
  (`StaleDays < SpanDays`); otherwise retention deletes what tells of the use.

### Fairness

Only `gateway_live` assumes any: weak fairness of each client's `Step`, that is,
of `complete()` once it has started. A statement returns or raises (SQLite's busy
timeout ends a wait) and an adapter call ends (`claude_cli` gives
`subprocess.run` a timeout, the SDK has one of its own). Nothing makes an
application call again, so `Submit` is not fair, and `Crash` and faults are not
either. `RequestEnds` then rests on the attempt counter and on `no_fallback`.

### What the refuted runs show

* **`LimitEnforced`.** `quota.py:6` and `docs/05_既存システム統合.md:77` say the
  guard enforces the limit of calls per trace. Two clients of one trace (the
  compatibility client finds traces by external id, so processes do share them)
  both count before either inserts, and both are admitted. The excess is bounded
  (`SharedOvershootBounded`).
* **`QuotaStops`.** `docs/01_要件定義.md:110` and `:188` say calls stop beyond the
  monthly budget. An answer that was charged and cannot be used is recorded
  without cost and never accrued, so the guard does not see it.
* **`DeploymentPublished`.** `docs/02_基本設計.md:273` says the deployment row
  points to a published version. `deprecate` does not look at the row.

### Behaviour worth knowing

None of these contradicts a sentence of the repository, so they are not listed as
findings; the models have them, and the properties allow for them.

* A trace that `_trace_id_for` opens for a call outside any `with` block is never
  closed and stays `running`.
* The status of a trace is derived when it is closed; calls that follow (from
  another process, or from the same one after `finish`) do not change it until
  somebody closes it again.
* When the INSERT of a trace fails, all spans under it are lost too (foreign key),
  and with them the count the limits rest on.
* `latest_eval_run` and `find_trace_by_external_id` break ties within one second
  arbitrarily.
* `refresh_usage` may write back an older day than another process just wrote.
* A backfill is lost for ever if its process dies between `ALTER TABLE` and the
  commit: the column is there, and nobody looks back.
* The backfill of `cost_daily` goes by the name of the model (`connection.py:74-77`).
  A model that was once `claude_cli` or `mock` and is billed now loses all its billed
  days from the budget when an old database is migrated; a booking on such a day brings
  the whole day back.
* Each `with ops.trace(..., external_id=a)` opens one more trace of the article
  (`client.py:193`). A client that starts again finds the newest (`repository.py:570`),
  and the calls under the older ones count no longer.
* The total of a cost report and its comparison with the period before come from
  different sources, cut differently: spans by the second (`report.py:169`), the ledger
  by the day (`report.py:239-246`). A call whose span was lost is in the second only.
* While a kept span names an old parent, the `DELETE` of retention fails as a
  whole, each time, after archiving and stripping.

## 4. Proofs

Every safety invariant and every action property that a passing run checks is
also proved, for all values of the constants; so is the refinement. The
assumptions are `GatewayAssumption`, `TablesAssumption`, `AdmissionAssumption`,
`RegistryAssumption`, `EvalRunsAssumption`, `SdkTracesAssumption`,
`JobsAssumption`, `MigrationsAssumption`, `UpkeepAssumption` and
`NoSpanAssumption`; TLC evaluates them in the runs of the modules that declare
them. They say that the configuration has values of the right kind, that tables
are finite, that placeholders such as `NoJob` are none of the values they stand
in for, and that a database to start from names versions it has. A few are orders
of the shipped configuration that `config.py` does not enforce: `span_text_days`
(180) is positive and not above `span_days` (730), and `retry_max` (2) is positive.
`--stale-days` (90) is not assumed to be below `span_days`; `StaleIsUnused` has that as
its condition.

**Sums** (`SumTheorems`). The ledger, the averages and the reports add up over
finite sets, with `SumFunctionOnSet` of the community modules: a fold, defined by
choosing a recursive function. The lemmas show that the function exists, that the
sum does not depend on the order, and what one element more, one value changed or
one class of elements contributes. The library's induction theorems cannot be
instantiated here; the lemmas use that the subsets of a finite set are
well-founded instead, and look at a *smallest* set for which the claim fails.

**AdmittedCalls** (`AdmittedCallsProofs`). `TypeOK`, `CallsRecorded`,
`OvershootBounded`, `OwnTraceWithinLimit`. The limit is not inductive as it
stands, because a call is counted long before it is made. What is inductive is a
count of tickets: one for every call that a current admission on the trace still
covers. Rows and tickets together never exceed the limit plus one admission of
each other sharer (`TicketInv`): recording trades a ticket for a row, an admission
adds at most `A` tickets to rows that fitted the limit, and the others hold at
most `A` tickets each. The tickets are a finite set, so the library's theorems on
cardinality do the arithmetic. `OwnInv` is the same with one client, exactly.

**Gateway, rows and money** (`GatewayProofs`). `TypeOK`, then:

* `ClosedSpanFinal`, from `RowInv`: between the INSERT and the end of the span a
  client holds an open row that no other client holds. Numbers repeat, ids do not.
* `LedgerDerived`: without faults `cost_daily` is the sum over closed spans less
  the answers on their way to `accrue`. It needs `EveryCallHasRow`: only a failed
  INSERT leaves a call without one.
* `RefusalJustified`: a budget found too small stays too small, because the bill
  only grows (`OverTrue`), and what is booked or about to be was charged
  (`BookedWasBilled`).
* `BudgetOvershootBounded`: the bound is not inductive, since a client that has
  read the total still may book. `RoomLeft` says it for the clients inside: the
  use, one highest charge for each client that still may book, and the estimate
  that the last admission left room for stay below the budget plus one highest
  charge for each client that may spend from it.

**Gateway, calls** (`GatewayRefinement`). The refinement `Spec => Admission!Spec`
needs `CountInv`: the frame's row, attempt number and reservation agree, and a
call was recorded or its record lost. Every action maps to an action of
`AdmittedCalls` or to a stutter: the guard's count is `Admit`, the insertion
`Record`, the two answers `Call`, an attempt that fails before the insertion
`Forgo`, and refusal, fallback, return and crash `Withdraw`. The limit's theorems
are then those of the abstract specification, read through the mapping
(`SharedOvershootBounded`, `CallsWithinLimit`). `OverrunsAudited` rests on
`AuditInv`: while a trace of one client is not in the audit log, its rows and the
calls its client may still record fit the limit.

**PromptRegistry** (`PromptRegistryProofs`). `TypeOK` says no row and no frame
names a version that does not exist; versions are only ever appended.

* Clearance is not inductive alone, because `publish` acts on what the gate said
  some statements ago, and `set_deployment` on a row read earlier. `ClearedInv`
  adds what each label knows: from `pick` on, the target of a publish is cleared;
  from `check` on, that of a rollback or promote; the row that `canary` and
  `stop_canary` read names cleared versions; and *cleared* is stable, since
  verdicts and forced rows never go away.
* `ChangesExplained` and `PublishedGetsDeployed`, from `TrailInv`: what is not on
  record or not deployed yet has a command at `trail` or `point` that will do it,
  and only a crash takes that command away.
* The four action properties about commands that ran alone rest on `SoleInv`: if
  no other command was inside since this one began, what it has read is still so
  - the row it will write back, the version it will go back to, the next number,
  the legality of the step.
* `CanaryShare` is a counting argument over the buckets.

**EvalRuns** (`EvalRunsProofs`). Two layers of invariants.

* `CleanInv`, for `PassIsClean`: a stand-in's answer shows in the degraded rows of
  the run's trace, or its span was lost (`Told`); the total read at the end keeps
  that; and a run in evaluation mode knows none of its models is a mock, or has
  been told of a redefinition (`MockKnown`).
* `RowsInv`, for `TypeOK`, `VerdictSound` and `EvidenceSound`: nobody else writes
  the row of a runner (`OwnRows`), its counts agree with the result rows it wrote
  (`Tally`), a score in the making lies between multiples of the least and the
  greatest grade (`Between`, kept by the weighted average through `SumWithin`), a
  baseline is a finished evaluation of another version from the moment it is read
  (`IsBase`), and what the gate saw are rows that do not change any more (`Cites`).
* `CasesInv`, for `DuplicatesBounded`: a span's cases and the jobs that found none
  of it are together at most the jobs.

**SdkTraces** (`SdkTracesProofs`). `BasicInv` says what a process remembers of a
trace is true of its row, and that a trace is opened by one client or block.

* `RunningIsHeld`: the traces that somebody will close (`Holding`) only lose what
  is closed, lost or abandoned in the same step.
* `StatusTrue`, from `StatusInv`: what `derive` read is still what the rows say
  when `close` writes it, or a process that does not close the trace has gone on
  under it and the trace is excused.
* `TracesPerArticle`: until a call or a block begins during a call for an article, one
  process at a time is inside a call for it (`SoleCaller`), so whoever found no trace is
  still right when it opens one, and a client's trace is the first (`ClientFirst`);
  afterwards each process opens one at most, as it remembers it or finds it
  (`FewTraces`).
* `ArticleWithinLimit`: `own` counts the rows under a trace that a client called for its
  article. Their sum over the traces of the article is the calls made, less the lost ones
  (`RowsAreCalls`); each trace has at most `Ceiling` of them, and what a call at each
  label has left fits under the limit of the client or, after a fallback, under that of
  the gateway (`Room`, `LeftFits`). The sum of the ceilings bounds the sum
  (`SumBounded`).

**Migrations and Upkeep** (`UpkeepProofs`). `MInv` says what a process knows behind
each label: columns before `next` are there or their table is not
(`ProgressSound`), only the writer has a draft, which contains what is committed
(`WriterSound`). `OpenIsComplete` and the fate of the backfills follow. Every
behaviour of `Upkeep` is one of `Migrations` (`UpkeepMigrates`): each action is a
step of it or leaves its variables alone; so completeness carries over.

* `NothingErased` needs `ArchiveAhead`: what a retention run has read is among its
  lines or in the archive, and once the file is closed all that it will strip or
  delete is in the archive.
* `CallsInv` ties rows, ledger and work together, in parts: what a process in the middle
  of its work knows (`JobsFit`: a call under way has a row or lost it, and is not booked; a
  row to be deleted is past the cutoff, which only moves on); what a row says (`RowsFit`:
  deleted rows began before the cutoff, a booking is never earlier than its call, what is
  billed was never read as anything else); what a day of the ledger says (`LedgerFits`: it
  counts the calls booked on it, and its mark comes from one of them, from the backfill by
  name, or from the default that a backfill has still to correct); and which marks may err
  (`ModelFits`, `MarksFit`). `Pending` is a column that is not there or not backfilled
  yet; `CommitBackfills` is the one action that ends it, and it mends the rows in the
  same step.
* `BudgetSeesBilled` follows because a pending column is one of `Unrepaired`
  (`BackfillKept`), `StaleIsUnused` because what was deleted is older than any asset that
  counts as used, when `StaleDays < SpanDays`.
* `ReportsAgree` has two parts. For the cost, the ledger since a day is the number
  of calls booked since (`SumOfClasses`); after the cutoff no row is deleted, so these are
  the spans of the window with a cost that were booked, and apart from them the calls that
  began before it or whose record is missing.
  For the anomalies, a finite series has an i-th smallest value (`SmallestIs`); of
  an odd number of days the median is one of them, and a day reaches `Multiple`
  times the median exactly when it reaches `Multiple` times the value of most
  days (`StandsOutIs`).

Out of the prover's reach, and only checked by TLC: `RequestEnds`, which is
liveness under fairness. The three refuted properties are refuted by TLC.
Everything a theorem says, it says of the model; section 5 lists what the models
leave out.

## 5. What is not modelled

`PROJECT.json` lists every component with its status. Left out are

* text: the loader and renderer of prompts, the parsing in the adapters, the
  deterministic rules and groundedness, every report's wording and order. What the
  models need of them is a choice between their outcomes;
* policies: read-only, one query each;
* the command line but for the commands that change state, and configuration,
  which are constants;
* the trace counts, the worst day and the text of anomalies, and latency in
  reports;
* `TraceContext.child`, which keeps a list of step names;
* two `sync` of `models.yaml` at once (the primary key stops the second), and the
  synchronisation of suites.

Simplifications inside the models. A `commit()` that fails after a successful
`execute()` leaves SQLite's transaction open and the next statement commits both;
a fault in the models loses its statement instead. In `Gateway` the month does not
end, and a model's definition, a budget row and the configuration do not change
during a behaviour; redefinitions are in `EvalRuns` and `Upkeep`. In
`PromptRegistry` evaluation runs are reduced to the verdict of the latest one of
each version; in `EvalRuns` the commands of the registry are one step. `Upkeep`
has one system and one model, each call costs 1, and resolving the model and `start_span`
are one step. The mark of a version follows its adapter; a `billable` in `models.yaml`
that contradicts it is left out. A commit of a migration and the rows it mends are one
step, as they are for other connections. Reports are read at one moment.

## 6. Plan

1. `PromptTraffic`: traces that resolve a prompt while its row changes, so that one
   article may be written with two versions.
2. `EvalRuns` composed with `PromptRegistry`: the gate's evidence between the
   statements of `publish`, in one module.
3. Policies as operators against reference definitions over bounded tables.
4. `Upkeep` with two systems and two models, for the grouping of the ledger.
5. Proofs: that `TypeOK` and clearance carry over to the composed registry, by
   refinement; how close to its bound a budget or a trace can come is only shown
   by TLC.
