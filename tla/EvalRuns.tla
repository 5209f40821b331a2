------------------------------ MODULE EvalRuns ------------------------------
(***************************************************************************)
(* Evaluation runs of one prompt: the runner (eval/runner.py), the judge   *)
(* (eval/judge.py), the verdict (eval/regression.py), the publish gate     *)
(* that believes it (eval/gate.py) and the closed loop that adds cases     *)
(* (eval/closed_loop.py).                                                  *)
(*                                                                         *)
(* Runners, weekly jobs and the operator who publishes are processes on    *)
(* one SQLite file.  One action is one committed statement, one read of a  *)
(* table that others write, or one call through the gateway, whose own     *)
(* steps are the subject of Gateway.  Meanwhile `llmops sync` may bring    *)
(* new definitions of the models and the clock moves in whole seconds.     *)
(*                                                                         *)
(* Scores are integers from 0 to Full, which stands for 1.0.               *)
(***************************************************************************)
EXTENDS Integers, Sequences, FiniteSets, FiniteSetsExt, Functions

CONSTANTS
  Runners,             \* processes that run `llmops eval run`
  Jobs,                \* processes that run `llmops eval add-case`
  Versions,            \* versions of the prompt
  NoVersion,           \* no row in prompt_deployments
  Generator,           \* the logical model that writes the answers
  JudgeModel,          \* the logical model that grades them
  ModelDefs,           \* what models.yaml may say of a model
  Spans,               \* failed production spans a case can be made of
  ManualCase,          \* source_span_id of a case written by hand
  Weights,             \* the suite's judge metrics, as their weights
  Grades,              \* scores a judge gives
  Full,                \* the score 1.0
  MinScore,            \* thresholds.min_score
  Tolerance,           \* thresholds.regression_tolerance
  PassRate,            \* thresholds.deterministic_pass_rate, in percent
  ForbidJudgeFallback, \* eval.forbid_judge_fallback
  MockIsWiringCheck,   \* eval.mock_is_wiring_check
  FailOnDegraded,      \* eval.fail_on_degraded
  DeterministicFirst,  \* eval.deterministic_first
  NoScore,             \* score NULL
  NoFrame,             \* a process that does nothing
  Scenarios            \* bounds: how a behaviour may start and go, see Bounds

Models == {Generator, JudgeModel}
Modes  == {"evaluation", "wiring_check"}
NoRun  == 0

\* What the models may be defined as at first; evaluations started, cases
\* added, seconds that pass, definitions of models that change, degraded spans
\* and traces that are lost, processes that die.
Bounds == [defs : SUBSET ModelDefs, starts : Nat, cases : Nat, seconds : Nat,
           syncs : Nat, lost : Nat, crashes : Nat]

ASSUME EvalRunsAssumption ==
  /\ NoVersion \notin Versions
  /\ ModelDefs \subseteq [mock : BOOLEAN, fallback : BOOLEAN, active : BOOLEAN]
  /\ ManualCase \notin Spans /\ NoFrame \notin Spans /\ IsFiniteSet(Jobs)
  /\ Weights \in Seq(Nat \ {0})
  /\ Full \in Nat /\ Grades \subseteq 0 .. Full /\ NoScore \notin Int
  /\ MinScore \in 0 .. Full /\ Tolerance \in 0 .. Full /\ PassRate \in 0 .. 100
  /\ ForbidJudgeFallback \in BOOLEAN /\ MockIsWiringCheck \in BOOLEAN
  /\ FailOnDegraded \in BOOLEAN /\ DeterministicFirst \in BOOLEAN
  /\ Scenarios \subseteq Bounds

VARIABLES
  pc,        \* where each runner is inside EvalRunner.run
  frame,     \* its local variables
  checked,   \* the span each job has found to have no case yet
  clearing,  \* the version and run the gate has let through, not yet published
  def,       \* table model_versions: the latest definition of each model
  published, \* table prompt_versions: the published versions
  active,    \* table prompt_deployments: active_version
  cases,     \* table eval_cases: the source of each row
  runs,      \* table eval_runs
  degraded,  \* table spans: degraded rows of each run's trace
  results,   \* table eval_results of each run: how many rows with status
             \* 'error', and the scores in the judge's rows with status 'ok'
  reported,  \* runs whose trace is ended and whose audit row is written
  now,       \* utcnow(), in seconds
  fed,       \* history: the flaws of what each finished run was judged on
  evidence,  \* history: publications, with the run that cleared them
  bounds     \* how often things may still happen

setup   == <<def, published, active, cases>>
tables  == <<setup, runs, degraded, results, reported>>
history == <<fed, evidence>>
others  == <<checked, clearing, now>>
vars    == <<pc, frame, others, tables, history, bounds>>

Verdicts == {"running", "pass", "fail", "regressed", "wiring_check"}
Scores   == 0 .. Full \cup {NoScore}

\* "standin": an answer of a fallback model.  "mock": an answer of the mock
\* adapter.  "unrecorded": a span that was lost.  "resynced": a model's
\* definition changed after the run looked at it.
Flaws == {"standin", "mock", "unrecorded", "resynced"}

RunRows == [version : Versions, mode : Modes, started : Nat, verdict : Verdicts,
            total : Nat, passed : Nat, score : Scores, base : Nat,
            errors : Nat, degraded : Nat]

\* traced: the row of the trace exists.  obeys, judged: of the current case,
\* whether it met the deterministic rules and its grades so far.  obeyed,
\* passed, scored, sum: over the cases that are done.  fed: history.
Frames == [version : Versions, mode : Modes, run : Nat, traced : BOOLEAN,
           total : Nat, left : Nat, obeys : BOOLEAN, judged : Seq(Scores),
           obeyed : Nat, passed : Nat, scored : Nat, sum : Nat, errors : Nat,
           degraded : Nat, against : Versions \cup {NoVersion}, base : Nat, fed : SUBSET Flaws]

NewFrame(v) ==
  [version |-> v, mode |-> "evaluation", run |-> NoRun, traced |-> TRUE,
   total |-> 0, left |-> 0, obeys |-> FALSE, judged |-> <<>>,
   obeyed |-> 0, passed |-> 0, scored |-> 0, sum |-> 0, errors |-> 0,
   degraded |-> 0, against |-> NoVersion, base |-> NoRun, fed |-> {}]

Init ==
  /\ pc        = [p \in Runners |-> "idle"]
  /\ frame     = [p \in Runners |-> NoFrame]
  /\ checked   = [j \in Jobs |-> NoFrame]
  /\ clearing  = NoFrame
  /\ active    \in Versions \cup {NoVersion}
  /\ published = {active} \ {NoVersion}
  /\ cases     = <<ManualCase>>
  /\ runs      = <<>>
  /\ degraded  = <<>>
  /\ results   = <<>>
  /\ reported  = {}
  /\ now       = 0
  /\ fed       = <<>>
  /\ evidence  = {}
  /\ bounds    \in Scenarios
  /\ def       \in [Models -> bounds.defs]

-----------------------------------------------------------------------------
(* Building blocks *)

Goto(p, l) == pc' = [pc EXCEPT ![p] = l]

\* One of the bounded things happens.
Once(b) == bounds[b] > 0 /\ bounds' = [bounds EXCEPT ![b] = @ - 1]

\* run() returns or raises: its frame is gone.
Return(p) == Goto(p, "idle") /\ frame' = [frame EXCEPT ![p] = NoFrame]

\* ModelRegistry.resolve raises for a model that is not active.
Resolves(m) == def[m].active

\* Bug: the newest passing run is taken, whatever came after it.
LatestPassing(v) ==
  {r \in DOMAIN runs : /\ runs[r].version = v
                       /\ runs[r].mode = "evaluation"
                       /\ runs[r].verdict = "pass"}

\* repo.latest_eval_run: several rows when runs began within one second.
Latest(v) ==
  LET finished == {r \in DOMAIN runs : /\ runs[r].version = v
                                       /\ runs[r].mode = "evaluation"
                                       /\ runs[r].verdict # "running"}
  IN  {r \in finished : \A q \in finished : runs[q].started <= runs[r].started}

\* Bug: a score out of range is taken as it comes.
ParsedUnbounded(payload) ==
  IF payload.items = 1 /\ payload.score # NoScore /\ payload.reason
  THEN payload.score
  ELSE NoScore

\* parse_judge_payload: a score within range, with its reason, in one object.
Parsed(payload) ==
  IF payload.items = 1 /\ payload.score \in 0 .. Full /\ payload.reason
  THEN payload.score
  ELSE NoScore

\* What a judge may send: how many objects, the score in it (or none, or one
\* beyond the range) and whether it gives a reason.
Payloads == [items : 1 .. 2, score : Grades \cup {Full + 1, NoScore}, reason : BOOLEAN]

\* Bug: a grade that could not be had counts as zero.
WeightedAverageZero(judged) ==
  SumFunction([i \in DOMAIN judged |->
                 IF judged[i] = NoScore THEN 0 ELSE Weights[i] * judged[i]])
    \div SumFunction(Weights)

\* weighted_average, over the metrics that were graded.
WeightedAverage(judged) ==
  LET usable == {i \in DOMAIN judged : judged[i] # NoScore}
  IN  IF usable = {} THEN NoScore
      ELSE SumFunction([i \in usable |-> Weights[i] * judged[i]])
             \div SumFunctionOnSet(Weights, usable)

\* The case is done with this score.
WithCase(f, score) ==
  [f EXCEPT !.left   = @ - 1,
            !.judged = <<>>,
            !.obeys  = FALSE,
            !.obeyed = IF f.obeys THEN @ + 1 ELSE @,
            !.passed = IF f.obeys /\ score # 0 THEN @ + 1 ELSE @,
            !.scored = IF score = NoScore THEN @ ELSE @ + 1,
            !.sum    = IF score = NoScore THEN @ ELSE @ + score]

\* The mean over the cases that have a score.
Score(f) == IF f.scored = 0 THEN NoScore ELSE f.sum \div f.scored

-----------------------------------------------------------------------------
(* EvalRunner.run, before the first case *)

\* The suite is read, its prompt resolved and the models are named.
Start(p) ==
  /\ pc[p] = "idle"
  /\ \E v \in Versions : frame' = [frame EXCEPT ![p] = NewFrame(v)]
  /\ Goto(p, IF Weights = <<>> THEN "generatorMode" ELSE "guard")
  /\ Once("starts")
  /\ UNCHANGED <<others, tables, history>>

\* _guard_judge_model: the judge is there, and nobody stands in for it.
GuardJudge(p) ==
  /\ pc[p] = "guard"
  /\ IF ForbidJudgeFallback /\ (~Resolves(JudgeModel) \/ def[JudgeModel].fallback)
     THEN Return(p)
     ELSE Goto(p, "generatorMode") /\ UNCHANGED frame
  /\ UNCHANGED <<others, tables, history, bounds>>

\* _resolve_mode reads one model after the other, up to the first mock.
ReadMode(p, here, model, next) ==
  /\ pc[p] = here
  /\ IF MockIsWiringCheck /\ ~Resolves(model) THEN Return(p)
     ELSE IF MockIsWiringCheck /\ def[model].mock
     THEN /\ frame' = [frame EXCEPT ![p].mode = "wiring_check"]
          /\ Goto(p, "list")
     ELSE Goto(p, next) /\ UNCHANGED frame
  /\ UNCHANGED <<others, tables, history, bounds>>

ReadGeneratorMode(p) ==
  ReadMode(p, "generatorMode", Generator, IF Weights = <<>> THEN "list" ELSE "judgeMode")

ReadJudgeMode(p) == ReadMode(p, "judgeMode", JudgeModel, "list")

\* list_eval_cases; a case added later is not part of this run.
ListCases(p) ==
  /\ pc[p] = "list"
  /\ frame' = [frame EXCEPT ![p].total = Len(cases), ![p].left = Len(cases)]
  /\ Goto(p, "trace")
  /\ UNCHANGED <<others, tables, history, bounds>>

\* Tracer.start_trace is best-effort; without its row no span can be stored.
StartTrace(p) ==
  /\ pc[p] = "trace"
  /\ Goto(p, "insert")
  /\ \/ UNCHANGED <<frame, bounds>>
     \/ /\ Once("lost")
        /\ frame' = [frame EXCEPT ![p].traced = FALSE]
  /\ UNCHANGED <<others, tables, history>>

\* The row is there, as 'running', before the first call.
InsertRun(p) ==
  /\ pc[p] = "insert"
  /\ runs' = Append(runs,
       [version |-> frame[p].version, mode |-> frame[p].mode, started |-> now,
        verdict |-> "running", total |-> frame[p].total, passed |-> 0,
        score |-> NoScore, base |-> NoRun, errors |-> 0, degraded |-> 0])
  /\ frame'    = [frame EXCEPT ![p].run = Len(runs) + 1]
  /\ degraded' = Append(degraded, 0)
  /\ results'  = Append(results, [errors |-> 0, grades |-> {}])
  /\ fed'      = Append(fed, {})
  /\ Goto(p, "case")
  /\ UNCHANGED <<others, setup, reported, evidence, bounds>>

-----------------------------------------------------------------------------
(* One case *)

\* complete(): the model answers, or another one stands in for it.  A mock
\* answer counts as a flaw only of a run that calls itself an evaluation.
\* Of the spans only the degraded ones matter here, so only theirs get lost.
Answer(p, model, standin, f) ==
  LET r     == frame[p].run
      mock  == IF def[model].mock /\ f.mode = "evaluation" THEN {"mock"} ELSE {}
      flaws == IF standin THEN {"standin"} ELSE mock
  IN  \/ /\ Resolves(model)
         /\ standin => def[model].fallback /\ f.traced
         /\ frame' = [frame EXCEPT ![p] = [f EXCEPT !.fed = @ \cup flaws]]
         /\ degraded' = IF standin THEN [degraded EXCEPT ![r] = @ + 1] ELSE degraded
         /\ UNCHANGED bounds
      \/ /\ standin /\ Resolves(model) /\ def[model].fallback
         /\ \/ ~f.traced /\ UNCHANGED bounds
            \/ f.traced /\ Once("lost")
         /\ frame' = [frame EXCEPT ![p] =
                        [f EXCEPT !.fed = @ \cup flaws \cup {"unrecorded"}]]
         /\ UNCHANGED degraded

\* insert_eval_result
RecordError(p)        == results' = [results EXCEPT ![frame[p].run].errors = @ + 1]
RecordGrade(p, grade) == results' = [results EXCEPT ![frame[p].run].grades = @ \cup {grade}]

\* Every provider failed, or the gateway refused: the case has no answer.
GenerateFails(p) ==
  /\ pc[p] = "case"
  /\ frame[p].left > 0
  /\ RecordError(p)
  /\ frame' = [frame EXCEPT ![p].left = @ - 1, ![p].errors = @ + 1]
  /\ UNCHANGED <<pc, others, setup, runs, degraded, reported, history, bounds>>

\* deterministic.evaluate, and whether the judge is asked.
GoesToJudge(f) == Weights # <<>> /\ (f.obeys \/ ~DeterministicFirst)

\* A broken rule ends the case before its score is set; a suite without a judge
\* scores by the rules alone.
ScoreWithoutJudge(f) ==
  IF ~f.obeys /\ DeterministicFirst THEN NoScore ELSE IF f.obeys THEN Full ELSE 0

Generate(p) ==
  /\ pc[p] = "case"
  /\ frame[p].left > 0
  /\ \E standin, obeys \in BOOLEAN :
       LET f == [frame[p] EXCEPT !.obeys = obeys]
       IN  IF GoesToJudge(f)
           THEN Goto(p, "judge") /\ Answer(p, Generator, standin, f)
           ELSE /\ UNCHANGED pc
                /\ Answer(p, Generator, standin, WithCase(f, ScoreWithoutJudge(f)))
  /\ UNCHANGED <<others, setup, runs, results, reported, history>>

\* The case goes on to the next metric, or its score is known.
Graded(p, f) ==
  IF Len(f.judged) < Len(Weights)
  THEN [f |-> f, next |-> "judge"]
  ELSE [f |-> WithCase(f, WeightedAverage(f.judged)), next |-> "case"]

\* Judge.score answered; an answer that does not parse is an error as well.
AskJudge(p) ==
  /\ pc[p] = "judge"
  /\ \E payload \in Payloads, standin \in BOOLEAN :
       LET grade == Parsed(payload)
           f     == [frame[p] EXCEPT
                       !.judged = Append(@, grade),
                       !.errors = IF grade = NoScore THEN @ + 1 ELSE @]
           after == Graded(p, f)
       IN  /\ Goto(p, after.next)
           /\ Answer(p, JudgeModel, standin, after.f)
           /\ IF grade = NoScore THEN RecordError(p) ELSE RecordGrade(p, grade)
  /\ UNCHANGED <<others, setup, runs, reported, history>>

\* Judge.score raised: no grade from anybody else.
JudgeFails(p) ==
  /\ pc[p] = "judge"
  /\ LET f     == [frame[p] EXCEPT !.judged = Append(@, NoScore), !.errors = @ + 1]
         after == Graded(p, f)
     IN  Goto(p, after.next) /\ frame' = [frame EXCEPT ![p] = after.f]
  /\ RecordError(p)
  /\ UNCHANGED <<others, setup, runs, degraded, reported, history, bounds>>

-----------------------------------------------------------------------------
(* EvalRunner._finish *)

ReadTotals(p) ==
  /\ pc[p] = "case"
  /\ frame[p].left = 0
  /\ frame' = [frame EXCEPT ![p].degraded = degraded[frame[p].run]]
  /\ Goto(p, "deployment")
  /\ UNCHANGED <<others, tables, history, bounds>>

\* Bug: the active version is compared with its own earlier runs.
ComparableAny(p) == active # NoVersion

\* _baseline: there is a deployment, of another version.
Comparable(p) == active \notin {NoVersion, frame[p].version}

ReadDeployment(p) ==
  /\ pc[p] = "deployment"
  /\ IF Comparable(p)
     THEN /\ frame' = [frame EXCEPT ![p].against = active]
          /\ Goto(p, "baseline")
     ELSE Goto(p, "finish") /\ UNCHANGED frame
  /\ UNCHANGED <<others, tables, history, bounds>>

ReadBaseline(p) ==
  /\ pc[p] = "baseline"
  /\ LET found == Latest(frame[p].against)
     IN  \/ /\ found = {}
            /\ UNCHANGED frame
         \/ \E r \in found :
              frame' = [frame EXCEPT ![p].base =
                          IF runs[r].score = NoScore THEN NoRun ELSE r]
  /\ Goto(p, "finish")
  /\ UNCHANGED <<others, tables, history, bounds>>

\* Bug: degraded spans are only reported.
BrokenUndegraded(f) ==
  \/ 100 * f.obeyed < PassRate * f.total
  \/ f.scored = 0

\* judge_run looks for the reasons to stop first.
Broken(f) ==
  \/ FailOnDegraded /\ f.degraded > 0
  \/ 100 * f.obeyed < PassRate * f.total
  \/ f.scored = 0

Regressed(f) ==
  f.base # NoRun /\ runs[f.base].score - Score(f) > Tolerance

Verdict(f) ==
  IF Broken(f) THEN "fail"
  ELSE IF f.mode = "wiring_check" THEN "wiring_check"
  ELSE IF Regressed(f) THEN "regressed"
  ELSE IF Score(f) < MinScore THEN "fail"
  ELSE "pass"

\* judge_run names the baseline only when it got as far as comparing.
NamedBase(f) ==
  IF Broken(f) \/ f.mode = "wiring_check" THEN NoRun ELSE f.base

Finish(p) ==
  /\ pc[p] = "finish"
  /\ LET f == frame[p]
     IN  /\ runs' = [runs EXCEPT ![f.run] =
                       [@ EXCEPT !.verdict  = Verdict(f),
                                 !.passed   = f.passed,
                                 !.score    = Score(f),
                                 !.base     = NamedBase(f),
                                 !.errors   = f.errors,
                                 !.degraded = f.degraded]]
         /\ fed' = [fed EXCEPT ![f.run] = f.fed]
  /\ Goto(p, "report")
  /\ UNCHANGED <<frame, others, setup, degraded, results, reported, evidence, bounds>>

\* end_trace and the audit row.
Report(p) ==
  /\ pc[p] = "report"
  /\ reported' = reported \cup {frame[p].run}
  /\ Return(p)
  /\ UNCHANGED <<others, setup, runs, degraded, results, history, bounds>>

\* The process dies, or a statement that is not best-effort raises.
Crash(p) ==
  /\ pc[p] # "idle"
  /\ Return(p)
  /\ Once("crashes")
  /\ UNCHANGED <<others, tables, history>>

-----------------------------------------------------------------------------
(* The gate and the closed loop *)

\* PublishGate.__call__ on an approved version: its newest evaluation counts.
PassGate ==
  /\ clearing = NoFrame
  /\ \E v \in Versions \ published :
       \E r \in Latest(v) :
         /\ runs[r].verdict = "pass"
         /\ runs[r].degraded = 0
         /\ clearing' = [version |-> v, run |-> r,
                         known |-> {q \in DOMAIN runs : runs[q].verdict # "running"}]
  /\ UNCHANGED <<pc, frame, checked, now, tables, history, bounds>>

\* PromptRegistry.publish, whose own steps are the subject of PromptRegistry.
Publish ==
  /\ clearing # NoFrame
  /\ published' = published \cup {clearing.version}
  /\ active'    = clearing.version
  /\ evidence'  = evidence \cup {clearing}
  /\ clearing'  = NoFrame
  /\ UNCHANGED <<pc, frame, checked, now, def, cases, runs, degraded, results,
                 reported, fed, bounds>>

\* PromptRegistry.rollback.
GoBack ==
  /\ \E v \in published \ {active} : active' = v
  /\ UNCHANGED <<pc, frame, others, def, published, cases, runs, degraded,
                 results, reported, history, bounds>>

\* Bug: only the newest case is looked at.
CaseExistsLast(s) == cases[Len(cases)] = s

\* case_exists_for_span
CaseExists(s) == \E i \in DOMAIN cases : cases[i] = s

\* add_case_from_span: there is no case of this span yet ...
CheckCase(j) ==
  /\ checked[j] = NoFrame
  /\ bounds.cases > 0
  /\ \E s \in Spans : ~CaseExists(s) /\ checked' = [checked EXCEPT ![j] = s]
  /\ UNCHANGED <<pc, frame, clearing, now, tables, history, bounds>>

\* ... so one is inserted.
AddCase(j) ==
  /\ checked[j] # NoFrame
  /\ Once("cases")
  /\ cases'   = Append(cases, checked[j])
  /\ checked' = [checked EXCEPT ![j] = NoFrame]
  /\ UNCHANGED <<pc, frame, clearing, now, def, published, active, runs, degraded,
                 results, reported, history>>

\* add_manual_case
AddManualCase ==
  /\ Once("cases")
  /\ cases' = Append(cases, ManualCase)
  /\ UNCHANGED <<pc, frame, others, def, published, active, runs, degraded,
                 results, reported, history>>

\* ModelRegistry.sync: a changed entry of models.yaml is the newest version.
SyncModel(m) ==
  /\ \E d \in ModelDefs \ {def[m]} : def' = [def EXCEPT ![m] = d]
  /\ frame' = [p \in Runners |-> IF pc[p] \in {"idle", "guard"} THEN frame[p]
                                 ELSE [frame[p] EXCEPT !.fed = @ \cup {"resynced"}]]
  /\ Once("syncs")
  /\ UNCHANGED <<pc, others, published, active, cases, runs, degraded, results,
                 reported, history>>

Tick ==
  /\ Once("seconds")
  /\ now' = now + 1
  /\ UNCHANGED <<pc, frame, checked, clearing, tables, history>>

Step(p) ==
  \/ Start(p) \/ GuardJudge(p) \/ ReadGeneratorMode(p) \/ ReadJudgeMode(p)
  \/ ListCases(p) \/ StartTrace(p) \/ InsertRun(p)
  \/ Generate(p) \/ GenerateFails(p) \/ AskJudge(p) \/ JudgeFails(p)
  \/ ReadTotals(p) \/ ReadDeployment(p) \/ ReadBaseline(p) \/ Finish(p) \/ Report(p)
  \/ Crash(p)

Next ==
  \/ \E p \in Runners : Step(p)
  \/ \E j \in Jobs : CheckCase(j) \/ AddCase(j)
  \/ \E m \in Models : SyncModel(m)
  \/ PassGate \/ Publish \/ GoBack \/ AddManualCase \/ Tick

Spec == Init /\ [][Next]_vars

-----------------------------------------------------------------------------
(* Properties *)

\* Every table row, every frame and every process keeps its shape: a run names
\* versions and runs that exist, and a score is one between 0.0 and 1.0.
TypeOK ==
  /\ \A p \in Runners :
       IF pc[p] = "idle" THEN frame[p] = NoFrame
       ELSE /\ frame[p].version \in Versions /\ frame[p].mode \in Modes
            /\ frame[p].run \in 0 .. Len(runs)
            /\ frame[p].base \in 0 .. Len(runs)
            /\ Score(frame[p]) \in Scores
            /\ frame[p].fed \subseteq Flaws
  /\ published \subseteq Versions
  /\ active \in published \cup {NoVersion}
  /\ \A r \in DOMAIN runs : /\ runs[r] \in RunRows
                            /\ runs[r].base \in 0 .. Len(runs)
                            /\ fed[r] \subseteq Flaws
  /\ DOMAIN runs = DOMAIN degraded /\ DOMAIN runs = DOMAIN results
  /\ reported \subseteq DOMAIN runs

\* A run that passes was judged on answers of the models it names, by the
\* judge it names: no answer of a stand-in counts unless its span was lost,
\* and no mock answer unless a model was redefined while the run went on
\* (runner.py, with the settings fail_on_degraded and mock_is_wiring_check).
PassIsClean ==
  \A r \in DOMAIN runs :
    runs[r].verdict = "pass" =>
      /\ FailOnDegraded /\ "standin" \in fed[r] => "unrecorded" \in fed[r]
      /\ MockIsWiringCheck /\ "mock" \in fed[r] => "resynced" \in fed[r]

\* Whatever was published through the gate rests on a finished evaluation of
\* that very version that passed, scored at least the minimum and met the
\* rules in enough of its cases; and no evaluation of that version that began
\* in a later second was already finished when the gate looked (gate.py).
EvidenceSound ==
  \A e \in evidence :
    /\ runs[e.run].version = e.version
    /\ runs[e.run].mode = "evaluation"
    /\ runs[e.run].verdict = "pass"
    /\ runs[e.run].score \in MinScore .. Full
    /\ \A q \in e.known :
         runs[q].version = e.version /\ runs[q].mode = "evaluation"
           => runs[q].started <= runs[e.run].started

\* A baseline is a finished evaluation of another version, with a score, and
\* the verdict fits the two rows as they stand for ever: a run that passed is
\* no worse than its baseline by more than the tolerance, one that regressed
\* is.  Dead runs, which stay 'running', are never a baseline (runner.py,
\* _baseline; regression.py).
BaselineSound ==
  \A r \in DOMAIN runs :
    /\ runs[r].verdict = "regressed" => runs[r].base # NoRun
    /\ runs[r].base # NoRun =>
         LET b == runs[runs[r].base]
         IN  /\ b.version # runs[r].version
             /\ b.mode = "evaluation" /\ b.verdict # "running" /\ b.score # NoScore
             /\ runs[r].verdict = "pass" => b.score - runs[r].score <= Tolerance
             /\ runs[r].verdict = "regressed" => b.score - runs[r].score > Tolerance

\* What could not be graded is on record and counts nowhere else: a finished
\* run has as many errors as it has error rows in eval_results, it has a score
\* exactly when the judge's rows have one, and its score lies between theirs,
\* however many calls failed in between (runner.py, judge.py).
ScoreFromResults ==
  \A r \in DOMAIN runs :
    LET grades == results[r].grades
    IN  runs[r].verdict # "running" /\ Weights # <<>> =>
          /\ runs[r].errors = results[r].errors
          /\ runs[r].score = NoScore <=> grades = {}
          /\ grades # {} => runs[r].score \in Min(grades) .. Max(grades)

\* The row of a finished run tells what happened, for ever: its score and its
\* errors are those of its results, and its verdict fits the row of the run it
\* was compared with, whatever was published or evaluated in between.
VerdictSound == ScoreFromResults /\ BaselineSound

\* However many jobs add cases, however often, a failed span has at most one
\* case for each job that was adding it at the same time (closed_loop.py).
DuplicatesBounded ==
  \A s \in Spans :
    Cardinality({i \in DOMAIN cases : cases[i] = s}) <= Cardinality(Jobs)
=============================================================================
