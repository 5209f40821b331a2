\* Two evaluations overlap, with models that change, spans that get lost, a
\* process that dies, an operator who publishes and jobs that add cases.
SPECIFICATION Spec
CONSTANTS
  r1 = r1
  r2 = r2
  j1 = j1
  j2 = j2
  v1 = v1
  v2 = v2
  NoVersion = NoVersion
  Runners = {r1, r2}
  Jobs = {j1, j2}
  Versions = {v1, v2}
  Generator = "generator"
  JudgeModel = "judge"
  ModelDefs <- AllDefs
  Spans = {"span"}
  ManualCase = "manual"
  Weights <- TwoMetrics
  Grades = {0, 12}
  Full = 12
  MinScore = 6
  Tolerance = 2
  PassRate = 100
  ForbidJudgeFallback = TRUE
  MockIsWiringCheck = TRUE
  FailOnDegraded = TRUE
  DeterministicFirst = TRUE
  NoScore = NoScore
  NoFrame = NoFrame
  Scenarios <- FourScenarios
SYMMETRY Symmetry
CHECK_DEADLOCK FALSE
INVARIANTS
  TypeOK
  PassIsClean
  EvidenceSound
  VerdictSound
  DuplicatesBounded
