\* Two processes open databases of all releases, record calls, change a model,
\* apply retention and refresh the catalogue over the days; some writes
\* fail, and some processes die.
SPECIFICATION Spec
CONSTANTS
  p1 = p1
  p2 = p2
  s1 = s1
  s2 = s2
  s3 = s3
  Processes = {p1, p2}
  NoProcess = NoProcess
  Columns <- MigratedColumns
  Order <- MigratedOrder
  Backfilled = {"models", "spans", "costs"}
  Tables <- MigratedTables
  TableOf <- MigratedTableOf
  Releases <- AllReleases
  Spans = {s1, s2, s3}
  NoSpan = NoSpan
  SpanFlag = "spans"
  ModelFlag = "models"
  CostFlag = "costs"
  LastDay = 3
  LastTime = 1
  TextDays = 1
  SpanDays = 2
  StaleDays = 1
  BaselineDays = 3
  Multiple = 2
  Floor = 1
  NoJob = NoJob
  Scenarios <- TenScenarios
SYMMETRY Symmetry
CHECK_DEADLOCK FALSE
INVARIANTS
  TypeOK
  OpenIsComplete
  NothingErased
  BudgetSeesBilled
  ReportsAgree
  StaleIsUnused
