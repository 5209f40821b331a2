\* Two runs of an application and their restarts: overlapping calls for an
\* article, closings, `with` blocks, statements that fail and deaths.
SPECIFICATION Spec
CONSTANTS
  p1 = p1
  p2 = p2
  a1 = a1
  Processes = {p1, p2}
  Articles = {a1}
  NoArticle = NoArticle
  CallLimit = 3
  GatewayLimit = 6
  Reserve = {2}
  Fallback = TRUE
  AllowRaw <- OnlyFirst
  NoJob = NoJob
  Scenarios <- SixScenarios
CHECK_DEADLOCK FALSE
INVARIANTS
  TypeOK
  TracesPerArticle
  ArticleWithinLimit
  StatusTrue
  RunningIsHeld
