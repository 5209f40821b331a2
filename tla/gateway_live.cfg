SPECIFICATION FairSpec
CONSTANTS
  c1 = c1  c2 = c2  t1 = t1  t2 = t2  sA = sA  sB = sB  main = main  alt = alt  spare = spare
  NoModel = NoModel  NoRequest = NoRequest  NoBudget = NoBudget
  Clients = {c1, c2}
  Traces = {t1, t2}
  Systems = {sA}
  Models = {main, alt}
  TracesOf <- SeparateTraces
  SystemOf <- SameSystem
  FallbackTo <- FallbackCycle
  Billable <- NoneBillable
  Priced <- AllPriced
  Estimate <- UnitEstimate
  Charges = {0}
  AttemptChoices = {0, 3}
  CallsLimit <- LimitTwo
  Budget <- NoBudgets
  HardLimit <- AllHard
  HardQuota = FALSE
  FallbackEnabled = TRUE
  Strict = FALSE
  MaxRequests = 1
  MaxFaults = 1
  MaxCrashes = 0
INVARIANTS
  OverrunsAudited
PROPERTIES
  RequestEnds
