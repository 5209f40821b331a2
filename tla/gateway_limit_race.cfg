SPECIFICATION Spec
CONSTANTS
  c1 = c1  c2 = c2  t1 = t1  t2 = t2  sA = sA  sB = sB  main = main  alt = alt  spare = spare
  NoModel = NoModel  NoRequest = NoRequest  NoBudget = NoBudget
  Clients = {c1, c2}
  Traces = {t1}
  Systems = {sA}
  Models = {main}
  TracesOf <- OneSharedTrace
  SystemOf <- SameSystem
  FallbackTo <- NoFallback
  Billable <- NoneBillable
  Priced <- AllPriced
  Estimate <- UnitEstimate
  Charges = {0}
  AttemptChoices = {1, 2}
  CallsLimit <- LimitThree
  Budget <- NoBudgets
  HardLimit <- AllHard
  HardQuota = TRUE
  FallbackEnabled = TRUE
  Strict = FALSE
  MaxRequests = 1
  MaxFaults = 0
  MaxCrashes = 0
INVARIANTS
  LimitEnforced
