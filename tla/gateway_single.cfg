SPECIFICATION Spec
CONSTANTS
  c1 = c1  c2 = c2  t1 = t1  t2 = t2  sA = sA  sB = sB  main = main  alt = alt  spare = spare
  NoModel = NoModel  NoRequest = NoRequest  NoBudget = NoBudget
  Clients = {c1}
  Traces = {t1, t2}
  Systems = {sA}
  Models = {main, alt, spare}
  TracesOf <- OwnTraces
  SystemOf <- SameSystem
  FallbackTo <- FallbackChain
  Billable <- NoneBillable
  Priced <- AllPriced
  Estimate <- UnitEstimate
  Charges = {0}
  AttemptChoices = {1, 2}
  CallsLimit <- LimitThree
  Budget <- NoBudgets
  HardLimit <- AllHard
  HardQuota = TRUE
  FallbackEnabled = TRUE
  Strict = FALSE
  MaxRequests = 2
  MaxFaults = 1
  MaxCrashes = 1
INVARIANTS
  TypeOK
  CallsWithinLimit
