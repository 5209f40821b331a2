SPECIFICATION Spec
CONSTANTS
  c1 = c1  c2 = c2  t1 = t1  t2 = t2  sA = sA  sB = sB  main = main  alt = alt  spare = spare
  NoModel = NoModel  NoRequest = NoRequest  NoBudget = NoBudget
  Clients = {c1}
  Traces = {t1}
  Systems = {sA}
  Models = {main}
  TracesOf <- OneTrace
  SystemOf <- SameSystem
  FallbackTo <- NoFallback
  Billable <- AllBillable
  Priced <- AllPriced
  Estimate <- UnitEstimate
  Charges = {1}
  AttemptChoices = {1}
  CallsLimit <- NoLimit
  Budget <- GlobalTwo
  HardLimit <- AllHard
  HardQuota = TRUE
  FallbackEnabled = TRUE
  Strict = FALSE
  MaxRequests = 4
  MaxFaults = 0
  MaxCrashes = 0
PROPERTIES
  QuotaStops
