SPECIFICATION Spec
CONSTANTS
  c1 = c1  c2 = c2  t1 = t1  t2 = t2  sA = sA  sB = sB  main = main  alt = alt  spare = spare
  NoModel = NoModel  NoRequest = NoRequest  NoBudget = NoBudget
  Clients = {c1, c2}
  Traces = {t1, t2}
  Systems = {sA, sB}
  Models = {main, alt}
  TracesOf <- SeparateTraces
  SystemOf <- TwoSystems
  FallbackTo <- FallbackToMain
  Billable <- AltSubscription
  Priced <- AllPriced
  Estimate <- UnitEstimate
  Charges = {2}
  AttemptChoices = {1}
  CallsLimit <- NoLimit
  Budget <- AllAndEach
  HardLimit <- SoftB
  HardQuota = TRUE
  FallbackEnabled = TRUE
  Strict = FALSE
  MaxRequests = 2
  MaxFaults = 0
  MaxCrashes = 0
INVARIANTS
  BudgetOvershootBounded
  LedgerDerived
PROPERTIES
  RefusalJustified
