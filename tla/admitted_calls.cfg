SPECIFICATION Spec
CONSTANTS
  c1 = c1  c2 = c2  c3 = c3  t1 = t1  t2 = t2
  Clients = {c1, c2, c3}
  Traces = {t1, t2}
  TracesOf <- TwoShareOne
  Rounds = {1, 2}
  LimitOf <- LimitsDiffer
  Enforced = TRUE
  MaxLost = 1
INVARIANTS
  TypeOK
  CallsRecorded
  OvershootBounded
  OwnTraceWithinLimit
CHECK_DEADLOCK FALSE
