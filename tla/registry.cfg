\* Two operators whose commands interleave; a process may die.
SPECIFICATION Spec
CONSTANTS
  o1 = o1
  o2 = o2
  textA = textA
  textB = textB
  Operators = {o1, o2}
  Texts = {textA, textB}
  DeclaredIn <- OneDeclaresDraft
  Percents = {0, 50}
  NoDeployment = NoDeployment
  NoFile = NoFile
  Databases <- AnyDatabase
  MaxEdits = 1
  MaxEvals = 1
  MaxCommands = 2
  MaxOverlaps = 1
  MaxCrashes = 1
SYMMETRY OperatorSymmetry
CHECK_DEADLOCK FALSE
INVARIANTS
  TypeOK
  PublishedWasCleared
  DeployedWasCleared
  CanaryShare
  ChangesExplained
  PublishedGetsDeployed
PROPERTIES
  RollbackGoesBack
  CanaryKeepsActive
  SyncConverges
  LegalWhenAlone
