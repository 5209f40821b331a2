\* One command after another is enough.
SPECIFICATION Spec
CONSTANTS
  o1 = o1
  o2 = o2
  textA = textA
  textB = textB
  Operators = {o1, o2}
  Texts = {textA, textB}
  DeclaredIn <- DeclaresPublished
  Percents = {50}
  NoDeployment = NoDeployment
  NoFile = NoFile
  Databases <- OnlyFresh
  MaxEdits = 0
  MaxEvals = 0
  MaxCommands = 2
  MaxOverlaps = 0
  MaxCrashes = 0
SYMMETRY OperatorSymmetry
CHECK_DEADLOCK FALSE
INVARIANT DeploymentPublished
