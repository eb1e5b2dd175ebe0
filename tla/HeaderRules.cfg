SPECIFICATION Spec
CONSTANTS
  Block <- MCBlock
  Genesis = 0
  HashPrev <- MCHashPrev
  Height <- MCHeight
  Ancestors <- MCAncestors
  NoBlock = NoBlock
  Bit = {1, 2}
  Versions <- MCVersions
  Times <- MCTimes
  Deployment = {"csv"}
  DeploymentBit <- MCDeploymentBit
  nStartTime <- MCStart
  nTimeout <- MCTimeout
  nMinerConfirmationWindow = 2
  nRuleChangeActivationThreshold = 2
  UpgradeWindow = 2
  StartInterval = 2
  Changes = {3, 5}
  IntervalFrom <- MCIntervalFrom
  Unchecked = {3}
  nPowDGWHeight = 6
  Never = 100
INVARIANTS
  StatesExact
  SinceHeightExact
