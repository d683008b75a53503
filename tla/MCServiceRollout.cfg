SPECIFICATION RolloutFairSpec
CONSTANTS
  DeployOrder <- MCDeployOrder
  CreateOrder <- MCCreateOrder
  MaxRevision = 2
  MaxFaults = 2
INVARIANTS
  RolloutTypeOK
  CompleteMeansDone
PROPERTIES
  RerunningIsSafe
  Resumes
