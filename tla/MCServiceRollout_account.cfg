\* Expected to be violated: setup-iam.sh does not make the role that is named.
SPECIFICATION RolloutFairSpec
CONSTANTS
  DeployOrder <- MCDeployOrder
  CreateOrder <- MCCreateOrder
  MaxRevision = 2
  MaxFaults = 2
PROPERTY
  PrerequisitesSuffice
