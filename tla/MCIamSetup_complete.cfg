SPECIFICATION IamSpec
CONSTANTS
  MaxVersions = 3
  MaxFaults = 2
INVARIANT
  CompleteMeansConfigured
