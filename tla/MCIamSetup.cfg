\* Three versions stand for the account's five: one in force, one to delete, one more.
SPECIFICATION IamFairSpec
CONSTANTS
  MaxVersions = 3
  MaxFaults = 4
INVARIANTS
  IamTypeOK
  CleanRunConfigures
PROPERTIES
  NothingWithdrawn
  Recovers
