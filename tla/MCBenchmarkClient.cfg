SPECIFICATION ClientFairSpec
CONSTANTS
  MaxTries = 2
  MaxLaunches = 2
  MaxFaults = 2
INVARIANTS
  ClientTypeOK
  ReadyMeansReachable
  CleanLaunchSucceeds
  ReportsAreBacked
PROPERTY
  LaunchEnds
\* The launches are over, and the instances are set up or have failed.
CHECK_DEADLOCK FALSE
