SPECIFICATION FairSpec
CONSTANTS
  quarkus = quarkus
  fiber = fiber
  Services <- ServicesDef
  Rates <- RatesDef
  Ramp = 2
  Parallel = 2
  MaxCalls = 3
INVARIANTS
  TypeOK
  MeasuresRight
  LadderIsReported
  FilesOfWholeTests
  PicturesAreCurrent
  PlotsAreConsistent
PROPERTY
  RunEnds
CHECK_DEADLOCK FALSE
