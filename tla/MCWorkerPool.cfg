\* Two threads that may both die, four calls, destroy() at any moment.
SPECIFICATION FairSpec
CONSTANTS
  t1 = t1  t2 = t2  t3 = t3  t4 = t4
  PoolSize = 2
  Tasks <- FourTasks
  NoTask = NoTask
  Oversized <- OneOversized
  Crashable <- EveryThread
INVARIANTS
  TypeOK
  InOnePlace
  SettledRight
PROPERTIES
  ImplementsService
  EveryCallSettles
\* The pool rests once every call was made and handled.
CHECK_DEADLOCK FALSE
