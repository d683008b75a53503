\* Expected to be violated: a call is given to a worker whose thread is dead.
SPECIFICATION Spec
CONSTANTS
  t1 = t1  t2 = t2  t3 = t3  t4 = t4
  PoolSize = 2
  Tasks <- ThreeTasks
  NoTask = NoTask
  Oversized <- OneOversized
  Crashable <- FirstThread
INVARIANTS
  GivenToAThread
\* The pool rests once every call was made and handled.
CHECK_DEADLOCK FALSE
