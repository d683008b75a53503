SPECIFICATION Spec
CONSTANTS
  r1 = r1
  r2 = r2
  Requests <- TwoRequests
INVARIANTS
  TypeOK
  LimitsAreIdentical
  WorkIsGuarded
PROPERTY
  TimerIsOwn
\* Both requests are answered.
CHECK_DEADLOCK FALSE
