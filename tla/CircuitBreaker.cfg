SPECIFICATION FairSpec
CONSTANTS
  Request = {r1, r2, r3, r4, r5}
  FailureThreshold = 3
  HalfOpenMaxCalls = 3
  SuccessThreshold = 2
  RingMayBeEmpty = TRUE
INVARIANTS ProbeBudget StuckOnlyBySilence
PROPERTIES HalfOpenResolves
\* With an empty ring the breaker can stop for good in HALF_OPEN.
CHECK_DEADLOCK FALSE
