SPECIFICATION Spec
CONSTANTS
  Request = {r1, r2, r3, r4, r5, r6}
  MaxRequests = 2
  BucketCount = 3
  BucketWidth = 2
  MaxTime = 13
SYMMETRY RequestSymmetry
INVARIANTS WindowLimit BurstBound BucketsBounded
PROPERTIES IsSlidingWindow
\* The clock stops at its bound.
CHECK_DEADLOCK FALSE
