SPECIFICATION Spec
CONSTANTS
  n0 = n0
  n1 = n1
  n2 = n2
  n3 = n3
  n4 = n4
  n5 = n5
  k1 = k1
  k2 = k2
  Node = {n1, n3, n4}
  Key = {k1, k2}
  Vnodes <- MCVnodes
  KeyHash <- MCCloseHash
  InitialNodes = {n1, n3}
  MaxVersion = 2
  MaxJoins = 1
  MaxHalfway = 1
  MaxRemovals = 1
  MaxDraining = 1
  MaxFailures = 1
  MaxRestarts = 0
  MaxDeadlines = 1
  MaxRebalances = 0
  BatchSize = 1
  MigrationConcurrency = 2
  ReplicationFactor = 2
SYMMETRY KeySymmetry
INVARIANTS FreshUnlessExposed NoOrphanData
\* The bounds run out.
CHECK_DEADLOCK FALSE
