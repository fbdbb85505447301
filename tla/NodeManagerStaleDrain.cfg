SPECIFICATION Spec
CONSTANTS
  n0 = n0
  n1 = n1
  n2 = n2
  n3 = n3
  n4 = n4
  n5 = n5
  k1 = k1
  k2 = k2
  Node = {n1, n2, n3}
  Key = {k1, k2}
  Vnodes <- MCVnodes
  KeyHash <- MCKeyHash
  InitialNodes = {n1, n2, n3}
  MaxVersion = 2
  MaxJoins = 0
  MaxHalfway = 0
  MaxRemovals = 1
  MaxDraining = 1
  MaxFailures = 0
  MaxRestarts = 0
  MaxDeadlines = 0
  MaxRebalances = 0
  BatchSize = 1
  MigrationConcurrency = 2
  ReplicationFactor = 2
INVARIANTS SettledReads
\* The bounds run out.
CHECK_DEADLOCK FALSE
