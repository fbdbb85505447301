SPECIFICATION FairSpec
CONSTANTS
  n0 = n0
  n1 = n1
  n2 = n2
  n3 = n3
  n4 = n4
  n5 = n5
  k1 = k1
  k2 = k2
  Node = {n1, n2, n3}
  Key = {k1}
  Vnodes <- MCVnodes
  KeyHash <- MCKeyHash
  InitialNodes = {n1, n2, n3}
  MaxVersion = 1
  MaxJoins = 1
  MaxHalfway = 1
  MaxRemovals = 2
  MaxDraining = 2
  MaxFailures = 1
  MaxRestarts = 1
  MaxDeadlines = 0
  MaxRebalances = 0
  BatchSize = 1
  MigrationConcurrency = 1
  ReplicationFactor = 2
INVARIANTS DrainingIsAttended
PROPERTIES RemovalCompletes
\* The bounds run out.
CHECK_DEADLOCK FALSE
