SPECIFICATION Spec
CONSTANTS
  a = a
  b = b
  c = c
  Node <- MCNode
  Weights <- MCWeights
  MaxWeight = 2
  BadWeight = BadWeight
  Space = 4
  VnodesPerWeight = 1
  ReplicationFactor = 2
  SkewThreshold = 300
  Epsilon = 1
  PlanSize = 10
INVARIANTS RingConsistent ListsMeanRingOps ShareIsOwnership OverloadIsPlanned
PROPERTIES ChainsShift
