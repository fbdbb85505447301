SPECIFICATION Spec
CONSTANTS
  a = a
  b = b
  k1 = k1
  k2 = k2
  k3 = k3
  Node = {a, b}
  Task = {t1, t2}
  Key <- MCKey
  Replicas <- MCReplicas
  NoValue = NoValue
  MaxSize = 2
  Ttl = 2
  RecoveryTimeout = 0
SYMMETRY Symmetry
INVARIANTS RecentIsKept ServesLastEnded
PROPERTIES NullOnlyWhenGone IsForgetfulMap
