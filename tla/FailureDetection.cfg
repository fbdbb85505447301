SPECIFICATION Spec
CONSTANTS
  Node = {n1, n2}
  Timeout = 2
  Period = 1
  MaxHistory = 2
  MaxFinalizers = 2
SYMMETRY Symmetry
INVARIANTS SilentNodesFound OfflineWasReported OnlyStraysOutlive
PROPERTIES NewFailureOnRecord
