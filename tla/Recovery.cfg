SPECIFICATION FairSpec
CONSTANTS
  Node = {n1, n2}
  Migration = {m1}
  None = None
  Torn = Torn
  FileNames <- NamesMC
  MaxFaults = 1
  MaxJoins = 2
  MaxRemovals = 2
  MaxEnds = 1
INVARIANTS ReadsLastWrite RingIsPersisted RecordsAgree PendingIsInterrupted
PROPERTIES ComesUpAgain
\* A torn topology keeps the server down.
CHECK_DEADLOCK FALSE
