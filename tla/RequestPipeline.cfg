SPECIFICATION FairSpec
CONSTANTS
  p1 = p1
  p2 = p2
  i1 = i1
  Put = {p1, p2}
  BarePut = {b1}
  Get = {}
  Del = {d1}
  MaxRetries = 1
  CalleeMayFail = TRUE
  Id = {i1}
  IdOf <- MCIdOf
  MaxEntries = 1
  Pending = Pending
  Absent = Absent
  NoEvent = NoEvent
  Null = Null
  FailureThreshold = 2
  HalfOpenMaxCalls = 1
  SuccessThreshold = 1
  RingMayBeEmpty = TRUE
INVARIANTS LeadersInFlight AnswersCounted
PROPERTIES IsBreaker IsFairGuard AdmittedEnds
\* An empty ring can leave the breaker half-open for good.
CHECK_DEADLOCK FALSE
