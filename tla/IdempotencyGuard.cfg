SPECIFICATION FairSpec
CONSTANTS
  r1 = r1
  r2 = r2
  r3 = r3
  r4 = r4
  i1 = i1
  i2 = i2
  Request = {r1, r2, r3, r4}
  Id = {i1, i2}
  IdOf <- MCIdOf
  MaxEntries = 1
  Pending = Pending
  Absent = Absent
  NoEvent = NoEvent
  Null = Null
INVARIANTS ExecutedOnce PendingHasLeader WaiterIsWoken WaiterGetsResult
PROPERTIES WaitersAnswered
\* All requests have been answered.
CHECK_DEADLOCK FALSE
