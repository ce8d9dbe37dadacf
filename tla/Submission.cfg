SPECIFICATION FairSpec
CONSTANTS
  Form = {a, b}
  NoSpec = NoSpec
  Version = {v1, v2, bad}
  Unreadable = bad
  NotCached = NotCached
  MaxKeys = 3
  MaxFailures = 3
  MaxEdits = 2
  Capacity = 3
  EditsWhilePending = FALSE
CHECK_DEADLOCK FALSE
INVARIANTS
  TypeOK
  RetriedSafely
PROPERTIES
  AcceptedIsAsked
  EventuallyTold
