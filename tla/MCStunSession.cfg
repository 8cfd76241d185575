CONSTANTS
  Request <- MCRequest
  Length = {9, 11}
  MaxRequests = 2
  MaxPings = 2
  None = None
SPECIFICATION Spec
INVARIANT OnlyGenuineServed
INVARIANT GenuineNeverRefused
INVARIANT ClientUnderstands
INVARIANT AnsweredOnce
CHECK_DEADLOCK FALSE
