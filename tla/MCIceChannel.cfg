\* Two addresses, memory for two connections.
CONSTANTS
  a1 = a1  a2 = a2  u1 = u1  m1 = m1  m2 = m2
  Addr <- MCAddr
  Priority <- MCPriority
  Ufrag = {u1}
  Cell = {m1, m2}
  Rtt = {0, 1}
  InitRtt = 1
  None = None
SPECIFICATION Spec
INVARIANT ListsAgree
INVARIANT AnnouncedIsCurrent
INVARIANT PingingStarts
PROPERTY LostIsRemoved
CHECK_DEADLOCK FALSE
