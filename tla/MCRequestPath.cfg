\* Five addresses and four elements; a client that sends up to twice its request, and
\* more than the seal holds.
CONSTANTS
  a1 = a1  a2 = a2  a3 = a3  a4 = a4  a5 = a5
  v1 = v1  v2 = v2
  Null = Null
  Addr <- MCAddr
  Values <- MCValues
  MaxProduce = 4
  HeadSize = 2
  Seal = 6
  BodyLen <- MCBodyLen
  ReplySize = 3
  Room = 2
  MaxSent = 8
  MaxRequests = 2
SPECIFICATION RequestPathSpec
INVARIANT MemorySafety
PROPERTY ImplementsFifo
INVARIANT RequestExact
PROPERTY RequestHandled
CHECK_DEADLOCK FALSE
