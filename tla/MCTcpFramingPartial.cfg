\* Replies written in parts arrive as they are.
CONSTANTS
  HeadSize = 2
  Seal = 6
  BodyLen <- MCBodyLen
  ReplySize = 3
  Room = 2
  MaxSent = 6
  MaxRequests = 2
SPECIFICATION FramingSpec
INVARIANT ReplyIntact
CHECK_DEADLOCK FALSE
