\* The same instance, for what the pointer check of a reply is said to do.
CONSTANTS
  c1 = c1  c2 = c2  c3 = c3
  f1 = f1  f2 = f2
  p1 = p1  p2 = p2
  r1 = r1  r2 = r2
  s1 = s1  s2 = s2
  Client <- MCClient
  RtcWorker <- MCRtcWorker
  StreamOf <- MCStreamOf
  Hash <- MCHash
  Fd <- MCFd
  Ptr <- MCPtr
  SigWorker = 2
  PipeCap = 1
  Null = Null
  RtcSrv = RtcSrv
  SigSrv = SigSrv
SPECIFICATION Spec
INVARIANT OwnReply
CHECK_DEADLOCK FALSE
