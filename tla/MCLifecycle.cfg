SPECIFICATION Spec
CONSTANTS
  s1 = s1
  w1 = w1
  w2 = w2
  r1 = r1
  Request = {r1}
  SigWorkers <- MCSigWorkers
  RtcWorkers <- MCRtcWorkers
  SigSrv = sigSrv
  RtcSrv = rtcSrv
  MaxSignals = 2
  Null = Null
INVARIANT LogOutlivesThreads
INVARIANT EarlyRequests
PROPERTY Terminates
CHECK_DEADLOCK FALSE
