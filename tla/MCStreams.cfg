\* Two users, three streams of one name; two PeerConnections, three ports.
CONSTANTS
  u1 = u1  u2 = u2  n1 = n1  Uid <- MCUid
  Name = {n1}
  MaxStreams = 3
  Word <- MCWord
  Ssrc = {"1", "2", "3", "4", "cut"}
  WithM = {"xm=1"}
  Algorithm = {"sha-256", "SHA-256"}
  Lower <- MCLower
  Null = Null
  p1 = p1  p2 = p2  Pc <- MCPc
  Answer <- MCAnswer
  Network = 2
  Port <- MCPort
  Refused <- MCRefused
  Media <- MCMedia
  MaxAnswers = 2
  Cred <- MCCred
SPECIFICATION StreamsSpec
INVARIANT NothingDangles
PROPERTY PcOutlivesCallback
PROPERTY OnlyOwnerTouches
PROPERTY NeverConnectedIsRemoved
INVARIANT OfferTellsTransport
INVARIANT DeclaresWhatIsPushed
INVARIANT OneAnswerWhole
INVARIANT NullOnlyIfUntagged
CHECK_DEADLOCK FALSE
