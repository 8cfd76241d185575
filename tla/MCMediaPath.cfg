CONSTANTS
  Packet <- MCPacket
  Datagram <- MCDatagram
  None = None
  Room = 1
  RcvRoom = 2
  Transport = {self, other}
  Suite <- MCSuite
  BadSuite <- MCBadSuite
  RtpTag <- MCRtpTag
  RtcpTag <- MCRtcpTag
  MaxSetups = 2
  Self = self
  Length = {20}
  MaxPackets = 3
  MaxArrivals = 2
SPECIFICATION Spec
INVARIANT SessionsSound
INVARIANT MediaIntact
PROPERTY ImplementsLossyQueue
PROPERTY PacketsLeave
CHECK_DEADLOCK FALSE
