----------------------------- MODULE MCMediaPath -----------------------------
(***************************************************************************)
(* MediaPath with a transport on this thread and one on another.            *)
(***************************************************************************)
EXTENDS MediaPath

\* AES_CM_128_HMAC_SHA1_32 has a shorter tag for RTP than for RTCP.
MCSuite == {"sha1_32", "none"}
MCBadSuite == {"none"}
MCRtpTag == [s \in MCSuite |-> 4]
MCRtcpTag == [s \in MCSuite |-> 10]
MCPacket == PacketType

D(is, len, b0, b1, hs, f) ==
  [is |-> is, len |-> len, b0 |-> b0, b1 |-> b1, hs |-> hs, fingerprint |-> f,
   records |-> << >>]

Records(d, r) == [d EXCEPT !.records = r]

\* One datagram of each kind: an empty one, a ping, two DTLS records, a record that is
\* cut off, RTP of the first dynamic payload type with the marker bit, a sender report.
MCDatagram == {D("empty", 0, 0, 0, 0, FALSE), D("stun", 28, 0, 1, 0, TRUE),
               Records(D("dtls", 60, 22, 254, 0, FALSE), <<20, 14>>),
               Records(D("dtls", 60, 22, 254, 0, FALSE), <<48>>), D("rtp", 60, 128, 224, 1, FALSE),
               D("rtcp", 60, 128, 200, 1, FALSE)}
=============================================================================
