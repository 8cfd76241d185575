------------------------------ MODULE MediaPath ------------------------------
(***************************************************************************)
(* Media through one transport of a RtcWorker: what its UDP socket reads is *)
(* told apart (STUN, DTLS, RTP, RTCP), decrypted and handed up; what the    *)
(* streams forward is encrypted and sent.  The SRTP keys come and go with   *)
(* the DTLS session, inside the callbacks of the same socket, and share     *)
(* libsrtp with the transports of the other threads.                        *)
(***************************************************************************)
EXTENDS UdpSocket, SrtpSession, SequencesExt

CONSTANTS Self,        \* the transport of this socket
          Length,      \* lengths of the packets to encrypt
          MaxPackets,  \* bound: calls of send_to()
          MaxArrivals  \* bound: datagrams that arrive

\* A packet in the order it was handed over, with the handshake its key is of
\* (0: not encrypted).
PacketType == [hs : 0..MaxSetups, id : 1..MaxPackets]

ASSUME MediaAssumption ==
  /\ Self \in Transport /\ Packet = PacketType
  /\ Length \subseteq Nat /\ MaxPackets \in Nat /\ MaxArrivals \in Nat

VARIABLES n,         \* calls of send_to()
          arrivals,  \* datagrams that arrived
          up         \* what was handed up last, until the callback goes on

vars == <<list, events, pend, rev, at, hand, back, free, inq, wire, gone,
          usage, lib, exists, inited, key, tags, spc, setups, n, arrivals, up>>

Init == /\ UdpInit /\ SrtpInit
        /\ n = 0 /\ arrivals = 0 /\ up = None

\* The thread is in none of its set_rtp_params() and reset_params().
Free == Step(Self, "idle")

-----------------------------------------------------------------------------
(* Sending *)

\* need_len of protect_rtp() and of protect_rtcp(): the latter counts the tag of
\* RTP too, and the SRTCP index.
NeedLen(kind, len, cs) == len + RtpTag[cs] + (IF kind = "rtcp" THEN 4 ELSE 0)

\* What srtp_protect() and srtp_protect_rtcp() write.
Written(kind, len, cs) == len + (IF kind = "rtcp" THEN RtcpTag[cs] + 4 ELSE RtpTag[cs])

\* Mutant: send_rtcp() makes room for the tag of RTP.
CapacityRtpTag(kind, len, cs) == len + RtpTag[cs] + (IF kind = "rtcp" THEN 4 ELSE 0)

\* The buffer send_rtp() and send_rtcp() allocate.
Capacity(kind, len, cs) == len + (IF kind = "rtcp" THEN RtcpTag[cs] + 4 ELSE RtpTag[cs])

\* get_send_auth_tag_len(): the suite whose tags send_rtp() and send_rtcp() make room for.
SendSuite == tags[Self]["send"]

\* protect_rtp() and protect_rtcp() go ahead.
Protects(kind, len) ==
  /\ Active(Self) /\ key[Self]["send"] # 0
  /\ NeedLen(kind, len, SendSuite) =< Capacity(kind, len, SendSuite)

\* send_packet() of DtlsTransport and IceTransportChannel, over a selected connection that
\* is ready to send; without one the packet does not reach the socket.
SendPacket(p) == SendTo(p)

\* send_rtp() and send_rtcp(), down to AsyncUdpSocket::send_to().
Forward(kind, len) ==
  /\ Free /\ n < MaxPackets
  /\ Protects(kind, len)
  /\ n' = n + 1
  /\ SendPacket([hs |-> key[Self]["send"], id |-> n + 1])
  /\ UNCHANGED <<srtpVars, arrivals, up>>

-----------------------------------------------------------------------------
(* Telling packets apart.  A datagram has a length and two bytes that matter, the
   lengths its DTLS records declare, the handshake of the keys it was encrypted with,
   and in "is" what its sender meant. *)

\* is_dtls_packet()
IsDtlsPacket(d) == d.len >= 13 /\ 19 < d.b0 /\ d.b0 < 64

\* is_rtp_packet() of dtls_transport.cpp: the version only.
IsMediaPacket(d) == d.len >= 12 /\ d.b0 \div 64 = 2

\* payload_type_is_reserved_for_rtcp()
Reserved(pt) == 64 =< pt /\ pt < 96

\* What senders keep to: only media is encrypted with the keys of a handshake, and RTP
\* leaves to RTCP the payload types that RFC 5761 reserves for it.
ASSUME DatagramAssumption ==
  \A d \in Datagram :
    /\ d.len \in Nat /\ d.b0 \in 0..255 /\ d.b1 \in 0..255
    /\ d.is \notin {"rtp", "rtcp"} => d.hs = 0
    /\ d.is = "rtp" => ~ Reserved(d.b1 % 128)
    /\ d.is = "rtcp" => Reserved(d.b1 % 128)

\* infer_rtp_packet_type()
Infer(d) ==
  IF d.len >= 12 /\ d.b0 \div 64 = 2 /\ ~ Reserved(d.b1 % 128) THEN "rtp"
  ELSE IF d.len >= 4 /\ Reserved(d.b1 % 128) THEN "rtcp"
  ELSE "unknown"

\* _handle_dtls_packet(): headers of 13 bytes and the lengths they declare lead to the end
\* of the datagram exactly.  Otherwise the adapter gets none of it.
Whole(d) == d.len = FoldLeft(LAMBDA sum, record_len : sum + 13 + record_len, 0, d.records)

\* What the layers make of a datagram: IceConnection takes what has a STUN
\* fingerprint, DtlsTransport takes DTLS records and passes on what looks like RTP,
\* DtlsSrtpTransport tells RTP and RTCP apart.
Kind(d) ==
  IF d.fingerprint THEN "stun"
  ELSE IF IsDtlsPacket(d) THEN IF Whole(d) THEN "dtls" ELSE "unknown"
  ELSE IF IsMediaPacket(d) THEN Infer(d)
  ELSE "unknown"

-----------------------------------------------------------------------------
(* Receiving: one datagram inside recv_data() *)

Reading(kind) == Free /\ at = "recv" /\ inq # << >> /\ Kind(Head(inq)) = kind

\* A binding request or a DTLS record that is answered over the socket.
Answer(kind) ==
  /\ Reading(kind) /\ n < MaxPackets
  /\ n' = n + 1
  /\ RecvAndSend([hs |-> 0, id |-> n + 1])
  /\ UNCHANGED <<srtpVars, arrivals, up>>

\* A DTLS record that completes the handshake, or closes the session.
DtlsSetup(cs) ==
  /\ Reading("dtls")
  /\ RecvOnly
  /\ Setup(Self, cs)
  /\ UNCHANGED <<n, arrivals, up>>

DtlsReset ==
  /\ Reading("dtls")
  /\ RecvOnly
  /\ Reset(Self)
  /\ UNCHANGED <<n, arrivals, up>>

\* Any other STUN message or DTLS record, and what no layer wants.
Ignore(kind) ==
  /\ Reading(kind)
  /\ RecvOnly
  /\ UNCHANGED <<srtpVars, n, arrivals, up>>

\* unprotect_rtp(), unprotect_rtcp(): libsrtp has the keys the packet was encrypted with.
Unprotects(d) == Active(Self) /\ key[Self]["recv"] # 0 /\ key[Self]["recv"] = d.hs

\* _on_rtp_packet_received(), _on_rtcp_packet_received(): handed up when the
\* transport is active and libsrtp authenticates the packet, dropped otherwise.
Media(kind) ==
  /\ Reading(kind)
  /\ RecvOnly
  /\ LET d == Head(inq)
     IN up' = IF Unprotects(d) THEN [is |-> d.is, as |-> kind] ELSE None
  /\ UNCHANGED <<srtpVars, n, arrivals>>

-----------------------------------------------------------------------------
Udp == Free /\ UdpStep /\ up' = None /\ UNCHANGED <<srtpVars, n, arrivals>>

Kernel == Transmit /\ UNCHANGED <<srtpVars, n, arrivals, up>>

Client(d) == /\ arrivals < MaxArrivals
             /\ arrivals' = arrivals + 1
             /\ d.hs =< setups
             /\ Arrive(d)
             /\ UNCHANGED <<srtpVars, n, up>>

Srtp(t) == SrtpStep(t) /\ UNCHANGED <<udpVars, n, arrivals, up>>

\* Another thread's DTLS sessions come and go.
Other(t) == /\ t # Self
            /\ Reset(t) \/ \E cs \in Suite : Setup(t, cs)
            /\ UNCHANGED <<udpVars, n, arrivals, up>>

Next ==
  \/ Udp \/ Kernel
  \/ \E d \in Datagram : Client(d)
  \/ \E t \in Transport : Srtp(t) \/ Other(t)
  \/ \E kind \in {"rtp", "rtcp"}, len \in Length : Forward(kind, len)
  \/ \E kind \in {"stun", "dtls"} : Answer(kind)
  \/ \E cs \in Suite : DtlsSetup(cs)
  \/ DtlsReset
  \/ \E kind \in {"stun", "dtls", "unknown"} : Ignore(kind)
  \/ \E kind \in {"rtp", "rtcp"} : Media(kind)

\* The loop runs its callbacks, threads do not stop inside a call, and the kernel
\* sends what it holds.  Neither the client nor the streams owe anything.
Fairness ==
  /\ WF_vars(Udp)
  /\ WF_vars(Kernel)
  /\ \A t \in Transport : WF_vars(Srtp(t))
  /\ WF_vars(\E kind \in {"stun", "dtls", "unknown"} : Ignore(kind))
  /\ WF_vars(\E kind \in {"rtp", "rtcp"} : Media(kind))

Spec == Init /\ [][Next]_vars /\ Fairness

-----------------------------------------------------------------------------
(* Properties *)

\* Every variable has its type.
TypeOK ==
  /\ UdpTypeOK /\ SrtpTypeOK
  /\ n \in 0..MaxPackets /\ arrivals \in 0..MaxArrivals
  /\ up \in [is : {d.is : d \in Datagram}, as : {"rtp", "rtcp"}] \cup {None}

\* Encrypting never writes past the buffer, although protect_rtcp() checks the
\* capacity against the tag of RTP, which is shorter than that of RTCP in some suites.
NoOverrun ==
  Free => \A kind \in {"rtp", "rtcp"}, len \in Length :
    Protects(kind, len) => Written(kind, len, SendSuite) =< Capacity(kind, len, SendSuite)

\* RTP goes up as RTP and RTCP as RTCP, nothing else goes up.
Demultiplexed == up # None => up.is = up.as

\* A media packet is neither damaged on its way out nor taken for another kind on its
\* way in.
MediaIntact == NoOverrun /\ Demultiplexed

\* Every packet handed to send_to() leaves the socket, on the wire or by an error of
\* its own, however full the kernel's buffer was: none waits for an event that
\* nobody asked for.
PacketsLeave == \A i \in 1..MaxPackets : (n >= i) ~> (gone >= i)

\* The inductive invariant of the path.
IInv == TypeOK /\ UdpInv /\ SrtpInv /\ Demultiplexed
=============================================================================
