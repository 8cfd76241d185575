------------------------------ MODULE TcpFraming ------------------------------
(***************************************************************************)
(* One signaling connection, byte by byte: how SignalingWorker cuts the     *)
(* client's byte stream into a request, however TCP splits it into reads,   *)
(* and how it writes the replies into a socket buffer that may be full.     *)
(*                                                                         *)
(* Bytes of the request are only counted: querybuf always starts with the   *)
(* header, so a request is the first HeadSize + body_len bytes.  Bytes of a *)
(* reply are numbered, because what matters is which of them the client     *)
(* receives.  The reply to a request comes back at any later time; Signaling *)
(* models the way in between.                                               *)
(***************************************************************************)
EXTENDS Naturals, Sequences

CONSTANTS HeadSize,     \* XHEAD_SIZE: 36
          Seal,         \* 65536, the value of bytes_processed after a request
          BodyLen,      \* the values of body_len a client may put in the header
          ReplySize,    \* bytes of a reply, header and body
          Room,         \* bytes the socket's send buffer holds
          MaxSent,      \* bound: bytes the client sends
          MaxRequests   \* bound: requests of one connection

ASSUME FramingAssumption ==
  /\ HeadSize \in Nat \ {0} /\ Seal \in Nat /\ Seal > HeadSize
  /\ BodyLen \subseteq Nat
  /\ ReplySize \in Nat \ {0} /\ Room \in Nat \ {0}
  /\ MaxSent \in Nat /\ MaxRequests \in Nat

VARIABLES
  body, magic, valid, \* the client's body_len, is its magic_num right, is its body a request
  sent,               \* bytes the client has sent
  qlen,               \* sdslen(querybuf)
  state,              \* current_state: "HEAD" or "BODY"
  expected,           \* bytes_expected
  processed,          \* bytes_processed
  requests,           \* times _process_request() accepted the body
  answered,           \* replies that came back for them
  open,               \* the connection is in _tcp_conns
  at,                 \* the worker is in its event "loop", in the "read" or the "write" handler
  replies,            \* length of reply_list
  pos,                \* cur_resp_pos
  room,               \* free bytes in the send buffer
  wire                \* bytes put on the wire, each by its number in its reply

client == <<body, magic, valid, sent>>
parser == <<qlen, state, expected, processed, requests>>
writer == <<answered, replies, pos, room, wire>>
framingVars == <<body, magic, valid, sent, qlen, state, expected, processed, requests,
                 answered, open, at, replies, pos, room, wire>>

Smaller(a, b) == IF a < b THEN a ELSE b

\* TcpConnection()
FramingInit ==
  /\ body \in BodyLen /\ magic \in BOOLEAN /\ valid \in BOOLEAN /\ sent = 0
  /\ qlen = 0 /\ state = "HEAD" /\ expected = HeadSize /\ processed = 0 /\ requests = 0
  /\ answered = 0 /\ replies = 0 /\ pos = 0 /\ room = Room /\ wire = << >>
  /\ open = TRUE /\ at = "loop"

\* _close_conn(), and back to the event loop.
Close == open' = FALSE /\ at' = "loop" /\ UNCHANGED <<parser, writer>>

-----------------------------------------------------------------------------
(* The client *)

ClientSend ==
  /\ open
  /\ \E n \in 1..(MaxSent - sent) : sent' = sent + n
  /\ UNCHANGED <<body, magic, valid, parser, writer, open, at>>

ClientReceive ==
  /\ room < Room
  /\ room' = Room
  /\ UNCHANGED <<client, parser, answered, replies, pos, wire, open, at>>

-----------------------------------------------------------------------------
(* Reading *)

\* _read_query(): one read() of at most bytes_expected bytes; reading nothing closes.
ReadQuery ==
  /\ at = "loop" /\ open /\ sent > qlen
  /\ LET n == Smaller(expected, sent - qlen) IN
     IF n = 0 THEN Close
     ELSE /\ qlen' = qlen + n
          /\ at' = "read"
          /\ UNCHANGED <<state, expected, processed, requests, writer, open>>
  /\ UNCHANGED client

\* The client hung up or the read failed.
ReadEnd == at = "loop" /\ open /\ Close /\ UNCHANGED client

\* Mutant: > for >=.
FitsStrict == qlen > expected + processed

\* The condition of the while loop in _process_query_buffer().
Fits == qlen >= expected + processed

\* An iteration of the loop on the header.
ParseHead ==
  /\ at = "read" /\ Fits /\ state = "HEAD"
  /\ IF ~ magic THEN Close
     ELSE /\ state' = "BODY" /\ processed' = HeadSize /\ expected' = body
          /\ UNCHANGED <<qlen, requests, writer, open, at>>
  /\ UNCHANGED client

\* An iteration on the body: _process_request(), then the connection is sealed.
ParseBody ==
  /\ at = "read" /\ Fits /\ state = "BODY"
  /\ IF ~ valid THEN Close
     ELSE /\ requests < MaxRequests
          /\ requests' = requests + 1 /\ processed' = Seal
          /\ UNCHANGED <<qlen, state, expected, writer, open, at>>
  /\ UNCHANGED client

\* The loop ends and the handler returns.
ParseEnd ==
  /\ at = "read" /\ ~ Fits
  /\ at' = "loop"
  /\ UNCHANGED <<client, parser, writer, open>>

-----------------------------------------------------------------------------
(* Writing *)

\* _response_server_offer() and _add_reply()
AddReply ==
  /\ at = "loop" /\ open /\ answered < requests
  /\ answered' = answered + 1 /\ replies' = replies + 1
  /\ UNCHANGED <<client, parser, pos, room, wire, open, at>>

\* The socket is writable and the WRITE event is on: reply_list is not empty.
WriteQuery ==
  /\ at = "loop" /\ open /\ replies > 0 /\ room > 0
  /\ at' = "write"
  /\ UNCHANGED <<client, parser, writer, open>>

\* An iteration of the loop in _write_query(): write() takes what fits, from the
\* first byte of the reply; a full buffer gives 0 and the loop goes on.
WriteOnce ==
  /\ at = "write" /\ replies > 0
  /\ LET n    == Smaller(ReplySize, room)
         done == n > 0 /\ n + pos >= ReplySize
     IN /\ room' = room - n
        /\ wire' = wire \o [i \in 1..n |-> i]
        /\ pos' = IF done THEN 0 ELSE pos + n
        /\ replies' = IF done THEN replies - 1 ELSE replies
  /\ UNCHANGED <<client, parser, answered, open, at>>

\* write() fails.
WriteFail == at = "write" /\ replies > 0 /\ Close /\ UNCHANGED client

\* Everything is written: the WRITE event is stopped and the handler returns.
WriteEnd ==
  /\ at = "write" /\ replies = 0
  /\ at' = "loop"
  /\ UNCHANGED <<client, parser, writer, open>>

-----------------------------------------------------------------------------
FramingNext ==
  \/ ClientSend \/ ClientReceive
  \/ ReadQuery \/ ReadEnd \/ ParseHead \/ ParseBody \/ ParseEnd
  \/ AddReply \/ WriteQuery \/ WriteOnce \/ WriteFail \/ WriteEnd

\* The worker runs: it reads what has arrived (a readable socket is reported in
\* every iteration of the event loop) and does not stop inside a handler.
FramingFairness ==
  /\ WF_framingVars(ReadQuery) /\ WF_framingVars(ParseHead \/ ParseBody \/ ParseEnd)
  /\ WF_framingVars(WriteOnce) /\ WF_framingVars(WriteEnd)

FramingSpec == FramingInit /\ [][FramingNext]_framingVars /\ FramingFairness

-----------------------------------------------------------------------------
(* Properties *)

\* Every variable has its type, and cur_resp_pos lies inside a reply.
FramingTypeOK ==
  /\ body \in BodyLen /\ magic \in BOOLEAN /\ valid \in BOOLEAN /\ sent \in Nat
  /\ qlen \in Nat /\ state \in {"HEAD", "BODY"} /\ expected \in Nat /\ processed \in Nat
  /\ requests \in Nat /\ answered \in Nat
  /\ open \in BOOLEAN /\ at \in {"loop", "read", "write"}
  /\ replies \in Nat /\ pos \in 0..(ReplySize - 1) /\ room \in 0..Room
  /\ wire \in Seq(1..ReplySize)

\* However the stream is cut into reads, the worker has handed on the request exactly
\* when its last byte is in the buffer: never a part of it, never twice.  Below
\* Seal + body bytes, which is all that the seal holds for: with more bytes in
\* querybuf the condition of the loop is true again.
RequestExact ==
  at # "read" /\ open /\ sent < Seal + body =>
    requests = IF qlen >= HeadSize + body THEN 1 ELSE 0

\* A request whose bytes were all sent is handed on or its connection closed,
\* although each event reads only a part and no byte is read twice.
RequestHandled ==
  (sent >= HeadSize + body /\ sent < Seal + body) ~> (requests = 1 \/ ~ open)

\* What the parser's fields mean: the part of FramingInv about a handler's middle.
ParserFields ==
  /\ qlen =< sent
  /\ state = "HEAD" => expected = HeadSize /\ processed = 0 /\ requests = 0
  /\ state = "BODY" => /\ expected = body /\ qlen >= HeadSize
                       /\ \/ processed = HeadSize /\ requests = 0
                          \/ processed = Seal /\ requests > 0
  /\ requests > 0 => qlen >= HeadSize + body
  /\ sent < Seal + body => requests =< 1

\* The handler leaves nothing unparsed behind.
NothingLeft == at # "read" /\ open => ~ Fits

\* The inductive invariant behind RequestExact.
FramingInv == FramingTypeOK /\ ParserFields /\ NothingLeft

-----------------------------------------------------------------------------
(* What the repository's documents and comments say, and the code does not do *)

\* Partial writes go on where they stopped: the client receives each reply as it is
\* (note/cross-module-deep-dive.md, section 2.2).
ReplyIntact == \A i \in DOMAIN wire : wire[i] = 1 + ((i - 1) % ReplySize)

=============================================================================
