----------------------------- MODULE StunSession -----------------------------
(***************************************************************************)
(* The STUN exchange between a UDPPort with its IceConnection and a client  *)
(* at one address: binding requests of the client, with the credentials of  *)
(* this session or of another, and the server's own pings.  Datagrams are   *)
(* lost, duplicated, delayed, reordered and damaged.                        *)
(*                                                                         *)
(* External: the client, which builds and reads its messages as RFC 5389    *)
(* says (RefMessage, RefAccepts), independently of the code modelled in     *)
(* module Stun.                                                             *)
(***************************************************************************)
EXTENDS Stun

CONSTANTS Request,    \* kinds of requests of the client: records with the fields
                      \* local, remote, pwd, user, mi, prio, other
          Length,     \* lengths of USERNAME
          MaxRequests, MaxPings,  \* bounds
          None

\* _ice_params of the port, and what the answer says of the client.
LocalUfrag == "L"
LocalPwd == "lp"
RemotePwd == "rp"

\* The longest value that is sent, well below the 64 KB of a datagram.
MaxValue == 32767

VARIABLES
  len,       \* the length of USERNAME in this session
  toServer,  \* datagrams on the way to the server; nothing is taken off, so each
  toClient,  \* may arrive never, late or many times
  conn,      \* None, or the connection: username, password, its requests
  server,    \* "running"; "stale": the port's entry for the client's address holds a
             \* deleted connection; "crashed"
  answer,    \* the answer with the client's password has arrived
  pings,     \* pings sent
  reqs,      \* requests of the client
  made,      \* history: requests made with the credentials of this session
  served,    \* history: requests the server took for those
  done       \* history: for each ping, how often an answer was dispatched

vars == <<len, toServer, toClient, conn, server, answer, pings, reqs, made, served, done>>

Init ==
  /\ len \in Length
  /\ toServer = {} /\ toClient = {} /\ conn = None /\ server = "running"
  /\ answer = FALSE
  /\ pings = 0 /\ reqs = 0
  /\ made = {} /\ served = {}
  /\ done = [i \in 1..MaxPings |-> 0]

-----------------------------------------------------------------------------
(* The client *)

\* A message with these attributes, MESSAGE-INTEGRITY under password unless it is
\* None, and FINGERPRINT: every digest over a header that counts up to its end.
RefMessage(type, tid, attrs, password) ==
  LET mi == IF password = None THEN << >>
            ELSE <<Attr("MI", 20, Hmac(password, New(type, tid), AttrBytes(attrs) + 24, attrs))>>
      all == attrs \o mi
      head == [New(type, tid) EXCEPT !.length = AttrBytes(all) + 8]
  IN [head EXCEPT !.attrs = Append(all, Attr("FINGERPRINT", 4, Crc(head, all)))]

\* RFC 5389, 15.4 and 15.5: what a client accepts of the server.
RefAccepts(m, password) ==
  LET n == Len(m.attrs) IN
  /\ m.length = AttrBytes(m.attrs) /\ m.cookie /\ m.tail = 0
  /\ m.attrs[n] = Attr("FINGERPRINT", 4, Crc(m, SubSeq(m.attrs, 1, n - 1)))
  /\ \/ password = None
     \/ \E i \in 1..n : LET before == SubSeq(m.attrs, 1, i - 1) IN
          m.attrs[i] = Attr("MI", 20, Hmac(password, m, AttrBytes(before) + 24, before))

\* Does a request bear the credentials of this session?
Genuine(r) == r.user /\ r.mi /\ r.local = LocalUfrag /\ r.pwd = LocalPwd

\* A client has one session at a time: its ufrag goes with the server's password.  Values
\* fit a datagram, and so do all that a ping is made of.
ASSUME StunAssumption ==
  /\ MaxRequests \in Nat /\ MaxPings \in Nat
  /\ Length \subseteq 0..MaxValue
  /\ None \notin {LocalPwd, RemotePwd}
  /\ \A r \in Request : /\ {r.user, r.mi, r.prio} \subseteq BOOLEAN
                        /\ r.other \in 0..MaxValue /\ r.pwd # None
                        /\ Genuine(r) => r.remote = "R"

If(b, a) == IF b THEN <<a>> ELSE << >>

\* The k-th request, with a USERNAME of length n.
RequestAttrs(r, n) ==
  If(r.user, Attr("USERNAME", n, Text(<<r.local, r.remote>>)))
    \o If(r.other > 0, Attr("OTHER", r.other, Number(0)))
    \o If(r.prio, Attr("PRIORITY", 4, Number(1)))
RequestMessage(r, n, k) ==
  RefMessage(STUN_BINDING_REQUEST, <<"c", k>>, RequestAttrs(r, n), IF r.mi THEN r.pwd ELSE None)

ClientRequest(r) ==
  /\ reqs < MaxRequests
  /\ reqs' = reqs + 1
  /\ LET m == RequestMessage(r, len, reqs + 1)
     IN /\ toServer' = toServer \cup {m}
        /\ made' = IF Genuine(r) THEN made \cup {m} ELSE made
  /\ UNCHANGED <<len, toClient, conn, server, answer, pings, served, done>>

\* The client answers a ping of the server, with success or with an error code.
AnswerMessage(m, code) ==
  IF code = 0
  THEN RefMessage(STUN_BINDING_RESPONSE, m.tid, <<Attr("XOR", 8, Text(<<"v4">>))>>, RemotePwd)
  ELSE RefMessage(STUN_BINDING_ERROR_RESPONSE, m.tid, <<Attr("ERROR", 16, Number(code))>>,
                  RemotePwd)

ClientAnswer(m, code) ==
  /\ m.type = STUN_BINDING_REQUEST /\ RefAccepts(m, RemotePwd)
  /\ toServer' = toServer \cup {AnswerMessage(m, code)}
  /\ UNCHANGED <<len, toClient, conn, server, answer, pings, reqs, made, served, done>>

\* A datagram is damaged: a value changes, the end is missing, or there is more.
Damaged(m) ==
  {[m EXCEPT !.attrs[i].val = Number(-1)] : i \in 1..Len(m.attrs)}
    \cup {[m EXCEPT !.attrs = Front(@)], [m EXCEPT !.tail = 4], [m EXCEPT !.cookie = FALSE]}

\* What may arrive of what was sent.
Arriving == UNION {Damaged(m) \cup {m} : m \in toServer}

-----------------------------------------------------------------------------
(* The server's messages *)

\* send_binding_error_response(): no MESSAGE-INTEGRITY, as only 400 and 401 occur.
ErrorResponse(m, code) ==
  AddFingerprint(AddAttribute(New(STUN_BINDING_ERROR_RESPONSE, m.tid),
                              ErrorAttr(code)))

\* send_stun_binding_response()
Response(m) ==
  AddFingerprint(AddMessageIntegrity(
    AddAttribute(New(STUN_BINDING_RESPONSE, m.tid), XorMappedAddress("v4")), LocalPwd))

\* create_stun_username(): the client's ufrag first.
StunUsername == Attr("USERNAME", len, Text(<<conn.username, LocalUfrag>>))

\* ConnectionRequest::prepare()
PingMessage(tid) ==
  LET m1 == AddAttribute(New(STUN_BINDING_REQUEST, tid), StunUsername)
      m2 == AddAttribute(m1, Uint64("CONTROLLING", 0))
      m3 == AddAttribute(m2, Attr("USE_CANDIDATE", 0, Text(<< >>)))
      m4 == AddAttribute(m3, Uint32("PRIORITY", 1))
  IN AddFingerprint(AddMessageIntegrity(m4, conn.password))

\* StunRequestManager::send() enters the request, remove() takes it out.
Register(c, i) == [c EXCEPT !.requests = @ \cup {i}]
Unregister(c, i) == [c EXCEPT !.requests = @ \ {i}]

\* ping(), when _is_pingable()
Ping ==
  /\ server = "running" /\ conn # None /\ conn.password # "" /\ pings < MaxPings
  /\ pings' = pings + 1
  /\ conn' = Register(conn, pings + 1)
  /\ toClient' = toClient \cup {PingMessage(<<"s", pings + 1>>)}
  /\ UNCHANGED <<len, toServer, server, answer, reqs, made, served, done>>

\* The answer brings the password: maybe_set_remote_ice_params().
Answer ==
  /\ server # "crashed" /\ ~ answer
  /\ answer' = TRUE
  /\ conn' = IF conn # None /\ conn.username = "R" /\ conn.password = ""
             THEN [conn EXCEPT !.password = RemotePwd] ELSE conn
  /\ UNCHANGED <<len, toServer, toClient, server, pings, reqs, made, served, done>>

-----------------------------------------------------------------------------
(* What the server reads *)

\* _parse_stun_username(): local and remote ufrag; two empty ones when it fails.
Ufrags(m) == LET t == Get(m, "USERNAME").text IN IF Len(t) = 2 THEN t ELSE <<"", "">>

\* Mutant: the credentials are taken as they come.
RejectionOnlyMissing(m) ==
  IF ~ Has(m, "USERNAME") \/ ~ Has(m, "MI") THEN 400
  ELSE IF Ufrags(m)[1] # LocalUfrag THEN 401
  ELSE 0

\* get_stun_message(), for a request that could be read: 0, or the code of the
\* error it is answered with.
Rejection(m) ==
  IF ~ Has(m, "USERNAME") \/ ~ Has(m, "MI") THEN STUN_ERROR_BAD_REQUEST
  ELSE IF Ufrags(m)[1] # LocalUfrag \/ ~ IntegrityOk(m, LocalPwd) THEN STUN_ERROR_UNAUTHORIZED
  ELSE 0

\* get_stun_message() returns the message, or at least has read it.
IsStun(m) == ValidateFingerprint(m) /\ CanRead(m)

\* A request that is refused: by get_stun_message(), by _on_unknown_address() because
\* it has no PRIORITY, or by on_read_packet() because the connection has another ufrag.
Refuse(m) ==
  /\ server = "running" /\ IsStun(m) /\ m.type = STUN_BINDING_REQUEST
  /\ LET code == IF Rejection(m) # 0 THEN Rejection(m)
                 ELSE IF conn = None THEN (IF Has(m, "PRIORITY") THEN 0 ELSE 400)
                 ELSE IF Ufrags(m)[2] # conn.username THEN 401
                 ELSE 0
     IN /\ code # 0
        /\ toClient' = toClient \cup {ErrorResponse(m, code)}
  /\ UNCHANGED <<len, toServer, conn, server, answer, pings, reqs, made, served, done>>

\* create_connection() of the UDPPort, with the remote password if the answer is here.
CreateConnection(m) == [username |-> Ufrags(m)[2], requests |-> {},
                        password |-> IF answer THEN RemotePwd ELSE ""]

\* The first good request creates the connection.
Create(m) ==
  /\ server = "running" /\ IsStun(m) /\ m.type = STUN_BINDING_REQUEST /\ Rejection(m) = 0
  /\ conn = None /\ Has(m, "PRIORITY")
  /\ conn' = CreateConnection(m)
  /\ served' = served \cup {m}
  /\ toClient' = toClient \cup {Response(m)}
  /\ UNCHANGED <<len, toServer, server, answer, pings, reqs, made, done>>

\* A request over the connection: handle_stun_binding_request()
Serve(m) ==
  /\ server = "running" /\ IsStun(m) /\ m.type = STUN_BINDING_REQUEST /\ Rejection(m) = 0
  /\ conn # None /\ Ufrags(m)[2] = conn.username
  /\ served' = served \cup {m}
  /\ toClient' = toClient \cup {Response(m)}
  /\ UNCHANGED <<len, toServer, conn, server, answer, pings, reqs, made, done>>

\* check_response(): the request a response belongs to.
Outstanding(m) == {i \in conn.requests : m.tid = <<"s", i>>}

\* on_request_response() and on_request_error_response() of the ConnectionRequest.
Dispatch(i) == done' = [done EXCEPT ![i] = @ + 1]

\* Mutant: the request stays in the map.
CheckResponseKeeps(m) ==
  /\ server = "running" /\ conn # None /\ IsStun(m) /\ IntegrityOk(m, conn.password)
  /\ m.type = SuccessOf(STUN_BINDING_REQUEST)
  /\ \E i \in Outstanding(m) : Dispatch(i)
  /\ UNCHANGED <<len, toServer, toClient, conn, server, answer, pings, reqs, made, served>>

\* A response, authentic under the client's password: dispatched and deleted.
CheckResponse(m) ==
  /\ server = "running" /\ conn # None /\ IsStun(m) /\ IntegrityOk(m, conn.password)
  /\ m.type = SuccessOf(STUN_BINDING_REQUEST)
  /\ \E i \in Outstanding(m) :
       /\ Dispatch(i)
       /\ conn' = Unregister(conn, i)
  /\ UNCHANGED <<len, toServer, toClient, server, answer, pings, reqs, made, served>>

\* The codes after which a connection may go on.
Recoverable == {STUN_ERROR_BAD_REQUEST, STUN_ERROR_UNAUTHORIZED, STUN_ERROR_SERVER_ERROR}

\* An authentic error response: on_connection_request_error_response() keeps the
\* connection for the codes 400, 401 and 500.  For all others fail_and_destroy() deletes
\* the connection and with it the request, which check_response() then deletes again.
CheckErrorResponse(m) ==
  /\ server = "running" /\ conn # None /\ IsStun(m) /\ IntegrityOk(m, conn.password)
  /\ m.type = ErrorOf(STUN_BINDING_REQUEST)
  /\ \E i \in Outstanding(m) :
       /\ Dispatch(i)
       /\ IF GetErrorCode(m) \in Recoverable
          THEN conn' = Unregister(conn, i) /\ UNCHANGED server
          ELSE conn' = None /\ server' = "crashed"
  /\ UNCHANGED <<len, toServer, toClient, answer, pings, reqs, made, served>>

\* update_state(): pings go unanswered for CONNECTION_WRITE_TIMEOUT.  The connection and
\* its requests are deleted; _connections of the port keeps the pointer.
Lost ==
  /\ server = "running" /\ conn # None /\ conn.requests # {}
  /\ conn' = None /\ server' = "stale"
  /\ UNCHANGED <<len, toServer, toClient, answer, pings, reqs, made, served, done>>

\* _on_read_packet() calls the deleted connection, whatever has arrived.
Stray ==
  /\ server = "stale" /\ Arriving # {}
  /\ server' = "crashed"
  /\ UNCHANGED <<len, toServer, toClient, conn, answer, pings, reqs, made, served, done>>

-----------------------------------------------------------------------------
Next ==
  \/ \E r \in Request : ClientRequest(r)
  \/ \E m \in toClient, code \in {0, 401} : ClientAnswer(m, code)
  \/ \E m \in Arriving : Refuse(m) \/ Create(m) \/ Serve(m)
                           \/ CheckResponse(m) \/ CheckErrorResponse(m)
  \/ Ping
  \/ Answer
  \/ Lost
  \/ Stray

Spec == Init /\ [][Next]_vars

-----------------------------------------------------------------------------
(* Properties *)

\* Every variable has its type.
TypeOK ==
  /\ len \in Length /\ answer \in BOOLEAN
  /\ pings \in 0..MaxPings /\ reqs \in 0..MaxRequests
  /\ server \in {"running", "stale", "crashed"}
  /\ done \in [1..MaxPings -> Nat]
  /\ conn = None \/ conn \in [username : {"R"}, password : {"", RemotePwd},
                              requests : SUBSET (1..MaxPings)]

\* The server serves a request, and creates a connection for it, only if the client
\* made exactly that request with the credentials of this session: no damaged, stale
\* or foreign one, in whatever order or number they arrive.
OnlyGenuineServed == served \subseteq made

\* A request with the credentials of this session and a PRIORITY is never refused,
\* whatever attributes it has and however their lengths are padded.
GenuineNeverRefused ==
  \A m \in made, e \in toClient :
    Has(m, "PRIORITY") /\ e.tid = m.tid => e.type = STUN_BINDING_RESPONSE

\* A client that follows the RFC accepts every message the server sends: lengths,
\* fingerprint, and the integrity under the password that its kind calls for.
ClientUnderstands ==
  \A m \in toClient :
    RefAccepts(m, CASE m.type = STUN_BINDING_REQUEST -> RemotePwd
                    [] m.type = STUN_BINDING_RESPONSE -> LocalPwd
                    [] m.type = STUN_BINDING_ERROR_RESPONSE -> None)

\* Each ping is answered at most once, though answers of both kinds may arrive for it,
\* each many times, in any order and after the connection is gone.
AnsweredOnce == \A i \in 1..MaxPings : done[i] =< 1

-----------------------------------------------------------------------------
(* The inductive invariant *)

\* A ping is in the map of the connection at most until it is answered.
Pinged ==
  /\ conn # None => conn.requests \subseteq 1..pings
  /\ \A i \in 1..MaxPings : /\ done[i] =< 1
                            /\ i > pings => done[i] = 0
                            /\ conn # None /\ i \in conn.requests => done[i] = 0

\* What is on the way to the server: requests, those with the credentials of this session
\* among made, and answers to pings.
FromClient ==
  \A m \in toServer :
    \/ \E r \in Request, k \in 1..reqs :
         m = RequestMessage(r, len, k) /\ (Genuine(r) => m \in made)
    \/ \E p \in toClient, code \in {0, 401} : m = AnswerMessage(p, code)

\* No two requests have the same transaction id.
OwnTid ==
  \A m, n \in toServer : /\ m.type = STUN_BINDING_REQUEST /\ n.type = STUN_BINDING_REQUEST
                         /\ m.tid = n.tid
                         => m = n

\* What was made is on its way, and one of the client's requests.
MadeIsSent ==
  \A m \in made : /\ m \in toServer
                  /\ \E r \in Request, k \in 1..reqs :
                       Genuine(r) /\ m = RequestMessage(r, len, k)

\* The server uses ids of its own and of the requests it has received.
ServerTids ==
  \A e \in toClient : \/ \E k \in 1..reqs : e.tid = <<"c", k>>
                      \/ \E i \in 1..pings : e.tid = <<"s", i>>

IInv ==
  /\ TypeOK /\ Pinged /\ FromClient /\ OwnTid /\ MadeIsSent /\ ServerTids
  /\ OnlyGenuineServed /\ GenuineNeverRefused /\ ClientUnderstands

=============================================================================
