------------------------------ MODULE Signaling ------------------------------
(***************************************************************************)
(* The control plane: SignalingServer accepts TCP connections and hands     *)
(* them to SignalingWorkers; a SignalingWorker turns a request into an      *)
(* RtcMsg for RtcServer, which routes it by stream name to an RtcWorker; the *)
(* RtcWorker executes it and sends the same RtcMsg back to the              *)
(* SignalingWorker named on it, which answers the connection.               *)
(*                                                                         *)
(* Every component is a thread with an event loop.  A message travels in    *)
(* two parts: it is appended to the receiver's queue, then one int is       *)
(* written to the receiver's pipe.  The pipes block when they are full, so  *)
(* the write is a step of its own and the sender can do nothing before it.  *)
(* The queues are the FIFO that LockFreeQueue implements, or a std::queue   *)
(* under a mutex.                                                           *)
(*                                                                         *)
(* Clients, the kernel's descriptors and the allocator are environment: a   *)
(* client may send its request, send nonsense or hang up at any time.  A    *)
(* connection is identified by its client; TcpConnection pointers and file  *)
(* descriptors are reused.  How a request is cut into reads, a reply into   *)
(* writes, and how far the seal after a request holds, is in TcpFraming.    *)
(***************************************************************************)
EXTENDS Naturals, Sequences, FiniteSets

CONSTANTS Client,        \* TCP connections ever opened; each sends one request
          Fd,            \* file descriptor numbers the kernel may return
          Ptr,           \* addresses the allocator may return for a TcpConnection
          SigWorker,     \* number of SignalingWorkers, called 1..SigWorker
          RtcWorker,     \* set of RtcWorkers
          StreamOf,      \* [Client -> stream name in its request]
          Hash,          \* [stream name -> RtcWorker]: ComputeCrc32(name) % worker_num
          PipeCap,       \* ints a notify pipe holds
          Null, RtcSrv, SigSrv

SigWorkers == 1..SigWorker
Receiver   == SigWorkers \cup RtcWorker \cup {RtcSrv}
Thread     == Receiver \cup {SigSrv}

Pend == [to : Receiver, int : {"NEW_CONN", "RTC_MSG"}]
Request == [client : Client, worker : SigWorkers, conn : Ptr, fd : Fd,
            name : {StreamOf[c] : c \in Client}]
Conn == [fd : Fd, client : Client, sealed : BOOLEAN, replies : Seq(Request)]

ASSUME SignalingAssumption ==
  /\ SigWorker \in Nat \ {0}
  /\ PipeCap \in Nat \ {0}
  /\ IsFiniteSet(RtcWorker) /\ SigWorkers \cap RtcWorker = {}
  /\ RtcSrv \notin SigWorkers \cup RtcWorker /\ SigSrv \notin Receiver
  /\ \A c \in Client : Hash[StreamOf[c]] \in RtcWorker
  /\ Null \notin Ptr \cup Client \cup Receiver
  /\ Null \notin Pend /\ Null \notin Conn

VARIABLES
  pipe,        \* [Receiver -> ints written to its notify pipe and not read]
  pend,        \* [Thread -> the notify() it is blocked in, or Null]
  connq,       \* [SigWorkers -> _q_connfd]
  msgq,        \* [Receiver -> _q_msg]
  closing,     \* [SigWorkers -> the TcpConnection it has closed and not yet removed]
  tcpConns,    \* [SigWorkers -> [Fd -> Ptr or Null]]: _tcp_conns
  conn,        \* [Ptr -> the TcpConnection there, or Null when it is deleted]
  nextWorker,  \* _next_worker_index (from 1)
  sock,        \* [Fd -> the client at the other end, or Null when closed]
  phase,       \* [Client -> "new", "open" or "gone"]
  got,         \* [Client -> the clients whose replies it received]
  accepted,    \* requests RtcServer was sent, in order of push_msg
  handled,     \* requests the RtcWorkers executed, in order
  dropped      \* requests RtcServer dropped for want of a certificate

net   == <<sock, phase, got>>
table == <<closing, tcpConns, conn>>
hist  == <<accepted, handled, dropped>>
vars  == <<pipe, pend, closing, connq, msgq, tcpConns, conn, nextWorker,
           sock, phase, got, accepted, handled, dropped>>

Init ==
  /\ pipe = [t \in Receiver |-> << >>] /\ pend = [t \in Thread |-> Null]
  /\ closing = [w \in SigWorkers |-> Null]
  /\ connq = [w \in SigWorkers |-> << >>]
  /\ msgq = [t \in Receiver |-> << >>]
  /\ tcpConns = [w \in SigWorkers |-> [f \in Fd |-> Null]]
  /\ conn = [p \in Ptr |-> Null]
  /\ nextWorker = 1
  /\ sock = [f \in Fd |-> Null]
  /\ phase = [c \in Client |-> "new"]
  /\ got = [c \in Client |-> << >>]
  /\ accepted = << >> /\ handled = << >> /\ dropped = {}

-----------------------------------------------------------------------------
(* Notification *)

\* A thread runs its event loop: it is neither blocked in a write() to a pipe nor
\* between close() and _remove_conn().
Looping(t) == pend[t] = Null /\ (t \in SigWorkers => closing[t] = Null)

\* Mutant: the pipe does not block and notify()'s result is ignored.
NotifyNonblocking(t) ==
  /\ pend[t] # Null
  /\ pipe' = IF Len(pipe[pend[t].to]) < PipeCap
             THEN [pipe EXCEPT ![pend[t].to] = Append(@, pend[t].int)]
             ELSE pipe
  /\ pend' = [pend EXCEPT ![t] = Null]
  /\ UNCHANGED <<connq, msgq, table, nextWorker, net, hist>>

\* write() of notify() returns once the pipe has room.
Notify(t) ==
  /\ pend[t] # Null
  /\ Len(pipe[pend[t].to]) < PipeCap
  /\ pipe' = [pipe EXCEPT ![pend[t].to] = Append(@, pend[t].int)]
  /\ pend' = [pend EXCEPT ![t] = Null]
  /\ UNCHANGED <<connq, msgq, table, nextWorker, net, hist>>

\* The receiver's pipe is readable and holds this int next.
Notified(t, int) == Looping(t) /\ pipe[t] # << >> /\ Head(pipe[t]) = int
ReadPipe(t) == pipe' = [pipe EXCEPT ![t] = Tail(@)]

\* push_msg() and pop_msg() on the queues q.
Push(q, t, m) == [q EXCEPT ![t] = Append(@, m)]
Pop(q, t)     == [q EXCEPT ![t] = Tail(@)]

\* t calls notify(int) of the receiver to, which returns in Notify(t).
Notifies(t, to, int) == pend' = [pend EXCEPT ![t] = [to |-> to, int |-> int]]

-----------------------------------------------------------------------------
(* SignalingServer *)

\* The index of the worker after i.
NextIndex(i) == IF i = SigWorker THEN 1 ELSE i + 1

\* tcp_accept(): the kernel picks a descriptor that is not in use.
TcpAccept(c, f) ==
  /\ phase[c] = "new" /\ sock[f] = Null
  /\ sock' = [sock EXCEPT ![f] = c]
  /\ phase' = [phase EXCEPT ![c] = "open"]

\* notify_new_conn()
NotifyNewConn(w, f) == connq' = Push(connq, w, f) /\ Notifies(SigSrv, w, "NEW_CONN")

\* accept_new_connect() and _dispatch_new_conn(): round robin over the workers.
Accept(c, f) ==
  /\ Looping(SigSrv)
  /\ TcpAccept(c, f)
  /\ NotifyNewConn(nextWorker, f)
  /\ nextWorker' = NextIndex(nextWorker)
  /\ UNCHANGED <<pipe, msgq, table, got, hist>>

-----------------------------------------------------------------------------
(* SignalingWorker *)

\* The addresses new TcpConnection may return: any that holds no object, also one that a
\* message in flight still carries in msg->conn.
FreePtr == {p \in Ptr : conn[p] = Null}

\* _process_notify(NEW_CONN) and _new_conn(): take over the descriptor.
NewConn(w) ==
  /\ Notified(w, "NEW_CONN")
  /\ ReadPipe(w)
  /\ IF connq[w] = << >>
     THEN UNCHANGED <<connq, table>>       \* consume failed: _new_conn(0) returns
     ELSE \E p \in FreePtr :
            LET f == Head(connq[w]) IN
            /\ connq' = Pop(connq, w)
            /\ conn' = [conn EXCEPT ![p] = [fd |-> f, client |-> sock[f],
                                            sealed |-> FALSE, replies |-> << >>]]
            /\ tcpConns' = [tcpConns EXCEPT ![w][f] = p]
            /\ UNCHANGED closing
  /\ UNCHANGED <<pend, msgq, nextWorker, net, hist>>

\* _close_conn() up to close(fd): from here on the accepting thread may be given the
\* number again, while the entry of the table still holds the connection.
CloseConn(w, p) ==
  /\ sock' = [sock EXCEPT ![conn[p].fd] = Null]
  /\ phase' = [phase EXCEPT ![conn[p].client] = "gone"]
  /\ closing' = [closing EXCEPT ![w] = p]

\* Mutant: the entry of the table keeps the deleted connection.
RemoveKeepsEntry(w) ==
  /\ closing[w] # Null
  /\ conn' = [conn EXCEPT ![closing[w]] = Null]
  /\ closing' = [closing EXCEPT ![w] = Null]
  /\ UNCHANGED <<pipe, pend, connq, msgq, tcpConns, nextWorker, net, hist>>

\* _remove_conn(): stop the watchers, clear the entry of the table, delete the
\* connection with its unsent replies.
RemoveConn(w) ==
  /\ closing[w] # Null
  /\ tcpConns' = [tcpConns EXCEPT ![w][conn[closing[w]].fd] = Null]
  /\ conn' = [conn EXCEPT ![closing[w]] = Null]
  /\ closing' = [closing EXCEPT ![w] = Null]
  /\ UNCHANGED <<pipe, pend, connq, msgq, nextWorker, net, hist>>

\* The RtcMsg _process_push(), _process_pull(), ... build for the request.
Msg(w, p) == [client |-> conn[p].client, worker |-> w, conn |-> p,
              fd |-> conn[p].fd, name |-> StreamOf[conn[p].client]]

\* The connection is not sealed by bytes_processed = 65536.
MayRequest(p) == ~ conn[p].sealed

\* _read_query(), _process_query_buffer() and _process_request() once a request is
\* complete: it goes to RtcServer and seals the connection.
ReadRequest(w, f) ==
  /\ Looping(w) /\ tcpConns[w][f] # Null
  /\ LET p == tcpConns[w][f] IN
     /\ MayRequest(p)
     /\ msgq' = Push(msgq, RtcSrv, Msg(w, p)) /\ Notifies(w, RtcSrv, "RTC_MSG")
     /\ conn' = [conn EXCEPT ![p].sealed = TRUE]
     /\ accepted' = Append(accepted, conn[p].client)
  /\ UNCHANGED <<pipe, closing, connq, tcpConns, nextWorker, net, handled, dropped>>

\* The same handler when the client hung up, the read failed or the request cannot
\* be understood (magic number, JSON, a missing field, cmdno): close, no reply.
ReadClose(w, f) ==
  /\ Looping(w) /\ tcpConns[w][f] # Null
  /\ CloseConn(w, tcpConns[w][f])
  /\ UNCHANGED <<pipe, pend, connq, msgq, tcpConns, conn, nextWorker, got, hist>>

\* conn_timer_cb() and _process_timeout(): no byte for connection_timeout.
Timeout(w, f) ==
  /\ Looping(w) /\ tcpConns[w][f] # Null
  /\ CloseConn(w, tcpConns[w][f])
  /\ UNCHANGED <<pipe, pend, connq, msgq, tcpConns, conn, nextWorker, got, hist>>

\* Mutant: the pointer on the message is trusted when the entry is in use.
SameConnUnchecked(m) == tcpConns[m.worker][m.fd] # Null

\* The checks of _response_server_offer(): the entry of the table still holds the
\* connection that sent the request.
SameConn(m) == tcpConns[m.worker][m.fd] = m.conn

\* _process_notify(RTC_MSG): _response_server_offer() and _add_reply().
Respond(w) ==
  /\ Notified(w, "RTC_MSG")
  /\ ReadPipe(w)
  /\ IF msgq[w] = << >>
     THEN UNCHANGED <<msgq, conn>>
     ELSE LET m == Head(msgq[w]) IN
          /\ msgq' = Pop(msgq, w)
          /\ IF SameConn(m)
             THEN conn' = [conn EXCEPT ![tcpConns[w][m.fd]].replies = Append(@, m)]
             ELSE UNCHANGED conn
  /\ UNCHANGED <<pend, closing, connq, tcpConns, nextWorker, net, hist>>

\* _write_query(): send the replies until there are none or a write fails, which
\* closes the connection.
WriteQuery(w, f) ==
  /\ Looping(w) /\ tcpConns[w][f] # Null
  /\ LET p == tcpConns[w][f]
         c == conn[p].client
         r == conn[p].replies
     IN /\ r # << >>
        /\ \E sent \in 0..Len(r) :
             /\ got' = [got EXCEPT ![c] = @ \o [i \in 1..sent |-> r[i].client]]
             /\ conn' = [conn EXCEPT ![p].replies = SubSeq(r, sent + 1, Len(r))]
             /\ IF sent = Len(r) THEN UNCHANGED <<closing, sock, phase>>
                                 ELSE CloseConn(w, p)
  /\ UNCHANGED <<pipe, pend, connq, msgq, tcpConns, nextWorker, hist>>

\* conn_io_cb()
ConnIo(w, f) == ReadRequest(w, f) \/ ReadClose(w, f) \/ WriteQuery(w, f)

-----------------------------------------------------------------------------
(* RtcServer *)

\* Mutant: RtcServer picks a worker by who asks, not by the stream.
RouteByWorker(m) == IF m.worker = 1 THEN CHOOSE r \in RtcWorker : TRUE
                                    ELSE CHOOSE r \in RtcWorker : r # (CHOOSE q \in RtcWorker : TRUE)

\* _get_worker()
Route(m) == Hash[m.name]

\* _process_rtc_msg(): when the certificate is missing or too old and no new one can be
\* generated the request is dropped, and nobody answers it.
RouteMsg ==
  /\ Notified(RtcSrv, "RTC_MSG")
  /\ ReadPipe(RtcSrv)
  /\ LET m == Head(msgq[RtcSrv]) IN
     \/ /\ msgq' = Push(Pop(msgq, RtcSrv), Route(m), m)
        /\ Notifies(RtcSrv, Route(m), "RTC_MSG")
        /\ UNCHANGED dropped
     \/ /\ msgq' = Pop(msgq, RtcSrv)
        /\ dropped' = dropped \cup {m.client}
        /\ UNCHANGED pend
  /\ UNCHANGED <<connq, table, nextWorker, net, accepted, handled>>

-----------------------------------------------------------------------------
(* RtcWorker *)

\* Mutant: a request the stream manager refuses is not answered.
ExecuteAnswersSuccess(r) ==
  /\ Notified(r, "RTC_MSG")
  /\ ReadPipe(r)
  /\ LET m == Head(msgq[r]) IN
     \/ /\ msgq' = Push(Pop(msgq, r), m.worker, m)
        /\ Notifies(r, m.worker, "RTC_MSG")
        /\ handled' = Append(handled, m.client)
     \/ /\ msgq' = Pop(msgq, r)
        /\ UNCHANGED <<pend, handled>>
  /\ UNCHANGED <<connq, table, nextWorker, net, accepted, dropped>>

\* _process_rtc_msg() and _process_push() etc.: whether or not the stream manager
\* sets err_no, the message goes back to msg->worker.
Execute(r) ==
  /\ Notified(r, "RTC_MSG")
  /\ ReadPipe(r)
  /\ IF msgq[r] = << >>
     THEN UNCHANGED <<msgq, pend, handled>>
     ELSE LET m == Head(msgq[r]) IN
          /\ msgq' = Push(Pop(msgq, r), m.worker, m)
          /\ Notifies(r, m.worker, "RTC_MSG")
          /\ handled' = Append(handled, m.client)
  /\ UNCHANGED <<connq, table, nextWorker, net, accepted, dropped>>

-----------------------------------------------------------------------------
Next ==
  \/ \E t \in Thread : Notify(t)
  \/ \E c \in Client, f \in Fd : Accept(c, f)
  \/ \E w \in SigWorkers : NewConn(w) \/ Respond(w) \/ RemoveConn(w)
  \/ \E w \in SigWorkers, f \in Fd : ConnIo(w, f) \/ Timeout(w, f)
  \/ RouteMsg
  \/ \E r \in RtcWorker : Execute(r)

\* Every event loop keeps running and every watcher of a ready pipe is called:
\* libev reports a readable pipe in each iteration until it is read.
Fairness ==
  /\ \A t \in Thread : WF_vars(Notify(t))
  /\ \A w \in SigWorkers : WF_vars(NewConn(w) \/ Respond(w)) /\ WF_vars(RemoveConn(w))
  /\ WF_vars(RouteMsg)
  /\ \A r \in RtcWorker : WF_vars(Execute(r))

Spec == Init /\ [][Next]_vars /\ Fairness

-----------------------------------------------------------------------------
(* Properties *)

\* Every variable has its type.
TypeOK ==
  /\ pipe \in [Receiver -> Seq({"NEW_CONN", "RTC_MSG"})]
  /\ pend \in [Thread -> Pend \cup {Null}]
  /\ closing \in [SigWorkers -> Ptr \cup {Null}]
  /\ connq \in [SigWorkers -> Seq(Fd)]
  /\ msgq \in [Receiver -> Seq(Request)]
  /\ tcpConns \in [SigWorkers -> [Fd -> Ptr \cup {Null}]]
  /\ conn \in [Ptr -> Conn \cup {Null}]
  /\ nextWorker \in SigWorkers
  /\ sock \in [Fd -> Client \cup {Null}]
  /\ phase \in [Client -> {"new", "open", "gone"}]
  /\ got \in [Client -> Seq(Client)]
  /\ accepted \in Seq(Client) /\ handled \in Seq(Client) /\ dropped \subseteq Client

\* The places of an int in a pipe, and the threads that still have to write it there.
Places(ints, int) == {i \in 1..Len(ints) : ints[i] = int}
Writers(t, int) == {u \in Thread : pend[u] = [to |-> t, int |-> int]}

\* How many ints of one kind receiver t was or is being sent and has not read.
Ints(t, int) == Cardinality(Places(pipe[t], int)) + Cardinality(Writers(t, int))

\* No wake-up is lost or invented: each queued message and each queued descriptor
\* has exactly one int in the pipe or on its way there.  So no handler finds its
\* queue empty (RtcServer would dereference a null message) and none is left behind.
WakeupPerMessage ==
  /\ \A t \in Receiver : Ints(t, "RTC_MSG") = Len(msgq[t])
  /\ \A w \in SigWorkers : Ints(w, "NEW_CONN") = Len(connq[w])

\* An entry of a worker's table is a live connection on that descriptor.  Unless the
\* worker is just closing it, the descriptor is open for that client and no other worker
\* has it in its table, except one that is just closing an older connection of that
\* number: the kernel may give the number to another worker as soon as close() returns,
\* before the old entry is cleared.
OneOwnerPerFd ==
  \A w \in SigWorkers, f \in Fd :
    tcpConns[w][f] # Null =>
      /\ conn[tcpConns[w][f]] # Null
      /\ conn[tcpConns[w][f]].fd = f
      /\ closing[w] # tcpConns[w][f] =>
           /\ sock[f] = conn[tcpConns[w][f]].client
           /\ \A v \in SigWorkers \ {w} : tcpConns[v][f] \in {Null, closing[v]}

\* A client receives at most one reply, and it answers its own request: comparing the
\* pointer on the message with the entry of the table tells a new connection from the
\* one that asked, although the descriptor may have been reused meanwhile.
OwnReply == \A c \in Client : got[c] \in {<< >>, <<c>>}

\* A request is answered at most once, whoever receives the reply.  Somebody else gets
\* it only when the client that asked has lost its connection, and only on a connection
\* that has the very address and descriptor of the lost one: a late reply may go astray
\* (see OwnReply), but never while its own client waits for it.
OneReplyEach ==
  /\ \A c, d \in Client : \A i \in 1..Len(got[c]), j \in 1..Len(got[d]) :
       /\ got[c][i] = got[d][j] => c = d /\ i = j
       /\ got[c][i] # c => phase[got[c][i]] = "gone"
  /\ \A p \in Ptr : conn[p] # Null => \A i \in 1..Len(conn[p].replies) :
       conn[p].replies[i].conn = p /\ conn[p].replies[i].fd = conn[p].fd

\* The requests of one stream are executed in the order RtcServer received them,
\* whichever SignalingWorkers sent them, and none of them is skipped or executed twice
\* except those that RtcServer dropped: what is executed was received, once, and what
\* was received before it for the stream was executed before it.
StreamOrder ==
  \A j \in 1..Len(handled) :
    /\ \A i \in 1..(j - 1) : handled[i] # handled[j]
    /\ \E b \in 1..Len(accepted) :
         /\ accepted[b] = handled[j]
         /\ \A a \in 1..(b - 1) :
              StreamOf[accepted[a]] = StreamOf[handled[j]] /\ accepted[a] \notin dropped
                => \E i \in 1..(j - 1) : handled[i] = accepted[a]

\* c's request has been executed and its message taken off the return path.
Returned(c) == /\ \E i \in DOMAIN handled : handled[i] = c
               /\ \A w \in SigWorkers : \A i \in DOMAIN msgq[w] : msgq[w][i].client # c

\* Every request RtcServer receives comes back to its SignalingWorker, or was dropped
\* for want of a certificate.
EveryRequestReturned ==
  \A c \in Client :
    (\E i \in DOMAIN accepted : accepted[i] = c) ~> (c \in dropped \/ Returned(c))

-----------------------------------------------------------------------------
(* What the invariants rest on *)

\* The descriptors between accept() and _new_conn(): open, queued once, in no table
\* except as the number of a connection that is just being closed.
QueuedFds ==
  /\ \A w \in SigWorkers : \A i \in 1..Len(connq[w]) :
       /\ sock[connq[w][i]] # Null
       /\ \A v \in SigWorkers : tcpConns[v][connq[w][i]] \in {Null, closing[v]}
  /\ \A w, v \in SigWorkers : \A i \in 1..Len(connq[w]), j \in 1..Len(connq[v]) :
       connq[w][i] = connq[v][j] => w = v /\ i = j

\* A client has one descriptor while it is open and one connection, which is in one table.
OneFdPerClient ==
  /\ \A f, g \in Fd : sock[f] # Null /\ sock[f] = sock[g] => f = g
  /\ \A f \in Fd : sock[f] # Null => phase[sock[f]] = "open"
  /\ \A p \in Ptr : conn[p] # Null => \E w \in SigWorkers : tcpConns[w][conn[p].fd] = p
  /\ \A w, v \in SigWorkers, f \in Fd :
       tcpConns[w][f] # Null /\ tcpConns[w][f] = tcpConns[v][f] => w = v
  /\ \A p, q \in Ptr :
       conn[p] # Null /\ conn[q] # Null /\ conn[p].client = conn[q].client => p = q

\* What a worker is closing is a connection of its own table, its client gone.
ClosedIsOwn ==
  \A w \in SigWorkers : closing[w] # Null =>
    /\ conn[closing[w]] # Null
    /\ tcpConns[w][conn[closing[w]].fd] = closing[w]
    /\ phase[conn[closing[w]].client] = "gone"

\* The inductive invariant of queues, pipes and descriptors.
IInv == /\ TypeOK /\ WakeupPerMessage /\ OneOwnerPerFd
        /\ QueuedFds /\ OneFdPerClient /\ ClosedIsOwn

\* The clients whose request was sent to RtcServer.
Asked == {accepted[i] : i \in 1..Len(accepted)}

\* A client asks once: whoever is not sealed has not asked.
AskOnce ==
  /\ \A i, j \in 1..Len(accepted) : accepted[i] = accepted[j] => i = j
  /\ \A c \in Client : phase[c] = "new" => c \notin Asked
  /\ \A w \in SigWorkers : \A i \in 1..Len(connq[w]) : sock[connq[w][i]] \notin Asked
  /\ \A p \in Ptr : conn[p] # Null /\ conn[p].client \in Asked => conn[p].sealed

\* A message is of a client that asked, and is where its route takes it.
InFlight ==
  \A t \in Receiver : \A i \in 1..Len(msgq[t]) :
    LET m == msgq[t][i] IN
    /\ m.client \in Asked /\ m.name = StreamOf[m.client]
    /\ t \in SigWorkers => t = m.worker
    /\ t \in RtcWorker => t = Route(m)

\* No two messages are of one client.
OneInFlight ==
  \A t, u \in Receiver : \A i \in 1..Len(msgq[t]), j \in 1..Len(msgq[u]) :
    msgq[t][i].client = msgq[u][j].client => t = u /\ i = j

\* The inductive invariant of requests.
RequestInv == AskOnce /\ InFlight /\ OneInFlight

\* A message in flight has no reply yet, queued or received, and names its client's own
\* connection unless that client is gone.
Unanswered ==
  \A t \in Receiver : \A i \in 1..Len(msgq[t]) :
    LET m == msgq[t][i] IN
    /\ \A p \in Ptr : conn[p] # Null =>
         \A k \in 1..Len(conn[p].replies) : conn[p].replies[k].client # m.client
    /\ \A d \in Client : \A k \in 1..Len(got[d]) : got[d][k] # m.client
    /\ phase[m.client] # "gone" => conn[m.conn] # Null /\ conn[m.conn].client = m.client

\* A queued reply is queued once and was not sent; it is its client's own unless that
\* client is gone.
ReplyQueuedOnce ==
  \A p \in Ptr : conn[p] # Null => \A i \in 1..Len(conn[p].replies) :
    LET c == conn[p].replies[i].client IN
    /\ c \in Asked
    /\ c # conn[p].client => phase[c] = "gone"
    /\ \A d \in Client : \A k \in 1..Len(got[d]) : got[d][k] # c
    /\ \A q \in Ptr : conn[q] # Null => \A j \in 1..Len(conn[q].replies) :
         conn[q].replies[j].client = c => p = q /\ i = j

\* The inductive invariant of replies.
ReplyInv ==
  /\ Unanswered /\ ReplyQueuedOnce /\ OneReplyEach
  /\ \A c \in Client : \A i \in 1..Len(got[c]) : got[c][i] \in Asked

\* c comes before d in s.
Before(s, c, d) == \E a, b \in 1..Len(s) : a < b /\ s[a] = c /\ s[b] = d

\* The receivers on the way to the RtcWorkers.
Way == RtcWorker \cup {RtcSrv}

\* On the way there: what was asked is with RtcServer, with its RtcWorker, executed or
\* dropped.
Outbound ==
  /\ \A c \in Asked :
       \/ c \in dropped
       \/ \E j \in 1..Len(handled) : handled[j] = c
       \/ \E t \in Way : \E i \in 1..Len(msgq[t]) : msgq[t][i].client = c
  /\ \A j \in 1..Len(handled) : handled[j] \in Asked

\* A stream's requests keep their order in the queues on the way there.
QueuesInOrder ==
  /\ \A t \in Way : \A i, j \in 1..Len(msgq[t]) :
       i < j => Before(accepted, msgq[t][i].client, msgq[t][j].client)
  /\ \A r \in RtcWorker : \A i \in 1..Len(msgq[r]), j \in 1..Len(msgq[RtcSrv]) :
       Before(accepted, msgq[r][i].client, msgq[RtcSrv][j].client)

\* What is executed came before what is executed later, or is still on the way to the
\* same RtcWorker.
HandledInOrder ==
  /\ \A i, j \in 1..Len(handled) :
       i < j => /\ handled[i] # handled[j]
                /\ Hash[StreamOf[handled[i]]] = Hash[StreamOf[handled[j]]]
                     => Before(accepted, handled[i], handled[j])
  /\ \A i \in 1..Len(handled), t \in Way : \A j \in 1..Len(msgq[t]) :
       /\ handled[i] # msgq[t][j].client
       /\ Hash[StreamOf[handled[i]]] = Route(msgq[t][j])
            => Before(accepted, handled[i], msgq[t][j].client)

\* The inductive invariant of the order of requests.
OrderInv == Outbound /\ QueuesInOrder /\ HandledInOrder
=============================================================================
