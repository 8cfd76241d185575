# A TLA+ model of xrtc-server

xrtc-server is a WebRTC SFU. Clients ask a TCP signaling port to publish ("push")
or play ("pull") a named stream and get an SDP offer back; media then flows over
ICE, DTLS and SRTP, and the packets of a push stream are forwarded to the pull
stream of the same name. This directory holds TLA+ modules of its own logic, the
TLC configurations that check them on small instances, and TLAPS proofs.
`PROJECT.json` maps every definition to the lines it models and lists the runs,
mutants, findings, hazards and theorems.

## 1. Inventory

Threads: one SignalingServer (accepts), N SignalingWorkers (TCP connections), one
RtcServer (routing), M RtcWorkers (streams and media). Each runs a libev event loop.
They talk through queues plus one int written to the receiver's pipe. Everything
below RtcStreamManager runs in the one thread of its RtcWorker.

| Component | State | Operations | Talks to | What is hard | What makes it right |
|---|---|---|---|---|---|
| `LockFreeQueue` | three pointers into a list, counter | produce, consume, size, destructor | one producer and one consumer thread | every interleaving of loads and stores, addresses used again | no access to a deleted node, nothing leaked, a FIFO |
| `SignalingServer` | workers, next worker index | start, accept, dispatch, stop | SignalingWorker: descriptor queue and pipe | blocking pipes | each descriptor reaches one worker |
| `SignalingWorker` | `_tcp_conns`, two queues, per connection: buffer, parser state, replies, timer | new connection, read, parse, answer, write, time out, close | RtcServer and RtcWorker: messages | connections that close while their request is away; descriptors and pointers used again; partial reads and writes | a client gets its own reply, once, complete |
| `RtcServer` | queue under a mutex, certificate | route by crc32(name) | RtcWorkers | several senders | order per stream, no wake-up lost |
| `RtcWorker` | queue | push, pull, stop, answer | stream manager, then back to the SignalingWorker | refusals and failures | every request is answered |
| `RtcStreamManager`, `RtcStream` | maps name to stream, 30 s timers | create, stop, answer, state changes, timeouts, forwarding | PeerConnection | streams replaced under the same name, deletion inside callbacks | no dangling entry, timer or PeerConnection; only the owner touches a stream |
| `PeerConnection`, `SessionDescription` | local and remote description | offer, answer, candidates, destroy | stream, transports | answers as text that fail half way, sources of one stream written into another's offer, deletion from its own signal | an offer tells what is behind it, an answer counts whole or not at all |
| `TransportController`, `IceAgent` | transports by name, aggregated state | local and remote description, state changes | PeerConnection, channels, DtlsTransport | two state machines that change separately | "connected" means media can flow |
| `DtlsTransport`, `DtlsSrtpTransport` | handshake context, cached ClientHello, keys | ICE events, packets, fingerprint | IceTransportChannel, SSLStreamAdapter, libsrtp | three events in any order, a second answer | keys belong to the latest answer |
| `IceTransportChannel`, `IceController`, `IceConnection`, `UDPPort`, `StunRequest` | connections, selected connection, ping sets, announced state | binding requests and responses, ping timer, answer | AsyncUdpSocket, DtlsTransport | loss, timeouts, connections deleted inside loops, pointers kept | sends over a live connection, announces the truth, drops the silent |
| `StunMessage`, `StunRequest` | attributes, requests under way | build, sign, check, read, match | UDPPort, IceConnection | lengths and padding in three places; answers late, twice, damaged | only genuine requests are served, all of those are |
| `SrtpSession`, `SrtpTransport` | keys, a process-wide usage count | set and replace keys, protect, unprotect | libsrtp, shared by all threads | initialisation and shutdown by sessions of different threads, failures half way | libsrtp is up while it is used, both keys or none |
| `AsyncUdpSocket`, `EventLoop` | list of unsent packets, events asked for | send, read, write event | kernel | a full send buffer | order is kept, packets leave |
| JSON library (`base/json.hpp`) | lexer, parser stack, tree | parse, access, dump, destroy | SignalingWorker | an automaton over bytes, pointers into a tree that moves | exactly JSON, sound memory, replies that can be read |
| `main`, `XrtcLog`, `conf` | servers, log queue, signal handler | start, SIGINT, join | all threads | requests before the media side exists, pipes closed while written to | the process ends, the log outlives its writers |

The hazards, each at the line where it bites and with the properties that would
catch it, are in `PROJECT.json`.

## 2. Modules

| Module | Models | Run module | Proofs |
|---|---|---|---|
| `Fifo` | what the queue promises: publish and take, in order | | |
| `LockFreeQueue` | `base/lock_free_queue.h` | `MCRequestPath` | `RequestPathProofs` |
| `Signaling` | SignalingServer, SignalingWorker, RtcServer, RtcWorker with their queues and pipes | `MCSignaling` | `SignalingProofs` |
| `TcpFraming` | one connection of a SignalingWorker, byte by byte | `MCRequestPath`, `MCTcpFraming` | `RequestPathProofs` |
| `StreamManager` | RtcStreamManager, its streams and the life of their PeerConnections | `MCStreams` | `StreamProofs` |
| `DtlsSrtp` | DtlsTransport, DtlsSrtpTransport, TransportController | `MCDtlsSrtp` | `DtlsSrtpProofs` |
| `IceChannel` | IceTransportChannel, IceController, IceConnection, UDPPort | `MCIceChannel` | `IceChannelProofs` |
| `LossyQueue` | what a UDP socket promises its sender | | |
| `UdpSocket` | AsyncUdpSocket on the EventLoop; implements `LossyQueue` | (in `MediaPath`) | |
| `SrtpSession` | SrtpSessions of several threads and libsrtp's usage count | (in `MediaPath`) | |
| `MediaPath` | composes `UdpSocket` and `SrtpSession`: sending, telling apart, receiving | `MCMediaPath` | `MediaPathProofs` (also of `UdpSocket` and `SrtpSession`) |
| `Stun` | StunMessage and its attributes | (in `StunSession`) | |
| `StunSession` | UDPPort, IceConnection and StunRequest against a client over a bad network | `MCStunSession` | `StunSessionProofs` (also of `Stun`) |
| `Sdp` | SessionDescription, its text, and `set_remote_sdp()` | (in `Negotiation`) | |
| `Negotiation` | offers and answers of several PeerConnections, TransportController, IceAgent, ports | `MCStreams` (answers in `MCNegotiation`) | `StreamProofs` (also of `Sdp`) |
| `Log` | XrtcLog | (in `Lifecycle`) | |
| `Lifecycle` | main(), start and stop of both servers and their workers | `MCLifecycle` | `LifecycleProofs` (also of `Log`) |
| `JsonLexer`, `JsonWriter` | lexer and serializer of `base/json.hpp` | (in `JsonRequest`) | |
| `JsonGrammar` | reference: what RFC 8259 calls JSON | | |
| `JsonRequest` | the parser, its tree, and `_process_request()` | `MCJsonRequest` | |

**LockFreeQueue.** One step per load or store that the other thread can observe;
`ppc` and `cpc` are the program counters of producer and consumer. The build does not
optimise and targets x86-64: stores appear in program order, each variable has one
writer and the updates of the counter are full barriers, so sequential consistency
is exact here. Deleted nodes keep their contents and their addresses may be
returned at once. `in`, `out`, `chain`, `nfreed` are history. `size()` may be -1 or
too large by one for a moment; `SizeAccounting` says exactly when.

**Signaling.** An action is one event handler of one thread. A message is queued, then
announced: `pend` holds the blocking `write()` to a pipe, a step of its own during
which the thread does nothing else. Connections are identified by client, so that
descriptor numbers (`Fd`) and addresses of TcpConnections (`Ptr`) can be reused.
The allocator may return any address that holds no object, also one that a message
still carries. Closing a connection is two steps, `close(fd)` (`CloseConn`) and
`_remove_conn()` (`RemoveConn`), because the accepting thread may be given the number
again between them. The queues are the FIFO that `LockFreeQueue` refines, or
`std::queue` under a mutex. Failing to generate the certificate drops the request
(`dropped`).

**TcpFraming.** Counts of bytes: what is in `querybuf`, `bytes_expected`,
`bytes_processed`. Sizes are scaled down (header 2 for 36, seal 6 for 65536); the
proofs are for all sizes. The client may split its bytes in any way and send more
than one request. Reply bytes are numbered, because `_write_query()` writes from the
start of a reply each time.

**StreamManager.** Streams are numbered as they are created. `reg` is the two maps.
`ConnectionState` is any change the transports report (DTLS needs an answer's
fingerprint, `keyed`); `IceTimeout` the 30 s timer; `DestroyTimer` the 10 ms timer
that deletes a PeerConnection. `source` is the stream whose SSRCs a pull offer
declares. RTP goes from a push stream to its pull stream, RTCP both ways (`RtpTarget`,
`RtcpTarget`). Members of deleted streams are reset, which only merges states.

**DtlsSrtp.** One bundled transport. The adapter behind `_dtls` is external and is
described by what it was told (`started`, `fed`, `digest`) and what it did
(`cert`, `posted`). Each handler is a step with all signals it raises, up to the
aggregated state, except the slot of DtlsSrtpTransport for a new DTLS state
(`KeySlot`): the TransportController's slots were connected first, so the
PeerConnection's state is announced while `due` says that the keys are still to be
installed or dropped. Nothing is sent in between, as both run in one signal.
`set_rtp_params()` may refuse the keys (`refused`). ICE is free here apart from the way
its state is computed.

**IceChannel.** A handler is one step; the chain of signals inside it (each change of
a connection sorts, switches and announces again) is composed of functions on the
record `State`, in the order of the calls. Connections are memory cells, because the
code compares pointers. The controller keeps a pointer to a deleted selected connection
and reads through it: what it reads there is anything (`Freed`, `Overwritten`) or the
members of the connection created there next. A call on a deleted object (a ping of such
a connection, a packet through the port's entry, which is never erased, a second delete of
a request) has no defined outcome: the process counts as crashed (`up`) and is not followed
further. Time is the thresholds the code compares with: `recent` is 2.5 s
since anything came, `wait` is how long pings are unanswered (5 s with five pings,
15 s), and `due` which ping intervals are over. The moving average of the rtt may
give any value of `Rtt`, in units of `k_min_inprovement`. An answer after a newer
one is taken, as the code does; the model does not count requests, so it may take
more of them than were sent. `Sorted` is the stable sort as what it returns, the loop of
`_update_connection_states()` is the recursive function `UpdatedUpTo`.

**UdpSocket, SrtpSession, MediaPath.** Every `recvfrom()` and `sendto()` is a step,
because the kernel's buffers change meanwhile; libev is level-triggered and clears
what is pending for a watcher that is stopped or changed. `UdpSocket` implements
`LossyQueue`: the queue is what was handed over and has neither left nor been dropped.
In `SrtpSession` each critical section under `g_libsrtp_lock` and each call into
libsrtp is a step, so two threads may be anywhere in `set_rtp_params()`. Lengths are
those of the code; suites differ in the tags of RTP and RTCP.

**Stun, StunSession.** An attribute has its declared length, its real bytes and a value;
a digest is the record of what it covers, so that a wrong length or a missing byte
makes a different digest. The client is written from the RFC and not from the code.
Datagrams stay in their sets: each may arrive never, late or often, whole or damaged.
`server` is running until an error response makes `check_response()` delete a request
twice, or until the connection is lost (`Lost`) and a packet arrives for the entry that
the port keeps (`Stray`); then the process counts as crashed.

**Sdp, Negotiation.** A text is a sequence of lines with fields; `to_string()` writes
it, `ParseLines` reads it line by line into the state `set_remote_sdp()` keeps, errors
and early returns included. What a reader of the RFC takes from a text (`Ref`) is
stated separately and the properties compare the two. The clients are external: an
answer is any text that `Conforms`, which is written from the RFCs and not from the
code. It may still fail to parse anywhere (`d` of the run does), leave out the
fingerprint, bundle its sections in another order, have sections the server does not
know, or lack its last line end. It may name the algorithm of a digest in capitals, and have
lines with `m=` in them that are no section's first, which the parser takes for one
(`HasM`); `Plain` answers have none of these. `AsRead` is the answer as its last line is
read, without its last character if there is no line end. It has one bundle of all its
audio and video sections, one ufrag and password in the tagged section, one cname and one
msid for each SSRC, and groups only of SSRCs that the section names; without this, what a
text declares would not be defined and there would be nothing to compare. A request for neither audio nor video
makes an offer without sections; the model's `Media` leaves it out, as no transport is
behind it.

**Log, Lifecycle.** Every step of `main()`, each worker's creation and thread, the
signal handler between any two of them, pipes that are not yet open, open, half
closed or closed, and one request on its way. Each SIGINT has its own run of the handler,
as the signal is blocked only in the thread that runs one. Of the log lines only each
thread's last and those of `main()` are there.

**JsonLexer, JsonRequest, JsonWriter.** The lexer is a function of its state and one
byte; `scan_number()` is its table of transitions. The parser is one action per token it
takes. The tree is a heap of addresses, so that a pointer into an array that has moved
is visible. Member names are one letter. Numbers keep their digits, as 64-bit values
are beyond TLC's integers. The text is chosen while it is read.
`JsonGrammar` cuts the text into lexemes, strings, numbers and values by the grammar of
RFC 8259 and uses neither automaton, so a wrong transition of the lexer, the parser or
the serializer shows as a difference.

### What the components promise each other

`Signaling` uses the queue as the FIFO that `LockFreeQueue` is shown to implement.
`Signaling` takes a request whole and a reply whole; `TcpFraming` says when that is
so. `StreamManager` lets a stream connect at any time once it is keyed; `DtlsSrtp`
says what connected means. `DtlsSrtp` lets ICE change at will; `IceChannel` says what
it announces. The computation of the ICE state is the same in both.
`IceChannel` takes a request or response as authentic; `StunSession` says which are.
`StreamManager` and `DtlsSrtp` take an answer as good or bad with one fingerprint;
`Negotiation` says what the text yields. `DtlsSrtp` installs both keys or none;
`SrtpSession` has the steps and says so. `Signaling` takes a request as understood or not;
`JsonRequest` says which are. `Signaling` begins when all threads run; `Lifecycle`
says how they come up and go down.

## 3. Runs

| Run | Bounds | States | Shows |
|---|---|---|---|
| `request_path` | queue: 5 addresses, 2 values, 4 elements; framing: header 2, bodies of 0 to 3 bytes, seal 6, up to 8 bytes sent | 28 thousand | of the queue memory safety, no leak, refinement of `Fifo`; a request is handed on exactly when its last byte is read, and it is |
| `signaling` | 3 connections (2 of one stream), 2 descriptors, 2 addresses, 2 workers of each kind, pipes of 1 int | 315 thousand | one int per message; a descriptor in two tables only while one worker closes it; one reply per request, to somebody else only when its client is gone; order per stream; every request that gets a certificate comes back |
| `signaling_reuse` (violation) | as `signaling` | | the pointer check of a reply does not tell an old connection from a new one at the same address |
| `streams` | 2 users, 1 name, 3 streams; 2 PeerConnections, 3 offers, 2 answers out of 9, 2 networks, 3 ports of which 2 may be refused | 55 thousand | no dangling entry, timer or target of forwarding; PeerConnections outlive callbacks; only the owner touches a stream; a registered stream that never connects is removed; offers describe their transport and ports; a pull declares what was pushed, and nothing without an answer that parses; a transport is of one whole answer; the null fingerprint is met only for answers without one |
| `framing_partial` (violation) | replies of 3 bytes, send buffer of 2 | | a partial write repeats the start of the reply and loses its end |
| `transport` | 4 fingerprints (one refused, one without SRTP), 4 answers, keys taken or refused | 3.3 thousand | keys belong to the current handshake and the latest answer; no start is lost; connected carries media or its keys are missing for good; the handshake ends |
| `ice` | 2 addresses, 2 cells, 2 round trip times | 47 thousand | the announced state is current; lists and ping sets agree with the live connections, the channel's selected one among them; checks start; silent connections are removed |
| `ice_dangling` (violation) | the same | | the controller's selected connection may be a deleted one when it pings |
| `media` | 2 transports on 2 threads, 2 set-ups each, a good suite and a bad one, 3 packets, a send buffer of 1, 2 arrivals of 6 kinds | 171 thousand | libsrtp is up while in use, both keys or none; no overrun, no packet taken for another kind; `UdpSocket` implements `LossyQueue`; packets leave |
| `stun` | 7 kinds of requests, datagrams with any value changed, cut, or too long, answers with success or error | 17 thousand | only genuine requests are served; none is refused as unauthorised; the client reads every message; each ping is answered at most once |
| `lifecycle` | 1 SignalingWorker, 2 RtcWorkers, 1 request, 2 SIGINTs, failing initialisation | 534 thousand | the log outlives its writers; what early requests can do; SIGINT ends the process |
| `json` | texts of up to 8 structural pieces, 6 of numbers, 4 of UTF-8, escapes or literals; about 290 whole requests | 180 thousand | exactly JSON and its value; no dangling pointer or leak; replies read back; incomplete requests cost their connection only |

`request_path` and `streams` each check two modules that have no variable in common and
no property about both: one of them takes its steps while the other is where it begins,
so the run has the sum of their states and not the product. Three runs leave out behaviours
that are others with names exchanged: unused addresses of the queue are taken in order
(`FirstUseInOrder`), as are descriptors and addresses that nothing refers to
(`InOrder`, which also lets the first of the two connections of one stream connect first),
and of two PeerConnections that are not there the first is made (`P1First`). TLC's own
symmetry is not used, as it is unsound for liveness.

Why the bounds are enough for the interesting cases: four elements over five
addresses make the producer reclaim nodes while the consumer is inside the list and
reuse their addresses. Two descriptors for three connections make numbers be reused
by another worker, also while the first one is still closing. Pipes of one int make every `notify()` block at some time. Three
streams are a push, its pull, and a replacement of either. Two answers after a
complete handshake reach every branch of `set_remote_fingerprint()`. Two cells let a
new connection appear where one was deleted, or beside it. One int of room in the
kernel's buffer makes the socket queue, drain and queue again. Two transports, each
set up twice, put one thread's shutdown of libsrtp between any two steps of the other.
Two answers are an answer and a renegotiation, or an answer that fails after one that
did not. Two SIGINTs put the second one between the closing of the two ends of a pipe, or beside
the first one's handler.
Eight structural pieces nest containers four deep and make arrays grow twice; four
bytes are the longest UTF-8 sequence, six pieces pass every state of the number
automaton.

Deadlock checking is on in `json`, where every request must come to its end. It is off
in the other runs: all of them stop when the bounded clients have
sent everything, when a connection is closed, or when the queue is destroyed.

**A limit of `signaling`.** SignalingWorker, RtcServer and RtcWorker write to each
other's blocking pipes in a circle. All three block when all the pipes of the circle
are full, which needs more requests in flight than the pipes hold together; with the
real 16384 ints per pipe this takes tens of thousands of connections with a request
under way. Three connections over pipes of one int stay below it.

**A limit of `RequestExact`.** Sealing a connection by `bytes_processed = 65536` holds
only while fewer than 65536 + body_len bytes are in the buffer; the property says so.
DEEP-DIVE.md describes the seal as final.

### Fairness

Only what event loops and kernels give. `Signaling`: each loop runs, and a readable
pipe is reported until it is read (libev watchers are level-triggered); a blocked
`write()` returns when there is room; a thread that closed a connection goes on to
`_remove_conn()`. Clients owe nothing. `StreamManager`: armed
timers fire. `TcpFraming`: the worker reads what has arrived and does not stop in a
handler; the client owes nothing.
`DtlsSrtp`: a signal's slots run, the client repeats its ClientHello (DTLS retransmits)
and the loop runs what is posted; ICE and answers owe nothing, so `HandshakeEnds` is conditional on ICE
being writable and the answer final. `IceChannel` has no fairness: `LostIsRemoved` is
about what one run of the timer does. `MediaPath`: the loop runs what is ready, the
kernel sends what it holds, a thread goes on inside its handler. `Lifecycle`: every
started thread, `main()` and the handlers go on; nobody owes a signal or a request.
`StunSession`, `Negotiation` and `JsonRequest` have safety properties only.

### Findings

Three runs state what a note or a comment of the repository says and the code does not do;
`PROJECT.json` quotes both sides.

- `framing_partial`: `_write_query()` sends a reply from its first byte again after a
  partial write (`signaling_worker.cpp:374`).
- `signaling_reuse`: comparing pointer and descriptor does not tell an old connection from
  a new one when both are reused (`signaling_worker.cpp:221`), so a client may receive
  another's reply. `OneReplyEach` says what is left: a request is answered once, and to
  somebody else only when its own client's connection is gone.
- `ice_dangling`: the IceController keeps a destroyed selected connection
  (`ice_controller.cpp:125`) and reads through the pointer when it sorts and pings.

Also seen while modelling, each at its line:

- `_write_query()` tries again at once when the send buffer is full
  (`signaling_worker.cpp:378`), though `socket.cpp:192` says it waits for the write event.
- A stream whose map entry was overwritten by another user's is not removed when its
  30 s are over (`rtc_stream_manager.cpp:146`); a pull stream goes on with SSRCs its
  offer never declared when its push stream is replaced (`:66`).
- The IceController leaves an unreliable connection, or one that was destroyed, only for
  one whose round trip time is 10 ms better (`ice_controller.cpp:106`; of a destroyed one it
  reads freed memory), so the channel may stay without a selected connection although one
  could be sent over.
- A reply longer than `MAX_RES_BUF` is cut by `snprintf()`, but `body_len` and the Slice keep
  the full length (`signaling_worker.cpp:253`). The length of an offer is not modelled.
- ERROR-CODE is never among the attributes that are parsed, so every error response
  counts as fatal and destroys the connection with its requests; `check_response()` then
  deletes the request a second time (`ice_connection.cpp:299`, `stun_request.cpp:80`).
- `UDPPort::_connections` is never erased (`udp_port.cpp:122`): the next packet from the
  address of a removed connection goes to a deleted object.
- When `set_rtp_params()` fails the PeerConnection stays connected without keys
  (`dtls_srtp_transport.cpp:223`); nothing tries again. `m=` anywhere in a line of an
  answer starts a section (`peer_connection.cpp:394`).
- An answer without a fingerprint in its tagged section dereferences null
  (`transport_controller.cpp:237`; `NullOnlyIfUntagged` bounds it). A failed answer
  replaces the remote description and so what later pulls declare. The last line of
  an answer loses a character if it has no line end. A pull without audio never sends
  (`peer_connection.cpp:480`).
- `~AsyncUdpSocket` leaks what is queued. The update branch of `set_rtp_params()` is
  unreachable, as `reset_params()` always comes first.
- A request that arrives before `g_rtc_server` is assigned dereferences null; one that
  arrives before the pipe is open leaves the RtcServer one message behind for good
  (`EarlyRequests` says exactly this). SIGTERM has a case in the handler and is never
  installed. A write into a pipe whose reading end is closed raises SIGPIPE. The log
  thread ends without a last pass (`log.cpp:102`), so what was logged last is not written.
  One RtcWorker that fails to start makes the
  RtcServer drop every request. Requests under way are dropped at shutdown.
- `_process_request()` catches `parse_error` and, around the fields, `out_of_range`.
  A missing or wrongly typed member raises `type_error` and a number like 1e9999
  `out_of_range` from the parser; neither is caught, and the process ends.
  `json::parse(body.data())` reads to the first NUL, not to `body_len`. `cmdno` is taken
  modulo 2^32, and `true` is command 1.

## 4. Proofs

All proofs hold for every value of the constants that the named assumptions allow.
`QueueAssumption`, `FramingAssumption`, `StreamAssumption`, `SignalingAssumption`,
`UdpAssumption`, `SrtpAssumption`, `MediaAssumption`, `IceAssumption`, `StunAssumption`,
`SdpAssumption`, `NegotiationAssumption` and `LifecycleAssumption` say that bounds are numbers, that the sets of a kind are not empty
or finite where they are counted, and that `None` or `Null` is none of the values it is
told from. More is assumed in these places. `FramingAssumption`:
the seal is larger than a header. `SignalingAssumption`: the hash of a name leads to an
RtcWorker (`% worker_num`). `LifecycleAssumption`: the servers and their workers are
different threads. `StunAssumption`: values are at most 32767 bytes long, so that a ping
fits the 16 bits of its length, and a client that has the server's password of this session
uses its ufrag of this session. `SdpAssumption`: the words of the program are words.
`NegotiationAssumption`: the ports of the range are different, credentials are not drawn
twice, and a stream has at least one medium, audio first. `DatagramAssumption`: senders encrypt only media with the keys of a
handshake, and RTP leaves to RTCP the payload types that RFC 5761 reserves for it.

Each inductive invariant is stated at the end of the module it is about and was checked
with TLC on the run's instance before it was proved. Each proof module has one lemma per
handler.

- **RequestPathProofs.** What carries a request: the bytes of a connection, and the queue
  between two threads. Of the queue, `Inv` is inductive: `Shape` (where the three pointers are in
  the history `chain`), `Nodes` (live addresses are exactly the nodes of the chain not
  yet deleted, pairwise different), `Contents` (links and values of live nodes),
  `Control` (what each program counter implies for the other thread), `Ordered` and
  `SizeAccounting`. None is inductive alone: that `first` may be deleted needs
  `nfreed < Len(out)`, kept because the consumer moves `divider` last; that the
  consumer reads the right value needs `Nodes`, since an address deleted and returned
  must not be one it still reads. From `Inv`: `MemorySafe`, `LeakFree`
  (together `MemoryManaged`, which states the run's `MemorySafety`), `SizeCorrect`,
  and `Refinement`, that the list implements `Fifo` (publishing is the store to
  `last`, taking the store to `divider`). Of the framing, `FramingInv` = types,
  `ParserFields` (what state, expected and processed say about the bytes) and
  `NothingLeft` (a handler returns only when the loop condition is false).
  `RequestExact` says nothing about the middle of a handler, so it needs the fields'
  meaning to get through one.
- **SignalingProofs.** Four invariants, each on top of those before it. `IInv`: the ints
  in a pipe and the `notify()` calls in progress count the messages of the queue, kind by
  kind; a descriptor is in one table, or queued for one worker, or free, apart from entries
  of connections that are just being closed (`QueuedFds`, `OneFdPerClient`, `ClosedIsOwn`).
  `WakeupPerMessage` alone is inductive for the pipes, but `OneOwnerPerFd` needs to know
  that a queued descriptor is in no table and that what a worker closes is its own.
  `RequestInv`: a client asks once, and its message is on the route its stream name gives.
  `ReplyInv`: while a message is under way nobody has its reply, no reply is queued twice,
  and as long as the client has its connection, that is the one the message names; from it
  `RepliesOnce`, with addresses reused at once. `OrderInv`: on the way to the RtcWorkers
  the queues are in the order of reception, and nothing under way comes before what was
  executed. Counting ints in a sequence rests on lemmas about cardinalities of sets of
  places.
- **StreamProofs.** The first part is the life of the streams. `NothingDangles` says what the maps and timers can reach; that
  deletion erases the one entry that led to a stream needs that an entry has the stream's
  own kind and name, and that a stream not made yet is in no map (`NotYet`). The two action
  properties follow from the same `IInv`: a step deletes only what `Owned()` finds, and a
  PeerConnection only by its own timer.
  The second part is the offers and answers. `NegotiationInv` = types, `OffersKnown` (an
  offer is the text of a description made for the ports that are bound, the transport that
  is there and the answer it was copied from), `AnswersKnown` (the remote description is
  that of the latest answer), `PortsApart`, `OneAnswerWhole` and `NullOnlyIfUntagged`. The
  properties speak of texts only; none of them says what the remote description holds
  between an answer and the pull that copies it, so `AnswersKnown` is needed. The parser
  is a recursive function over the lines. That it exists and has its equations is proved
  once (`Iteration`), from the well-founded order of the naturals and sets of numbers
  closed under the successor (`NaturalsClosed`); what holds after every line then is the
  same argument over a set that is written out. On that rest `AllRead` (after n lines the
  state has exactly the parameters a reader of the RFC finds in n lines), `InfosRead` and
  `GroupsRead` (the same for SSRCs and groups), and the lemmas about
  `CreateTracks` and `AddGroups`: the tracks hold each SSRC once with its own names, and
  each group once. In the other direction `OfferFacts` says what a reader finds in the
  text `to_string()` makes of a description. `OffersDeclareWhatIsPushed` puts the two
  together, for texts of any length, plain and with consistent names as they are read
  (`AsRead`): the last line of a text without line end counts as the parser sees it. It is
  an equality of what is declared, section by section, and without an answer that parses
  nothing is declared; that lines may come back in another order is no difference.
- **DtlsSrtpProofs.** `IInv` = types, `CtxCurrent` (digest and certificate of the
  context against the remembered fingerprint; a posted open belongs to it; a transport that
  has just connected is still writable when its keys are to be installed),
  `SrtpKeysCurrent`, `ConnectedHasKeys`. The keys are taken from the context when the slot
  runs, so the context has to be right before. On top of it `StartNeverLost` and
  `StateIsAggregate`: the aggregate is computed only when the channel or the transport
  announces a change, and it is current because each of them does; with the keys that
  gives `ConnectedMeansMedia`. The theorems on keys except the case that they are missing
  for good (`NoKeys`): no profile was negotiated, or `set_rtp_params()` refused them.
- **IceChannelProofs.** A handler is a composition of functions on the record `State`, so
  the invariant is a predicate `Sound(x)` on such records, and each function has a lemma
  about what it keeps of it: `SortAndUpdate` makes sound whatever has a sound list and
  selection, even when nothing announced is current; each state that `Destroy` may leave has one
  connection less in every set, whatever the freed memory holds; a change the channel does not announce must leave alone what is announced.
  `Sound` does not say that the controller's selected connection is alive, which is not
  true: it needs to be in memory that once held a connection, and the channel's own must be
  listed. A connection that has timed out is deleted in the same run (`TimedOutIsDead`).
  Sorting permutes:
  `_compare_connections()` and the rtt are a strict weak order, so the places ahead of a
  place are ordered by inclusion and their number is a bijection. The loop over all
  connections, which has several outcomes, is an induction over a set of numbers that is closed under the successor
  (`AllNaturals`, from the well-founded order of the naturals).
- **MediaPathProofs.** `SrtpInv` counts: the usage count of libsrtp is the number of
  sessions that count themselves, and what a thread has follows from where it is in
  `set_rtp_params()`; each step changes the cardinality by one. `UdpInv` says when a packet
  is in hand, which the refinement of `LossyQueue` needs to tell sending from queueing.
  `Demultiplexed` holds for every datagram that satisfies `DatagramAssumption`.
- **StunSessionProofs.** The first part is about messages. The length of a message is a
  sum over its attributes, a recursive function that exists and has its equations
  (`SumSteps`, by induction over a set of numbers). A message that the client builds
  (`RefMessage`) or the server (`add_attribute()`, then `add_message_integrity()`, then
  `add_fingerprint()`) is well built: each digest is over exactly the header and the
  attributes in front of it. A well-built message passes `validate_fingerprint()` and
  `read()`; its integrity holds under its own password and no other, although the server
  walks over the raw lengths and sets the header's length back; and nothing that
  `Damaged` makes of it passes `validate_fingerprint()`, a cut one included, because what
  is then last is not FINGERPRINT. The second part is the exchange. `IInv` adds to the
  properties what connects the two directions: everything under way to the server is a
  request of the client, in `made` if it bears this session's credentials, or an answer to
  something the server sent (`FromClient`); a transaction id belongs to one request
  (`OwnTid`), so an error response with a good request's id would have been made for that
  very request; the server's ids are its own or a request's (`ServerTids`); and a ping
  still in the map of requests has not been answered (`Pinged`). Once the server has
  crashed nothing is served or answered. `AnsweredOnce` is not
  inductive without the last, nor `GenuineNeverRefused` without the ids.
- **LifecycleProofs.** `IInv` has three parts with variables of their own: `LogInv` (lines
  queued, lines taken and lines written are in the order they were logged), `ControlInv` (how far `main()` and the servers are,
  against the threads they have started, stopped and joined; `LogOutlivesAll` follows), `MessageInv` (each int finds
  its connection; the RtcServer's ints lag behind its queue by exactly `early`).

The proofs are about safety. Only model-checked are:

- liveness (`EveryRequestReturned`, `NeverConnectedIsRemoved`, `RequestHandled`,
  `HandshakeEnds`, `PacketsLeave`, `Terminates`): the prover has no rule for fairness;
- `JsonRequest`: the value of a tree, the serializer and the grammar they are compared
  with are recursive operators over nested data, which the prover does not accept.

## 5. Not modelled

- libsrtp, the SSL adapter, libev, strtod() and the kernel: external, described by how
  the code uses them.
- Of `base/json.hpp`, everything the server never calls: binary formats, JSON pointers,
  patches, iterators, comparison, pretty printing, user callbacks, comments, and the
  shortest decimal output of floats.
- Reading of configuration files and network interfaces, socket options, the wording of
  log lines: I/O without state.
- Codec and extension lines of an offer, priorities of candidates: constants or
  arithmetic that no decision depends on.
- The life of the certificate, which takes a year; replies longer than their buffer;
  severities of log lines.
- The destructors of the servers and workers, which `main()` never runs.

## 6. Plan

Done: the queue and its refinement, the control plane, framing, streams, the DTLS and
SRTP transport, the ICE channel, media packets and the UDP socket with its refinement,
STUN, SDP and negotiation, start-up and shutdown, JSON; and the proofs of every safety
property of the queue, the control plane, framing, streams, SDP and negotiation, the
transport, the ICE channel, STUN, the media path and start-up. Left, in this order:

1. A composition of `StreamManager` with `DtlsSrtp` and `IceChannel` for one stream:
   the 30 s timer, failure and deletion against the transports' own callbacks.
2. The life of the certificate against the messages and streams that point to it.
