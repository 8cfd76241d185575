------------------------------ MODULE UdpSocket ------------------------------
(***************************************************************************)
(* AsyncUdpSocket on an EventLoop: a non-blocking UDP socket that queues    *)
(* what the kernel does not take and asks for write events only while       *)
(* something is queued.  Every recvfrom() and sendto() is a step, because   *)
(* the kernel fills and drains the socket's buffers meanwhile.              *)
(*                                                                         *)
(* External: libev, level-triggered.  It runs all pending callbacks before  *)
(* it polls again, and stopping or changing a watcher clears what is        *)
(* pending for it.  The kernel holds at most Room datagrams.                *)
(***************************************************************************)
EXTENDS Naturals, Sequences

CONSTANTS Packet,    \* what is sent
          Datagram,  \* what is received: records with a field len
          None,
          Room,      \* datagrams the send buffer holds
          RcvRoom    \* datagrams the receive buffer holds

ASSUME UdpAssumption == /\ None \notin Packet
                        /\ Room \in Nat \ {0} /\ RcvRoom \in Nat \ {0}

VARIABLES
  list,     \* _udp_packet_list
  events,   \* the events _socket_watcher is started for
  pend,     \* events libev will report for it
  rev,      \* events of the callback that is running
  at,       \* "loop", or where the callback is: "recv", "list", "direct"
  hand,     \* the packet of the running send_to(), None in send_data()
  back,     \* where send_to() returns to: "loop" or "recv"
  free,     \* room left in the kernel's send buffer
  inq,      \* the kernel's receive buffer
  wire,     \* history: datagrams the kernel took
  gone      \* history: number of packets that left, by sending or by an error

udpVars == <<list, events, pend, rev, at, hand, back, free, inq, wire, gone>>

\* AsyncUdpSocket(): READ is on for as long as the socket lives.
UdpInit ==
  /\ list = << >> /\ events = {"READ"} /\ pend = {} /\ rev = {}
  /\ at = "loop" /\ hand = None /\ back = "loop"
  /\ free = Room /\ inq = << >> /\ wire = << >> /\ gone = 0

-----------------------------------------------------------------------------
(* EventLoop *)

\* start_io_event() for one more event: the watcher is restarted if that is new.
StartIo(e) ==
  /\ events' = events \cup {e}
  /\ pend' = IF e \in events THEN pend ELSE {}

\* stop_io_event(): the other events stay on.
StopIo(e) ==
  /\ events' = events \ {e}
  /\ pend' = IF e \in events THEN {} ELSE pend

\* ev_run() polls: what is ready of what the watcher asks for becomes pending.
Ready == {e \in events : IF e = "READ" THEN inq # << >> ELSE free > 0}

Poll ==
  /\ at = "loop" /\ pend = {} /\ Ready # {}
  /\ pend' = Ready
  /\ UNCHANGED <<list, events, rev, at, hand, back, free, inq, wire, gone>>

\* async_udp_socket_io_cb(): recv_data() first, then send_data().
Callback ==
  /\ at = "loop" /\ pend # {}
  /\ rev' = pend /\ pend' = {}
  /\ at' = IF "READ" \in pend THEN "recv" ELSE "list"
  /\ UNCHANGED <<list, events, hand, back, free, inq, wire, gone>>

-----------------------------------------------------------------------------
(* recv_data() *)

\* recv_data() returns; send_data() follows when WRITE was reported too.
RecvDone ==
  IF "WRITE" \in rev THEN at' = "list" /\ UNCHANGED rev
                     ELSE at' = "loop" /\ rev' = {}

\* recvfrom() says EAGAIN, or finds an empty datagram, which sock_recv_from()
\* reports as an error: the loop ends.
RecvEnd ==
  /\ at = "recv"
  /\ inq # << >> => Head(inq).len = 0
  /\ inq' = IF inq = << >> THEN inq ELSE Tail(inq)
  /\ RecvDone
  /\ UNCHANGED <<list, events, pend, hand, back, free, wire, gone>>

\* One datagram goes to signal_read_packet, whose slots send nothing.
RecvOnly ==
  /\ at = "recv" /\ inq # << >> /\ Head(inq).len > 0
  /\ inq' = Tail(inq)
  /\ UNCHANGED <<list, events, pend, rev, at, hand, back, free, wire, gone>>

\* One datagram goes to signal_read_packet, and a slot answers with send_to(p).
RecvAndSend(p) ==
  /\ at = "recv" /\ inq # << >> /\ Head(inq).len > 0
  /\ inq' = Tail(inq)
  /\ hand' = p /\ back' = "recv" /\ at' = "list"
  /\ UNCHANGED <<list, events, pend, rev, free, wire, gone>>

-----------------------------------------------------------------------------
(* send_to() and send_data() *)

\* send_to(p) from another callback of the same loop.
SendTo(p) ==
  /\ at = "loop"
  /\ hand' = p /\ back' = "loop" /\ at' = "list"
  /\ UNCHANGED <<list, events, pend, rev, free, inq, wire, gone>>

\* SEND_AGAIN: queue a copy of the packet behind l and ask for the write event.
Enqueue(l) ==
  /\ list' = Append(l, hand) /\ hand' = None /\ at' = back
  /\ StartIo("WRITE")
  /\ UNCHANGED rev

\* The end of send_data(), with l left: WRITE goes off when nothing is left.
Flushed(l) ==
  /\ list' = l /\ at' = "loop" /\ rev' = {}
  /\ IF l = << >> THEN StopIo("WRITE") ELSE UNCHANGED <<events, pend>>
  /\ UNCHANGED hand

\* _send_data_from_list() returns false, with l left.
ListFalse(l) == IF hand = None THEN Flushed(l) ELSE Enqueue(l)

\* Mutant: sendto()'s 0 counts as sent.
ListAgainPops ==
  /\ at = "list" /\ list # << >> /\ free = 0
  /\ ListFalse(Tail(list))
  /\ UNCHANGED <<back, free, inq, wire, gone>>

\* Mutant: send_to() tries its own packet although older ones are left.
ListAgainTriesOwn ==
  /\ at = "list" /\ list # << >> /\ free = 0
  /\ IF hand = None THEN Flushed(list)
     ELSE at' = "direct" /\ UNCHANGED <<list, events, pend, rev, hand>>
  /\ UNCHANGED <<back, free, inq, wire, gone>>

\* sendto() of the oldest packet says EAGAIN: it stays where it is.
ListAgain ==
  /\ at = "list" /\ list # << >> /\ free = 0
  /\ ListFalse(list)
  /\ UNCHANGED <<back, free, inq, wire, gone>>

\* sendto() fails for good: the packet is dropped and the loop left, although
\* the rest of the list, if any, was not tried.
ListError ==
  /\ at = "list" /\ list # << >>
  /\ ListFalse(Tail(list))
  /\ gone' = gone + 1
  /\ UNCHANGED <<back, free, inq, wire>>

\* The oldest packet is sent and the loop goes on.
ListSent ==
  /\ at = "list" /\ list # << >> /\ free > 0
  /\ wire' = Append(wire, Head(list)) /\ gone' = gone + 1
  /\ list' = Tail(list)
  /\ free' = free - 1
  /\ UNCHANGED <<events, pend, rev, at, hand, back, inq>>

\* The list is empty: send_data() is done, send_to() tries its own packet.
ListEmpty ==
  /\ at = "list" /\ list = << >>
  /\ IF hand = None THEN Flushed(<< >>)
     ELSE at' = "direct" /\ UNCHANGED <<list, events, pend, rev, hand>>
  /\ UNCHANGED <<back, free, inq, wire, gone>>

\* sendto() takes the packet, or fails and the packet is dropped with -1.
Direct ==
  /\ at = "direct"
  /\ \/ /\ free > 0
        /\ wire' = Append(wire, hand)
        /\ free' = free - 1
     \/ UNCHANGED <<wire, free>>
  /\ gone' = gone + 1
  /\ hand' = None /\ at' = back
  /\ UNCHANGED <<list, events, pend, rev, back, inq>>

\* sendto() says EAGAIN.
DirectAgain ==
  /\ at = "direct" /\ free = 0
  /\ Enqueue(list)
  /\ UNCHANGED <<back, free, inq, wire, gone>>

-----------------------------------------------------------------------------
(* The kernel *)

Transmit ==
  /\ free < Room
  /\ free' = free + 1
  /\ UNCHANGED <<list, events, pend, rev, at, hand, back, inq, wire, gone>>

Arrive(d) ==
  /\ Len(inq) < RcvRoom
  /\ inq' = Append(inq, d)
  /\ UNCHANGED <<list, events, pend, rev, at, hand, back, free, wire, gone>>

-----------------------------------------------------------------------------
\* What the loop does on its own, once a callback or a poll is due.
UdpStep == \/ Poll \/ Callback \/ RecvEnd
           \/ ListAgain \/ ListError \/ ListSent \/ ListEmpty
           \/ Direct \/ DirectAgain

UdpTypeOK ==
  /\ list \in Seq(Packet) /\ wire \in Seq(Packet)
  /\ events \subseteq {"READ", "WRITE"} /\ pend \subseteq events
  /\ rev \subseteq {"READ", "WRITE"}
  /\ at \in {"loop", "recv", "list", "direct"} /\ back \in {"loop", "recv"}
  /\ hand \in Packet \cup {None}
  /\ free \in 0..Room /\ inq \in Seq(Datagram) /\ Len(inq) =< RcvRoom
  /\ gone \in Nat

\* The packets handed over and not yet gone: the list, and the one being sent.
Queued == IF hand = None THEN list ELSE Append(list, hand)

\* The socket implements LossyQueue: a packet never overtakes an older one, on the
\* direct path or on the queued one, none is sent twice, and only a failed sendto()
\* loses one.
Abstract == INSTANCE LossyQueue WITH queue <- Queued, sent <- wire
ImplementsLossyQueue == Abstract!QSpec

\* A packet is in hand only inside send_to(), and the direct path is taken only when
\* nothing is queued.
HandHeld ==
  /\ at \in {"loop", "recv"} => hand = None
  /\ at = "direct" => list = << >> /\ hand # None

\* The inductive invariant of the socket.
UdpInv == UdpTypeOK /\ HandHeld
=============================================================================
