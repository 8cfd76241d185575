------------------------------ MODULE IceChannel ------------------------------
(***************************************************************************)
(* One IceTransportChannel with its IceController and the IceConnections of *)
(* its UDPPort, in the event loop of one RtcWorker: which connections are   *)
(* alive, which one carries the media, and what is announced to the layers  *)
(* above.                                                                   *)
(*                                                                         *)
(* A handler is one step.  Inside it the connections signal the channel,    *)
(* which sorts, switches and announces each time; that chain is a           *)
(* composition of functions on the record State, in the order of the calls. *)
(*                                                                         *)
(* Connections are known by their address in memory, because the code       *)
(* compares pointers.  The controller keeps a pointer to its selected       *)
(* connection when that is deleted, and reads through it: freed memory has  *)
(* any contents, or those of the connection created there next.  A call     *)
(* through such a pointer, or through the port's, has no defined outcome;   *)
(* the process is not followed further and counts as crashed.               *)
(*                                                                         *)
(* Time is abstracted to the thresholds the code compares with.  rtt is in  *)
(* units of k_min_inprovement.  The client and the network are free: pings  *)
(* and answers may be lost, late or doubled.                                *)
(***************************************************************************)
EXTENDS Naturals, Sequences, FiniteSets, SequencesExt

CONSTANTS Addr,       \* addresses the client sends from
          Priority,   \* [Addr -> PRIORITY in its binding requests]
          Ufrag,      \* ICE ufrags of the client; each goes with one password
          Cell,       \* memory an IceConnection may be created in
          Rtt,        \* smoothed round trip times
          InitRtt,    \* 3000 ms, before the first answer
          None

Write == {"writable", "unreliable", "init", "timeout"}

\* How long the pings of a connection are unanswered: none is, not long, five of them
\* and the oldest for more than 5 s, more than 15 s.
Wait  == 0..3

\* The members of an IceConnection that matter here: its remote candidate's address,
\* ufrag and password, whether it is still allocated, its write and receiving state,
\* whether a packet came within 2.5 s, its unanswered pings and its rtt.
Connection ==
  [addr : Addr, user : Ufrag, pwd : Ufrag \cup {None}, live : BOOLEAN, write : Write,
   recv : BOOLEAN, recent : BOOLEAN, wait : Wait, rtt : Rtt \cup {InitRtt}]

ASSUME IceAssumption ==
  /\ Priority \in [Addr -> Nat]
  /\ Rtt \subseteq Nat /\ InitRtt \in Nat
  /\ None \notin Ufrag \cup Cell \cup Connection

VARIABLES
  mem,       \* [Cell -> the connection created there last, or None]
  port,      \* [Addr -> Cell or None]: UDPPort::_connections
  list,      \* IceController::_connections
  pinged, unpinged,       \* _pinged_connections, _unpinged_connections
  ctrlSel,   \* IceController::_selected_connection
  sel,       \* IceTransportChannel::_selected_connection
  writable, receiving, state,   \* _writable, _receiving, _state
  had, been, \* _had_connection, _has_been_connection
  pinging,   \* _start_pinging: the ping timer runs
  remote,    \* _remote_ice_params: None or a ufrag
  up         \* the process has not crashed

vars == <<mem, port, list, pinged, unpinged, ctrlSel, sel, writable, receiving, state,
          had, been, pinging, remote, up>>

Init ==
  /\ mem = [c \in Cell |-> None] /\ port = [a \in Addr |-> None]
  /\ list = << >> /\ pinged = {} /\ unpinged = {} /\ ctrlSel = None
  /\ sel = None /\ writable = FALSE /\ receiving = FALSE /\ state = "new"
  /\ had = FALSE /\ been = FALSE /\ pinging = FALSE
  /\ remote = None /\ up = TRUE

\* Nothing is kept over a crash.
Restart ==
  /\ mem' = [c \in Cell |-> None] /\ port' = [a \in Addr |-> None]
  /\ list' = << >> /\ pinged' = {} /\ unpinged' = {} /\ ctrlSel' = None
  /\ sel' = None /\ writable' = FALSE /\ receiving' = FALSE /\ state' = "new"
  /\ had' = FALSE /\ been' = FALSE /\ pinging' = FALSE /\ remote' = None

\* The state a handler works on, and the state it leaves.
State == [mem |-> mem, list |-> list, pinged |-> pinged, unpinged |-> unpinged,
          ctrlSel |-> ctrlSel, sel |-> sel, writable |-> writable,
          receiving |-> receiving, state |-> state, had |-> had, been |-> been,
          pinging |-> pinging]
Become(x) ==
  /\ mem' = x.mem /\ list' = x.list /\ pinged' = x.pinged /\ unpinged' = x.unpinged
  /\ ctrlSel' = x.ctrlSel /\ sel' = x.sel /\ writable' = x.writable
  /\ receiving' = x.receiving /\ state' = x.state /\ had' = x.had /\ been' = x.been
  /\ pinging' = x.pinging

\* IceConnection(): the password is the remote one, if the answer is here.
NewConnection(a, u) ==
  [addr |-> a, user |-> u, pwd |-> remote, live |-> TRUE, write |-> "init",
   recv |-> FALSE, recent |-> FALSE, wait |-> 0, rtt |-> InitRtt]

Listed  == {list[i] : i \in DOMAIN list}
Live(c) == mem[c] # None /\ mem[c].live

-----------------------------------------------------------------------------
(* IceController *)

Rank == [writable |-> 0, unreliable |-> 1, init |-> 2, timeout |-> 3]

\* _compare_connections(), then rtt
Better(x, y) ==
  \/ Rank[x.write] < Rank[y.write]
  \/ /\ x.write = y.write
     /\ \/ x.recv /\ ~ y.recv
        \/ /\ x.recv = y.recv
           /\ \/ Priority[x.addr] > Priority[y.addr]
              \/ Priority[x.addr] = Priority[y.addr] /\ x.rtt < y.rtt

\* The places of l that a stable sort puts before place i: those of better elements,
\* and of the equal ones before it.
Ahead(m, l, i) == {j \in DOMAIN l : \/ Better(m[l[j]], m[l[i]])
                                    \/ j < i /\ ~ Better(m[l[i]], m[l[j]])}

\* c_stable_sort
Sorted(m, l) ==
  [k \in DOMAIN l |-> l[CHOOSE i \in DOMAIN l : Cardinality(Ahead(m, l, i)) = k - 1]]

\* ready_to_send()
ReadyToSend(x, c) == c # None /\ x.mem[c].write \in {"writable", "unreliable"}

\* sort_and_switch_connection(): the connection to switch to, of the sorted list.
SwitchTo(x) ==
  LET top == IF x.list = << >> THEN None ELSE Head(x.list) IN
  IF /\ ReadyToSend(x, top) /\ x.ctrlSel # top
     /\ x.ctrlSel # None => x.mem[top].rtt + 1 =< x.mem[x.ctrlSel].rtt
  THEN top ELSE None

\* Mutant: the connection stays among the unpinged ones.
ForgetButUnpinged(x, c) ==
  [x EXCEPT !.pinged = @ \ {c}, !.list = RemoveFirst(@, c)]

\* on_connection_destroyed(); _selected_connection is left as it is, and dangles if it
\* is c.
Forget(x, c) ==
  [x EXCEPT !.pinged = @ \ {c}, !.unpinged = @ \ {c},
            !.list = RemoveFirst(@, c)]

\* _weak()
Weak(x) == x.ctrlSel = None \/ ~ (x.mem[x.ctrlSel].write = "writable" /\ x.mem[x.ctrlSel].recv)

\* add_connection()
AddConnection(x, c) == [x EXCEPT !.list = Append(@, c), !.unpinged = @ \cup {c}]

\* mark_connection_pinged()
MarkPinged(x, c) == [x EXCEPT !.pinged = @ \cup {c}, !.unpinged = @ \ {c}]

\* _is_connection_past_ping_interval(): due are the connections whose interval of 48,
\* 900 or 2500 ms is over.
PastInterval(c, due) == c \in due

\* Which interval a connection has depends on its pings and on stable(), of times that
\* are not kept here: any set of connections may be due.
Intervals == SUBSET Cell

\* _is_pingable()
Pingable(x, c, due) == x.mem[c].pwd # None /\ (Weak(x) \/ PastInterval(c, due))

\* has_pingable_connection(), before anything was pinged: all intervals are over.
HasPingable(x) == \E i \in DOMAIN x.list : Pingable(x, x.list[i], Cell)

\* _find_next_pingable_connection(): what is chosen, with the sets as it leaves them.
\* Of several it takes the one that waits longest; here any.
NextPing(x, due) ==
  IF x.ctrlSel # None /\ x.mem[x.ctrlSel].write = "writable" /\ PastInterval(x.ctrlSel, due)
  THEN {[to |-> x.ctrlSel, pinged |-> x.pinged, unpinged |-> x.unpinged]}
  ELSE LET again == \A c \in x.unpinged : ~ Pingable(x, c, due)
           un    == IF again THEN x.unpinged \cup x.pinged ELSE x.unpinged
           may   == {c \in un : Pingable(x, c, due)}
       IN {[to |-> c, pinged |-> IF again THEN {} ELSE x.pinged, unpinged |-> un] :
             c \in IF may = {} THEN {None} ELSE may}

-----------------------------------------------------------------------------
(* IceTransportChannel: the functions its handlers and slots are made of *)

\* _compute_ice_transport_state()
TransportState(x) ==
  LET has == \E i \in DOMAIN x.list : x.mem[x.list[i]].write # "timeout" IN
  IF x.had /\ ~ has THEN "failed"
  ELSE IF x.been /\ ~ x.writable THEN "disconnected"
  ELSE IF ~ x.had THEN "new"
  ELSE IF ~ x.writable THEN "checking"
  ELSE "connected"

\* What _writable and _receiving stand for.
IsWritable(x)  == x.sel # None /\ x.mem[x.sel].write = "writable"
IsReceiving(x) == \E i \in DOMAIN x.list : x.mem[x.list[i]].recv

\* _update_state(), _set_writable(), _set_receiving()
UpdateState(x) ==
  LET y == [x EXCEPT !.writable = IsWritable(x), !.been = @ \/ IsWritable(x),
                     !.receiving = IsReceiving(x)]
  IN [y EXCEPT !.state = TransportState(y)]

\* _switch_selected_connection(): the controller is told of a connection, not of none.
Switch(x, c) == [x EXCEPT !.sel = c, !.ctrlSel = IF c = None THEN @ ELSE c]

\* _maybe_start_pinging()
MaybeStartPinging(x) == [x EXCEPT !.pinging = @ \/ HasPingable(x)]

\* _sort_connections_and_update_state()
SortAndUpdate(x) ==
  LET y == [x EXCEPT !.list = Sorted(x.mem, @)]
      z == IF SwitchTo(y) = None THEN y ELSE Switch(y, SwitchTo(y))
  IN MaybeStartPinging(UpdateState(z))

\* _on_connection_state_change(), the slot of every connection's signal.
StateChanged(x) == SortAndUpdate(x)

\* What freed memory may hold where the write state, receiving and rtt were; of the write
\* state it is only read whether it is writable.
Freed == [write : {"writable", "timeout"}, recv : BOOLEAN, rtt : Rtt \cup {InitRtt}]

\* A connection that destroy() has signalled: still there, and no longer used.
Deleted(k) == [k EXCEPT !.live = FALSE, !.recv = FALSE, !.recent = FALSE, !.wait = 0]

\* delete this: its memory goes back, and holds anything when the controller reads it next,
\* which it does if the connection was the selected one.
Free(x, c) ==
  IF x.ctrlSel # c THEN {x}
  ELSE {[x EXCEPT !.mem[c] = [@ EXCEPT !.write = g.write, !.recv = g.recv, !.rtt = g.rtt]] :
          g \in Freed}

\* Mutant: the state is not computed again.
DestroyUnannounced(x, c) ==
  LET y == Forget([x EXCEPT !.mem[c] = Deleted(@)], c) IN
  Free(IF y.sel = c THEN SortAndUpdate(Switch(y, None)) ELSE y, c)

\* destroy() and _on_connection_destroyed(): the states it may leave.
Destroy(x, c) ==
  LET y == Forget([x EXCEPT !.mem[c] = Deleted(@)], c) IN
  Free(IF y.sel = c THEN SortAndUpdate(Switch(y, None)) ELSE UpdateState(y), c)

-----------------------------------------------------------------------------
(* IceConnection *)

\* set_write_state(): a change is signalled to the channel.
SetWrite(x, c, w) ==
  IF x.mem[c].write = w THEN x ELSE StateChanged([x EXCEPT !.mem[c].write = w])

\* update_receiving(): all pings are answered, or something came within 2.5 s.
UpdateReceiving(x, c) ==
  LET k    == x.mem[c]
      recv == (k.write = "writable" /\ k.wait = 0) \/ k.recent
      y    == [x EXCEPT !.mem[c].recv = recv]
  IN IF k.recv = recv THEN x ELSE StateChanged(y)

\* The first half of update_state(): a writable connection becomes unreliable.
Degrade(x, c) ==
  IF x.mem[c].write = "writable" /\ x.mem[c].wait >= 2
  THEN SetWrite(x, c, "unreliable") ELSE x

\* Mutant: only a connection that was writable once times out.
UpdateConnectionOnce(x, c) ==
  LET y == Degrade(x, c) IN
  IF y.mem[c].write = "unreliable" /\ y.mem[c].wait = 3
  THEN Destroy(SetWrite(y, c, "timeout"), c) ELSE {UpdateReceiving(y, c)}

\* update_state(): the states it may leave.  Of a deleted connection update_receiving() is
\* called, too: its signals have no slots any more and nobody reads what it sets.
UpdateConnection(x, c) ==
  LET y == Degrade(x, c) IN
  IF y.mem[c].write \in {"unreliable", "init"} /\ y.mem[c].wait = 3
  THEN Destroy(SetWrite(y, c, "timeout"), c) ELSE {UpdateReceiving(y, c)}

\* ping() and StunRequestManager::send()
Ping(x, c) == [x EXCEPT !.mem[c].wait = IF @ = 0 THEN 1 ELSE @]

\* on_connection_request_response(): the pings so far are answered.
Responded(x, c, rtt) ==
  [x EXCEPT !.mem[c].rtt = rtt, !.mem[c].wait = 0, !.mem[c].recent = TRUE]

-----------------------------------------------------------------------------
(* Events *)

\* A valid binding request from an address the port does not know:
\* UDPPort::_on_read_packet(), create_connection() and _on_unknown_address().
UnknownAddress(a, u, c) ==
  /\ up /\ port[a] = None /\ ~ Live(c)
  /\ port' = [port EXCEPT ![a] = c]
  /\ LET x == [State EXCEPT !.mem[c] = NewConnection(a, u), !.had = TRUE]
     IN Become(SortAndUpdate(AddConnection(x, c)))
  /\ UNCHANGED <<remote, up>>

\* A packet or a binding request from a known address: on_read_packet() notes when.
\* The port's entry may lead to a connection that was created where its own was deleted.
Packet(a) ==
  /\ up /\ port[a] # None /\ Live(port[a])
  /\ mem' = [mem EXCEPT ![port[a]].recent = TRUE]
  /\ UNCHANGED <<port, list, pinged, unpinged, ctrlSel, sel, writable, receiving, state,
                 had, been, pinging, remote, up>>

\* The process does what is not defined, and is not followed.
Crash == up' = FALSE /\ Restart

\* The port's entry is never erased: the packet goes to a deleted connection.
StrayPacket(a) == up /\ port[a] # None /\ ~ Live(port[a]) /\ Crash

\* A response to a ping of c that check_response() still waits for: the last one, or an
\* earlier one whose answer comes late.  It is signed with the client's password.
Answerable(c) ==
  /\ Live(c) /\ mem[c].pwd = mem[c].user
  /\ mem[c].wait > 0 \/ mem[c].write # "init"

\* check_response(), on_connection_request_response(), received_ping_response()
PingResponse(c, rtt) ==
  /\ up /\ Answerable(c)
  /\ Become(SetWrite(UpdateReceiving(Responded(State, c, rtt), c), c, "writable"))
  /\ UNCHANGED <<port, remote, up>>

\* on_connection_request_error_response(): the codes 400, 401 and 500 would be ignored,
\* but no message read from the wire has an ERROR-CODE (StunMessage::_create_attribute()
\* makes none), so the code is always 600 and fail_and_destroy() deletes the connection
\* and with it the request that check_response() deletes once more.
ErrorResponse(c) ==
  /\ up /\ Answerable(c)
  /\ Crash

\* The connections with the answer's password: maybe_set_remote_ice_params()
Fill(m, u) ==
  [c \in Cell |-> IF /\ \E i \in DOMAIN list : list[i] = c
                     /\ m[c].user = u /\ m[c].pwd = None
                  THEN [m[c] EXCEPT !.pwd = u] ELSE m[c]]

\* Mutant: the passwords are filled in and nothing is looked at again.
SetRemoteOnly(u) ==
  /\ up
  /\ remote' = u
  /\ Become([State EXCEPT !.mem = Fill(@, u)])
  /\ UNCHANGED <<port, up>>

\* set_remote_ice_params()
SetRemoteIceParams(u) ==
  /\ up
  /\ remote' = u
  /\ Become(SortAndUpdate([State EXCEPT !.mem = Fill(@, u)]))
  /\ UNCHANGED <<port, up>>

\* _update_connection_states(), over a copy of the list: the states it may leave.
UpdatedUpTo[n \in 0..Len(list)] ==
  IF n = 0 THEN {State} ELSE UNION {UpdateConnection(x, list[n]) : x \in UpdatedUpTo[n - 1]}
Checked == UpdatedUpTo[Len(list)]

\* The ping timer, _on_check_and_ping(), when the channel's own interval is not over:
\* select_connection_to_ping() selects none.
Check == /\ up /\ pinging
         /\ \E x \in Checked : Become(x)
         /\ UNCHANGED <<port, remote, up>>

\* What _on_check_and_ping() does with its choice p.
PingChosen(x, p) ==
  LET y == [x EXCEPT !.pinged = p.pinged, !.unpinged = p.unpinged] IN
  \/ p.to = None /\ Become(y) /\ UNCHANGED <<port, remote, up>>
  \/ /\ p.to # None /\ x.mem[p.to].live
     /\ Become(MarkPinged(Ping(y, p.to), p.to))
     /\ UNCHANGED <<port, remote, up>>
  \/ p.to # None /\ ~ x.mem[p.to].live /\ Crash

\* The ping timer, when it is; due are the connections whose intervals are over, too.
CheckAndPing ==
  /\ up /\ pinging
  /\ \E x \in Checked : \E due \in Intervals : \E p \in NextPing(x, due) : PingChosen(x, p)

-----------------------------------------------------------------------------
(* Time *)

Pass(c, k) == /\ mem' = [mem EXCEPT ![c] = k]
              /\ UNCHANGED <<port, list, pinged, unpinged, ctrlSel, sel, writable,
                             receiving, state, had, been, pinging, remote, up>>

\* Nothing came from c for 2.5 s.
Silence(c) == up /\ Live(c) /\ mem[c].recent /\ Pass(c, [mem[c] EXCEPT !.recent = FALSE])

\* The pings of c stay unanswered.
Age(c) == up /\ Live(c) /\ mem[c].wait \in 1..2 /\ Pass(c, [mem[c] EXCEPT !.wait = @ + 1])

\* Something is allocated where the controller's selected connection was.
Overwritten ==
  /\ up /\ ctrlSel # None /\ ~ Live(ctrlSel)
  /\ \E x \in Free(State, ctrlSel) : Become(x)
  /\ UNCHANGED <<port, remote, up>>

-----------------------------------------------------------------------------
Timer == Check \/ CheckAndPing

Next ==
  \/ \E a \in Addr, u \in Ufrag, c \in Cell : UnknownAddress(a, u, c)
  \/ \E a \in Addr : Packet(a) \/ StrayPacket(a)
  \/ \E c \in Cell, rtt \in Rtt : PingResponse(c, rtt)
  \/ \E c \in Cell : ErrorResponse(c)
  \/ \E u \in Ufrag : SetRemoteIceParams(u)
  \/ Timer
  \/ \E c \in Cell : Silence(c) \/ Age(c)
  \/ Overwritten

Spec == Init /\ [][Next]_vars

-----------------------------------------------------------------------------
(* Properties *)

\* Every variable has its type.
TypeOK ==
  /\ mem \in [Cell -> Connection \cup {None}]
  /\ port \in [Addr -> Cell \cup {None}]
  /\ list \in Seq(Cell) /\ pinged \subseteq Cell /\ unpinged \subseteq Cell
  /\ ctrlSel \in Cell \cup {None} /\ sel \in Cell \cup {None}
  /\ writable \in BOOLEAN /\ receiving \in BOOLEAN
  /\ state \in {"new", "checking", "connected", "disconnected", "failed"}
  /\ had \in BOOLEAN /\ been \in BOOLEAN /\ pinging \in BOOLEAN
  /\ remote \in Ufrag \cup {None} /\ up \in BOOLEAN

\* The controller's list holds the live connections, once each, and the two sets of
\* the round robin divide it.
PingSetsPartition ==
  /\ Listed = {c \in Cell : Live(c)} /\ Len(list) = Cardinality(Listed)
  /\ pinged \cup unpinged = Listed /\ pinged \cap unpinged = {}

\* The channel sends over a live connection if over any, and the controller agrees on it.
SelectedIsLive == sel # None => sel \in Listed /\ ctrlSel = sel

\* Channel, controller and memory agree on which connections there are and on the one
\* the channel sends over, whatever was created and destroyed in between.  It says
\* nothing of the controller's selected connection once the channel has none: that one
\* may be deleted, see PingReadsListed.
ListsAgree == PingSetsPartition /\ SelectedIsLive

\* The controller's ping selection and sorting go through no dangling pointer, as the
\* comment on on_connection_destroyed() has it: the connection the next timer run asks
\* first is one of the list.
PingReadsListed == up /\ pinging /\ ctrlSel # None => ctrlSel \in Listed

\* What was last announced upwards is what the connections say now: no handler changes
\* a connection without the channel's hearing of it.
AnnouncedIsCurrent ==
  /\ writable = IsWritable(State)
  /\ receiving = IsReceiving(State)
  /\ state = TransportState(State)

\* The checks start whichever comes last, the first binding request or the answer.
PingingStarts == (\E c \in Listed : mem[c].pwd # None) => pinging

\* A connection whose pings were not answered for 15 s does not outlive the next run of
\* the timer, whatever else that run removes.
LostIsRemoved ==
  [][(\E c \in Cell : Live(c) /\ mem[c].wait = 3 /\ Live(c)') => ~ Check]_vars

-----------------------------------------------------------------------------
(* The inductive invariant, of the state a handler leaves *)

Elements(l) == {l[i] : i \in DOMAIN l}

StateType ==
  [mem : [Cell -> Connection \cup {None}], list : Seq(Cell), pinged : SUBSET Cell,
   unpinged : SUBSET Cell, ctrlSel : Cell \cup {None}, sel : Cell \cup {None},
   writable : BOOLEAN, receiving : BOOLEAN,
   state : {"new", "checking", "connected", "disconnected", "failed"},
   had : BOOLEAN, been : BOOLEAN, pinging : BOOLEAN]

\* The list holds each live connection once, and the two sets divide it.
ListSound(x) ==
  /\ \A i, j \in DOMAIN x.list : x.list[i] = x.list[j] => i = j
  /\ Elements(x.list) = {c \in Cell : x.mem[c] # None /\ x.mem[c].live}
  /\ x.pinged \cup x.unpinged = Elements(x.list) /\ x.pinged \cap x.unpinged = {}

\* The controller's selected connection may be deleted, the channel's is not.
SelectionSound(x) ==
  /\ x.ctrlSel # None => x.mem[x.ctrlSel] # None
  /\ x.sel # None => x.sel \in Elements(x.list) /\ x.ctrlSel = x.sel

\* A connection that has timed out is deleted in the same run of the timer.
TimedOutIsDead(x) ==
  \A c \in Cell : x.mem[c] # None /\ x.mem[c].live => x.mem[c].write # "timeout"

Announced(x) ==
  x.writable = IsWritable(x) /\ x.receiving = IsReceiving(x) /\ x.state = TransportState(x)

Pings(x) == (\E c \in Elements(x.list) : x.mem[c].pwd # None) => x.pinging

Sound(x) == x \in StateType /\ ListSound(x) /\ SelectionSound(x)
              /\ Announced(x) /\ Pings(x)

IInv == /\ Sound(State) /\ TimedOutIsDead(State)
        /\ port \in [Addr -> Cell \cup {None}] /\ remote \in Ufrag \cup {None}
        /\ up \in BOOLEAN
=============================================================================
