---------------------------- MODULE StreamManager ----------------------------
(***************************************************************************)
(* RtcStreamManager with the RtcStream objects it creates and the life of   *)
(* their PeerConnections, in the event loop of one RtcWorker.  The loop is  *)
(* one thread: each request, timer callback or packet is one step.          *)
(*                                                                         *)
(* Streams are numbered in the order of their creation.  A PeerConnection   *)
(* is known here by the state its TransportController aggregates; which     *)
(* state comes next is up to ICE and DTLS, except that DTLS connects only   *)
(* with the fingerprint of an answer.  The SSRCs a stream sends stand for    *)
(* the stream itself: each publisher has its own.                           *)
(***************************************************************************)
EXTENDS Naturals, FiniteSets

CONSTANTS Uid,         \* users
          Name,        \* stream names routed to this worker
          MaxStreams   \* bound: streams ever created

ASSUME StreamAssumption ==
  /\ MaxStreams \in Nat
  /\ Uid # {} /\ Name # {}

Stream == 1..MaxStreams
Kind   == {"push", "pull"}
PcState == {"connected", "failed", "other"}   \* k_new, k_connecting, k_disconnected: other
NoStream == 0

VARIABLES
  reg,      \* [Kind -> [Name -> Stream or NoStream]]: _push_streams, _pull_streams
  made,     \* number of streams created
  kind, name, uid,   \* [Stream -> ...], set by the constructor
  alive,    \* [Stream -> the RtcStream object exists]
  state,    \* [Stream -> _state]
  timer,    \* [Stream -> the 30 s _ice_timeout_watcher: "off", "armed", "fired"]
  pc,       \* [Stream -> its PeerConnection: "none", "live", "dying", "gone"]
  keyed,    \* [Stream -> an answer's fingerprint has reached its DtlsTransport]
  source,   \* [Stream -> for a pull stream, the stream whose SSRCs its offer declares]
  by        \* the user behind the last step

vars == <<reg, made, kind, name, uid, alive, state, timer, pc, keyed,
          source, by>>

AnyName == CHOOSE n \in Name : TRUE
AnyUid  == CHOOSE u \in Uid : TRUE

Init ==
  /\ reg = [k \in Kind |-> [n \in Name |-> NoStream]]
  /\ made = 0
  /\ kind = [s \in Stream |-> "push"]
  /\ name = [s \in Stream |-> AnyName]
  /\ uid = [s \in Stream |-> AnyUid]
  /\ alive = [s \in Stream |-> FALSE]
  /\ state = [s \in Stream |-> "other"]
  /\ timer = [s \in Stream |-> "off"]
  /\ pc = [s \in Stream |-> "none"]
  /\ keyed = [s \in Stream |-> FALSE]
  /\ source = [s \in Stream |-> NoStream]
  /\ by \in Uid

-----------------------------------------------------------------------------
(* Creating and deleting streams *)

\* Mutant: any user's request finds the stream.
OwnedByAnyone(k, u, n) == {s \in Stream : s = reg[k][n]}

\* The stream a request of u about n may touch: found by name, then checked by uid.
Owned(k, u, n) == {s \in Stream : s = reg[k][n] /\ uid[s] = u}

\* Mutant: the stream is deleted and its entry stays in the map.
KeepEntry(k, n, dead) == reg

\* _push_streams.erase(n) or _pull_streams.erase(n)
Erase(k, n, dead) == IF dead = {} THEN reg ELSE [reg EXCEPT ![k][n] = NoStream]

\* create_timer() and start_timer(), once, for stream s; t are the 30 s timers.
StartTimer(t, s) == [t EXCEPT ![s] = "armed"]

\* delete_timer() of the streams in dead, which are deleted, and of those in done, which
\* are connected or failed.
TimerOff(dead, done) == [s \in Stream |-> IF s \in dead \cup done THEN "off" ELSE timer[s]]

\* Mutant: ~RtcStream() deletes the PeerConnection at once.
DeletePcNow(dead) == [s \in Stream |-> IF s \in dead THEN "gone" ELSE pc[s]]

\* PeerConnection::destroy(): it is deleted by a timer 10 ms later.
DestroyPc(dead) == [s \in Stream |-> IF s \in dead THEN "dying" ELSE pc[s]]

\* The members of a deleted stream are not kept.
Forget(f, v, dead) == [s \in Stream |-> IF s \in dead THEN v ELSE f[s]]

\* ~RtcStream() for the streams in dead, whose timers TimerOff() stops.
Delete(dead) ==
  /\ alive' = Forget(alive, FALSE, dead)
  /\ pc' = DestroyPc(dead)
  /\ kind' = Forget(kind, "push", dead)
  /\ name' = Forget(name, AnyName, dead)
  /\ uid' = Forget(uid, AnyUid, dead)
  /\ keyed' = Forget(keyed, FALSE, dead)
  /\ source' = Forget(source, NoStream, dead)

\* start() of stream s, where pcs and ts are the PeerConnections and the timers there are.
StartStream(s, pcs, ts) ==
  /\ pc' = [pcs EXCEPT ![s] = "live"]
  /\ timer' = StartTimer(ts, s)

\* The constructor, register_listener(), start() and create_offer() of stream s.
\* The streams in dead were deleted just before.
Construct(s, k, u, n, dead, src) ==
  /\ made' = s
  /\ kind' = [Forget(kind, "push", dead) EXCEPT ![s] = k]
  /\ name' = [Forget(name, AnyName, dead) EXCEPT ![s] = n]
  /\ uid' = [Forget(uid, AnyUid, dead) EXCEPT ![s] = u]
  /\ alive' = [Forget(alive, FALSE, dead) EXCEPT ![s] = TRUE]
  /\ StartStream(s, DestroyPc(dead), TimerOff(dead, {}))
  /\ source' = [Forget(source, NoStream, dead) EXCEPT ![s] = src]
  /\ state' = Forget(state, "other", dead)
  /\ keyed' = Forget(keyed, FALSE, dead)
  /\ reg' = [reg EXCEPT ![k][n] = s]

-----------------------------------------------------------------------------
(* Requests of the signaling plane *)

\* create_push_stream(): an entry of the same name is overwritten, not deleted.
CreatePush(u, n) ==
  /\ made < MaxStreams
  /\ Construct(made + 1, "push", u, n, {}, NoStream)
  /\ by' = u

\* create_pull_stream(): needs the push stream, copies its SSRCs, deletes the
\* user's own pull stream of that name and overwrites anyone else's.
CreatePull(u, n) ==
  /\ made < MaxStreams
  /\ reg["push"][n] # NoStream
  /\ Construct(made + 1, "pull", u, n, Owned("pull", u, n), reg["push"][n])
  /\ by' = u

\* stop_push(), stop_pull(): _remove_push_stream(u, n), _remove_pull_stream(u, n).
Stop(k, u, n) ==
  /\ LET dead == Owned(k, u, n) IN
     /\ reg' = Erase(k, n, dead)
     /\ Delete(dead)
     /\ timer' = TimerOff(dead, {})
     /\ state' = Forget(state, "other", dead)
  /\ by' = u
  /\ UNCHANGED made

\* PeerConnection::set_remote_sdp(): an answer that does not parse stops before the
\* transports get its fingerprint.
TakeAnswer(s, parses) == keyed' = [keyed EXCEPT ![s] = @ \/ parses]

\* set_answer(): the user's own stream of that name takes the answer.
SetAnswer(k, u, n, parses) ==
  /\ \E s \in Owned(k, u, n) : TakeAnswer(s, parses)
  /\ by' = u
  /\ UNCHANGED <<reg, made, kind, name, uid, alive, state, timer, pc, source>>

-----------------------------------------------------------------------------
(* Events of a stream *)

\* _on_connection_state() of the stream: it needs its timer no more.
Settled(new) == new \in {"connected", "failed"}

\* _on_connection_state() from the PeerConnection, inside its ICE or DTLS callback,
\* and on_connection_state() of the manager: a failed stream is removed by its
\* user and name.
ConnectionState(s, new) ==
  /\ alive[s] /\ state[s] # new
  /\ new = "connected" => keyed[s]
  /\ LET dead == IF new = "failed" THEN Owned(kind[s], uid[s], name[s]) ELSE {}
         done == IF Settled(new) THEN {s} ELSE {}
     IN /\ reg' = Erase(kind[s], name[s], dead)
        /\ Delete(dead)
        /\ timer' = TimerOff(dead, done)
        /\ state' = Forget([state EXCEPT ![s] = new], "other", dead)
  /\ by' = uid[s]
  /\ UNCHANGED made

\* Mutant: only a failed stream is reported.
ExpiredIfFailed(s) == state[s] = "failed"

\* ice_timeout_cb() reports the stream.
Expired(s) == state[s] # "connected"

\* ice_timeout_cb() and on_stream_exception()
IceTimeout(s) ==
  /\ timer[s] = "armed"
  /\ LET dead == IF Expired(s) THEN Owned(kind[s], uid[s], name[s]) ELSE {}
     IN /\ reg' = Erase(kind[s], name[s], dead)
        /\ Delete(dead)
        /\ timer' = [TimerOff(dead, {}) EXCEPT ![s] = IF s \in dead THEN @ ELSE "fired"]
        /\ state' = Forget(state, "other", dead)
  /\ by' = uid[s]
  /\ UNCHANGED made

\* destroy_timer_cb(): delete pc.
DestroyTimer(s) ==
  /\ pc[s] = "dying"
  /\ pc' = [pc EXCEPT ![s] = "gone"]
  /\ UNCHANGED <<reg, made, kind, name, uid, alive, state, timer, keyed, source, by>>

\* on_rtp_packet_received(), which changes nothing here: only from a push stream, to
\* the pull stream of its name.
RtpTarget(s) == IF kind[s] = "push" THEN reg["pull"][name[s]] ELSE NoStream

\* on_rtcp_packet_received(): to the stream of the other kind, both ways.
RtcpTarget(s) == reg[IF kind[s] = "push" THEN "pull" ELSE "push"][name[s]]

\* A packet comes up from a PeerConnection whose transport decrypts it; it reaches the
\* stream and its listener even while the PeerConnection waits for its deletion, unless
\* the stream, whose slots go with it, is gone.
Receives(s) == alive[s] /\ state[s] = "connected"

\* send_rtp(), send_rtcp() of the target's PeerConnection go out if its own transport is
\* connected.
CanSend(t) == state[t] = "connected"

\* _on_rtp_packet_received() or _on_rtcp_packet_received() of s hands a packet to t.
Forwards(s, t) ==
  Receives(s) /\ t # NoStream /\ t \in {RtpTarget(s), RtcpTarget(s)} /\ CanSend(t)

-----------------------------------------------------------------------------
Next ==
  \/ \E u \in Uid, n \in Name : CreatePush(u, n) \/ CreatePull(u, n)
  \/ \E k \in Kind, u \in Uid, n \in Name : Stop(k, u, n)
  \/ \E k \in Kind, u \in Uid, n \in Name, parses \in BOOLEAN : SetAnswer(k, u, n, parses)
  \/ \E s \in Stream, new \in PcState : ConnectionState(s, new)
  \/ \E s \in Stream : IceTimeout(s) \/ DestroyTimer(s)

\* Timers that are armed expire: libev runs them in every iteration of the loop.
Fairness == \A s \in Stream : WF_vars(IceTimeout(s)) /\ WF_vars(DestroyTimer(s))

Spec == Init /\ [][Next]_vars /\ Fairness

-----------------------------------------------------------------------------
(* Properties *)

\* Every variable has its type, and a pull stream was made from a push stream.
TypeOK ==
  /\ reg \in [Kind -> [Name -> Stream \cup {NoStream}]]
  /\ made \in 0..MaxStreams
  /\ kind \in [Stream -> Kind] /\ name \in [Stream -> Name] /\ uid \in [Stream -> Uid]
  /\ alive \in [Stream -> BOOLEAN]
  /\ state \in [Stream -> PcState]
  /\ timer \in [Stream -> {"off", "armed", "fired"}]
  /\ pc \in [Stream -> {"none", "live", "dying", "gone"}]
  /\ keyed \in [Stream -> BOOLEAN]
  /\ source \in [Stream -> Stream \cup {NoStream}]
  /\ \A s \in Stream : alive[s] /\ kind[s] = "pull" => source[s] # NoStream
  /\ by \in Uid

\* The maps never hold a deleted stream, nor one of another name or kind: every
\* path that deletes a stream (stop, failure, timeout, a new pull) erases it first.
NoDanglingEntry ==
  \A k \in Kind, n \in Name :
    LET s == reg[k][n] IN
    s # NoStream => alive[s] /\ kind[s] = k /\ name[s] = n

\* No timer can call back into a deleted stream or PeerConnection, and no stream
\* uses a PeerConnection that is being deleted.
NoDanglingCallback ==
  \A s \in Stream : /\ timer[s] # "off" => alive[s]
                    /\ alive[s] <=> pc[s] = "live"

\* A packet is forwarded to a stream that exists, of the other kind and the same name,
\* over a PeerConnection that nobody is about to delete.
NoDanglingTarget ==
  \A s, t \in Stream : Forwards(s, t) =>
    alive[t] /\ kind[t] # kind[s] /\ name[t] = name[s] /\ pc[t] = "live"

\* Nothing the process may still reach was deleted: through the maps, through timers, or
\* by a packet on its way from one stream to the other.
NothingDangles == NoDanglingEntry /\ NoDanglingCallback /\ NoDanglingTarget

\* The numbers above made have no object yet, and no answer.
NotYet == \A s \in Stream : s > made => ~ alive[s] /\ ~ keyed[s]

\* The inductive invariant NothingDangles rests on.
IInv == TypeOK /\ NotYet /\ NoDanglingEntry /\ NoDanglingCallback

\* A PeerConnection is never deleted in the step that deletes its stream: that step
\* may be one of the PeerConnection's own callbacks, which goes on afterwards.
PcOutlivesCallback == [][\A s \in Stream : alive[s] => pc'[s] # "gone"]_vars

\* Only its own user makes a stream go away or take an answer: by a request, or by
\* a stream of that user timing out or failing.
OnlyOwnerTouches ==
  [][\A s \in Stream :
       (alive[s] /\ ~ alive'[s]) \/ (keyed'[s] # keyed[s]) => by' = uid[s]]_vars

\* A stream that never connects is removed by its 30 s timer, unless another stream
\* has taken its entry in the map.
NeverConnectedIsRemoved ==
  \A s \in Stream :
    timer[s] = "armed" ~> (state[s] = "connected" \/ ~ alive[s] \/ reg[kind[s]][name[s]] # s)
=============================================================================
