------------------------------- MODULE DtlsSrtp -------------------------------
(***************************************************************************)
(* The transport of one PeerConnection above ICE: DtlsTransport, the keys   *)
(* DtlsSrtpTransport derives from it, and the state TransportController     *)
(* aggregates for the stream.  All media are bundled, so there is one       *)
(* transport.  Everything runs in one event loop: each packet, ICE event or *)
(* answer is one step, with all the signals it raises, except that the slot *)
(* of DtlsSrtpTransport for a new DTLS state is a step of its own: it was   *)
(* connected after the TransportController's, so the PeerConnection's state *)
(* is announced before the keys are installed or dropped.                   *)
(*                                                                         *)
(* Three things must come together in any order: ICE becomes writable, the  *)
(* client's ClientHello arrives, the answer brings the fingerprint.         *)
(*                                                                         *)
(* External: rtc::SSLStreamAdapter.  It is started once, completes the      *)
(* handshake after a ClientHello, reports SE_OPEN only when the client's    *)
(* certificate has the digest it was given, and keeps a handshake that      *)
(* completes before the digest is known until SetPeerCertificateDigest().   *)
(***************************************************************************)
EXTENDS Naturals

CONSTANTS Fp,         \* fingerprints: of certificates and in answers
          BadFp,      \* those SetPeerCertificateDigest() refuses (wrong length)
          NoSrtp,     \* certificates of clients that negotiate no SRTP profile
          MaxAnswers, \* bound: answers with a new fingerprint
          None

\* What the adapter behind _dtls was told and has done.
Ctx == [id : Nat,                \* which handshake
        started : BOOLEAN,       \* StartSSL() was called
        fed : BOOLEAN,           \* it was given a ClientHello
        digest : Fp \cup {None}, \* the digest it was given
        cert : Fp \cup {None}]   \* the client's certificate, once the handshake is complete

ASSUME DtlsAssumption ==
  /\ BadFp \subseteq Fp /\ NoSrtp \subseteq Fp /\ MaxAnswers \in Nat
  /\ None \notin Fp /\ None \notin Nat /\ None \notin Ctx

IceState  == {"new", "checking", "connected", "disconnected", "failed"}
DtlsState == {"new", "connecting", "connected", "closed", "failed"}
PcState   == {"new", "connecting", "connected", "disconnected", "failed"}

VARIABLES
  had, been,    \* _had_connection, _has_been_connection of the IceTransportChannel
  ice,          \* its _state
  iceWritable,  \* its _writable
  fp,           \* _remote_fingerprint_alg and _value of the DtlsTransport
  ctx,          \* its _dtls, with what the adapter was told and has done
  hello,        \* _catched_client_hello is not empty
  dtls,         \* _dtls_state
  writable,     \* _writable of the DtlsTransport
  due,          \* signal_dtls_state has yet to reach the DtlsSrtpTransport
  srtp,         \* None, or the handshake whose keys the SrtpSessions use
  refused,      \* history: the last handshake whose keys set_rtp_params() refused
  pc,           \* _pc_state of the TransportController
  answers,      \* answers that changed the fingerprint
  posted        \* the adapter has posted SE_OPEN

chan == <<had, been, ice, iceWritable>>
keys == <<srtp, refused>>
vars == <<had, been, ice, iceWritable, fp, ctx, hello, dtls, writable, due, srtp, refused,
          pc, answers, posted>>

\* DtlsTransport(), with the local certificate: neither fingerprint nor adapter yet.
NewDtlsTransport ==
  /\ fp = None /\ ctx = None /\ hello = FALSE
  /\ dtls = "new" /\ writable = FALSE /\ posted = FALSE

\* DtlsSrtpTransport() and set_dtls_transport(), before the handshake.
NewDtlsSrtp == srtp = None /\ due = FALSE /\ refused = None

\* set_local_description(): the channel, the two transports above it, and their slots.
Init ==
  /\ had = FALSE /\ been = FALSE /\ ice = "new" /\ iceWritable = FALSE
  /\ NewDtlsTransport /\ NewDtlsSrtp
  /\ pc = "new" /\ answers = 0

-----------------------------------------------------------------------------
(* Aggregated states *)

\* _compute_ice_transport_state(), with a connection that is not timed out or not.
ComputeIce(h, b, active, w) ==
  IF h /\ ~ active THEN "failed"
  ELSE IF b /\ ~ w THEN "disconnected"
  ELSE IF ~ h THEN "new"
  ELSE IF ~ w THEN "checking"
  ELSE "connected"

\* Mutant: the DTLS states are not counted.
AggregateIceOnly(i, d) == IF i = "checking" THEN "connecting" ELSE i

\* _update_state() of the TransportController, for the two states of one transport.
Aggregate(i, d) ==
  IF "failed" \in {i, d} THEN "failed"
  ELSE IF i = "disconnected" THEN "disconnected"
  ELSE IF i = "new" /\ d \in {"new", "closed"} THEN "new"
  ELSE IF i \in {"new", "checking"} \/ d \in {"new", "connecting"} THEN "connecting"
  ELSE "connected"

\* _update_state() of the IceAgent, for the set of states its channels are in.
AgentState(states) ==
  IF "failed" \in states THEN "failed"
  ELSE IF "disconnected" \in states THEN "disconnected"
  ELSE IF states \subseteq {"new"} THEN "new"
  ELSE IF states \cap {"new", "checking"} # {} THEN "checking"
  ELSE "connected"

\* _set_dtls_state() and _set_writable_state() raise a signal when the value is new.
DtlsAnnounces == dtls' # dtls \/ writable' # writable

\* A signal of the IceAgent or the DtlsTransport reaches the TransportController.
Announced == AgentState({ice'}) # AgentState({ice}) \/ DtlsAnnounces

\* The TransportController computes its state when one of them tells it to; the
\* DtlsSrtpTransport's slot for a new DTLS state is next.
UpdatePc ==
  /\ pc' = IF Announced THEN Aggregate(ice', dtls') ELSE pc
  /\ due' = (dtls' # dtls)

-----------------------------------------------------------------------------
(* DtlsTransport and DtlsSrtpTransport *)

\* on_received_packet() of the StreamInterfaceChannel: the adapter is told to read, and
\* takes the ClientHello from the queue at once.
Feed(c) == [c EXCEPT !.fed = TRUE]

\* What _maybe_start_dtls() may make of context c, a cached hello h and state s, when
\* the channel's writable() is w: nothing, a handshake that starts with the cached
\* hello, or a failure of StartSSL() or of the replay.
Start(c, h, s, w) ==
  IF c = None \/ ~ w THEN {[ctx |-> c, hello |-> h, dtls |-> s]}
  ELSE LET run == [c EXCEPT !.started = TRUE, !.fed = h] IN
       {[ctx |-> run, hello |-> FALSE, dtls |-> "connecting"],
        [ctx |-> c, hello |-> h, dtls |-> "failed"]}
         \cup IF h THEN {[ctx |-> run, hello |-> FALSE, dtls |-> "failed"]} ELSE {}

\* The context _setup_dtls() creates, with digest f if it is known.
NewCtx(id, f) == [id |-> id, started |-> FALSE, fed |-> FALSE, digest |-> f, cert |-> None]

\* ctx, hello and _dtls_state become r.
Become(r) == ctx' = r.ctx /\ hello' = r.hello /\ dtls' = r.dtls

\* get_srtp_crypto_suite() and export_keying_material() of the DtlsTransport.
CanExport(c) == c.cert \notin NoSrtp

\* _maybe_setup_dtls_srtp(): no keys yet, the transport is writable, and _extract_params()
\* finds an SRTP profile.
HasParams == srtp = None /\ writable /\ CanExport(ctx)

\* reset_params()
Reset == srtp' = None

\* set_rtp_params(): both sessions take their keys, or one of them refuses and
\* reset_params() leaves none.
SetRtpParams ==
  \/ srtp' = ctx.id /\ UNCHANGED refused
  \/ Reset /\ refused' = ctx.id

\* _on_dtls_state() of DtlsSrtpTransport.
KeySlot ==
  /\ due
  /\ due' = FALSE
  /\ \/ dtls # "connected" /\ Reset /\ UNCHANGED refused
     \/ dtls = "connected" /\ HasParams /\ SetRtpParams
     \/ dtls = "connected" /\ ~ HasParams /\ UNCHANGED keys
  /\ UNCHANGED <<chan, fp, ctx, hello, dtls, writable, pc, answers, posted>>

\* _on_dtls_event(SE_OPEN): writable first, then k_connected.
Open(c) == ctx' = c /\ dtls' = "connected" /\ writable' = TRUE

\* _on_dtls_event(SE_CLOSE) and the read that ends with SR_EOS or SR_ERROR.
Shut(new) == dtls' = new /\ writable' = FALSE

-----------------------------------------------------------------------------
(* Events from ICE *)

\* Mutant: becoming writable does not start a handshake that was set up before.
OnWritableIgnored(w) ==
  /\ writable' = IF dtls = "connected" THEN w ELSE writable
  /\ UNCHANGED <<ctx, hello, dtls>>

\* _on_writable_state() of DtlsTransport, when the channel's writable() becomes w.
OnWritable(w) ==
  IF w # iceWritable /\ dtls = "new"
  THEN /\ \E r \in Start(ctx, hello, dtls, w) : Become(r)
       /\ UNCHANGED writable
  ELSE /\ writable' = IF w # iceWritable /\ dtls = "connected" THEN w ELSE writable
       /\ UNCHANGED <<ctx, hello, dtls>>

\* _update_state() of the IceTransportChannel after its connections changed: active
\* says that one is not timed out, w that the selected one is writable.
IceUpdate(active, w) ==
  /\ w => active
  /\ had' = (had \/ active)
  /\ been' = (been \/ w)
  /\ iceWritable' = w
  /\ OnWritable(w)
  /\ ice' = ComputeIce(had', been', active, w)
  /\ UNCHANGED <<fp, keys, answers, posted>>
  /\ UpdatePc

\* _on_read_packet() with a ClientHello, over a connection of the channel.
ReadHello ==
  /\ had
  /\ \/ /\ dtls = "new" /\ ctx = None
        /\ \E r \in Start(NewCtx(answers, fp), TRUE, dtls, iceWritable) : Become(r)
     \/ /\ dtls = "new" /\ ctx # None
        /\ hello' = TRUE
        /\ UNCHANGED <<ctx, dtls>>
     \/ /\ dtls = "connecting"
        /\ ctx' = Feed(ctx)
        /\ UNCHANGED <<hello, dtls>>
  /\ UNCHANGED <<chan, fp, writable, keys, answers, posted>>
  /\ UpdatePc

-----------------------------------------------------------------------------
(* Events from the SSLStreamAdapter *)

\* The handshake completes with a client whose certificate is cert.
HandshakeDone(cert) ==
  /\ dtls = "connecting" /\ ctx.started /\ ctx.fed /\ ctx.cert = None
  /\ LET c == [ctx EXCEPT !.cert = cert] IN
     \/ /\ ctx.digest = cert
        /\ Open(c)
     \/ /\ ctx.digest = None
        /\ ctx' = c
        /\ UNCHANGED <<dtls, writable>>
     \/ /\ ctx.digest \notin {None, cert}
        /\ ctx' = c
        /\ Shut("failed")
  /\ UNCHANGED <<chan, fp, hello, keys, answers, posted>>
  /\ UpdatePc

\* SE_OPEN that SetPeerCertificateDigest() posted.
DtlsOpen ==
  /\ posted
  /\ posted' = FALSE
  /\ Open(ctx)
  /\ UNCHANGED <<chan, fp, hello, keys, answers>>
  /\ UpdatePc

\* The client closes the session, or the adapter fails.
DtlsClose(new) ==
  /\ dtls = "connected" \/ (dtls = "connecting" /\ new = "failed")
  /\ Shut(new)
  /\ posted' = FALSE
  /\ UNCHANGED <<chan, fp, ctx, hello, keys, answers>>
  /\ UpdatePc

-----------------------------------------------------------------------------
(* The answer *)

\* Mutant: the fingerprint is only stored when a context exists already.
LateDigestForgotten(f) == UNCHANGED <<ctx, hello, dtls, writable, srtp, posted>>

\* The context was created by a ClientHello: give it the digest now.  The adapter
\* checks a handshake that is complete and posts SE_OPEN, or refuses.
LateDigest(f) ==
  /\ LET good == f \notin BadFp /\ ctx.cert \in {None, f}
     IN /\ ctx' = IF f \in BadFp THEN ctx ELSE [ctx EXCEPT !.digest = f]
        /\ dtls' = IF good THEN dtls ELSE "failed"
        /\ posted' = (good /\ ctx.cert = f /\ dtls = "connecting")
  /\ UNCHANGED <<hello, writable, srtp>>

\* Mutant: a changed fingerprint keeps the old session.
KeepContext(f) == UNCHANGED <<ctx, hello, dtls, writable, srtp, posted>>

\* No context yet, or one for another fingerprint: drop it, k_new (whose slots reset the
\* keys before the handler goes on), _setup_dtls().
NewDigest(f) ==
  /\ posted' = FALSE
  /\ Reset
  /\ writable' = IF ctx # None THEN FALSE ELSE writable
  /\ IF f \in BadFp
     THEN ctx' = NewCtx(answers', None) /\ dtls' = "failed" /\ UNCHANGED hello
     ELSE \E r \in Start(NewCtx(answers', f), hello, "new", iceWritable) :
            ctx' = r.ctx /\ hello' = r.hello /\ dtls' = r.dtls

\* set_remote_fingerprint(): an identical fingerprint is ignored.
SetRemoteFingerprint(f) ==
  /\ f # fp /\ answers < MaxAnswers
  /\ answers' = answers + 1
  /\ fp' = f
  /\ IF ctx # None /\ fp = None THEN LateDigest(f) ELSE NewDigest(f)
  /\ UNCHANGED <<chan, refused>>
  /\ UpdatePc

-----------------------------------------------------------------------------
\* What the event loop calls, once the slots of the signals before have run.
Event ==
  \/ \E a, w \in BOOLEAN : IceUpdate(a, w)
  \/ ReadHello
  \/ \E cert \in Fp \ BadFp : HandshakeDone(cert)
  \/ DtlsOpen
  \/ \E new \in {"closed", "failed"} : DtlsClose(new)
  \/ \E f \in Fp : SetRemoteFingerprint(f)

Next == KeySlot \/ (~ due /\ Event)

\* A signal's slots run.  The client repeats its ClientHello until the handshake completes,
\* and the event loop runs what the adapter posts.  ICE and the answers owe nothing.
Fairness ==
  /\ WF_vars(KeySlot)
  /\ WF_vars(~ due /\ ReadHello)
  /\ WF_vars(~ due /\ \E cert \in Fp \ BadFp : HandshakeDone(cert))
  /\ WF_vars(~ due /\ DtlsOpen)

Spec == Init /\ [][Next]_vars /\ Fairness

-----------------------------------------------------------------------------
(* Properties *)

\* Every variable has its type, and a handshake in progress has its context.
TypeOK ==
  /\ had \in BOOLEAN /\ been \in BOOLEAN /\ ice \in IceState /\ iceWritable \in BOOLEAN
  /\ fp \in Fp \cup {None}
  /\ ctx \in Ctx \cup {None}
  /\ hello \in BOOLEAN /\ writable \in BOOLEAN /\ posted \in BOOLEAN /\ due \in BOOLEAN
  /\ dtls \in DtlsState
  /\ ctx = None => dtls = "new"
  /\ srtp \in Nat \cup {None} /\ refused \in Nat \cup {None}
  /\ pc \in PcState
  /\ answers \in 0..MaxAnswers

\* The SRTP keys are those of the current handshake, made with a client whose certificate
\* is the one the latest answer names, in whatever order ClientHello, answers and ICE
\* events came.  They are gone when the connection is, as soon as its slots have run.
SrtpKeysCurrent ==
  srtp # None => /\ dtls = "connected" \/ due
                 /\ ctx # None /\ srtp = ctx.id
                 /\ ctx.cert = fp

\* The keys are missing for good: the client negotiated no profile, or set_rtp_params()
\* refused those of this handshake.  Nothing would install them later.
NoKeys == ctx # None /\ (ctx.cert \in NoSrtp \/ refused = ctx.id)

\* A connected DTLS transport whose slots have run has its SRTP keys, unless they are
\* missing for good.
ConnectedHasKeys == dtls = "connected" /\ ~ due => srtp # None \/ NoKeys

\* A handshake that is set up waits only for ICE: no event that would have started
\* it has been lost.
NoLostStart == dtls = "new" /\ ctx # None => ~ iceWritable

\* When the PeerConnection says connected (and the stream drops its 30 s timer) and the
\* event loop is back, ICE is writable and there are keys, unless the client has closed
\* the session, negotiated no profile, or the keys were refused: in no other way do the
\* two state machines and the order of their slots leave a connected PeerConnection mute.
ConnectedCarriesMedia ==
  pc = "connected" /\ ~ due => iceWritable /\ (srtp # None \/ dtls = "closed" \/ NoKeys)

\* With ICE writable and an answer for good, the handshake does not hang.
HandshakeEnds ==
  <>[](iceWritable /\ fp # None) => <>[](dtls \notin {"new", "connecting"})

-----------------------------------------------------------------------------
(* The invariant that SrtpKeysCurrent rests on *)

\* What the adapter's context says in each state of the transport.
CtxCurrent ==
  /\ dtls = "connected" => ctx.cert = fp /\ fp # None
  /\ ctx # None => ctx.digest \in {None, fp}
  /\ posted => dtls = "connecting" /\ ctx.cert = fp /\ fp # None
  /\ due /\ dtls = "connected" => writable

\* The PeerConnection's state is the aggregate of the current ones, and ICE is connected
\* only over a writable channel.
StateAgrees == pc = Aggregate(ice, dtls) /\ (ice = "connected" => iceWritable)

\* The inductive invariant of the keys.
IInv == TypeOK /\ CtxCurrent /\ SrtpKeysCurrent /\ ConnectedHasKeys
=============================================================================
