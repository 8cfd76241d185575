---------------------------- MODULE DtlsSrtpProofs ----------------------------
(***************************************************************************)
(* Media keys are always those of the current handshake, made with the      *)
(* certificate the latest answer names, for every set of fingerprints and   *)
(* any number of answers.                                                   *)
(*                                                                         *)
(* SrtpKeysCurrent compares the keys with the fingerprint; to keep it one   *)
(* needs to know what the adapter's context holds before the keys exist:    *)
(* its digest is the current fingerprint or not known yet, and an SE_OPEN   *)
(* that is posted belongs to a certificate that was checked (CtxCurrent).   *)
(* Nothing but the slot of DtlsSrtpTransport runs while it is due, so every *)
(* event may assume that the keys agree with the state of the transport.    *)
(***************************************************************************)
EXTENDS DtlsSrtp, TLAPS

\* TransportController aggregates any two states to a PeerConnection state.
LEMMA AggregateType ==
  ASSUME NEW i \in IceState, NEW d \in DtlsState PROVE Aggregate(i, d) \in PcState
BY DEF Aggregate, IceState, DtlsState, PcState

\* A step that ends with UpdatePc leaves a PeerConnection state, and a slot to run when
\* the DTLS state is new.
LEMMA UpdatePcType ==
  ASSUME pc \in PcState, ice' \in IceState, dtls' \in DtlsState, UpdatePc
  PROVE  pc' \in PcState /\ due' \in BOOLEAN /\ (due' <=> dtls' # dtls)
BY AggregateType, Zenon DEF UpdatePc

\* The state of an ICE channel is one of the five.
LEMMA ComputeIceType ==
  ASSUME NEW h, NEW b, NEW a, NEW w PROVE ComputeIce(h, b, a, w) \in IceState
BY DEF ComputeIce, IceState

\* A context made by _setup_dtls() is a context.
LEMMA NewCtxType ==
  ASSUME NEW id \in Nat, NEW f \in Fp \cup {None}
  PROVE  /\ NewCtx(id, f) \in Ctx /\ NewCtx(id, f) # None
         /\ NewCtx(id, f).digest = f /\ NewCtx(id, f).cert = None
<1>1. /\ NewCtx(id, f) \in Ctx
      /\ NewCtx(id, f).digest = f /\ NewCtx(id, f).cert = None
  BY DEF NewCtx, Ctx
<1> QED BY <1>1, DtlsAssumption

\* _maybe_start_dtls() leaves digest and certificate of the context alone and never
\* connects by itself.
LEMMA StartFacts ==
  ASSUME NEW c \in Ctx \cup {None}, NEW h \in BOOLEAN, NEW w \in BOOLEAN,
         NEW r \in Start(c, h, "new", w)
  PROVE  /\ r.ctx \in Ctx \cup {None} /\ r.hello \in BOOLEAN
         /\ r.dtls \in {"new", "connecting", "failed"}
         /\ r.ctx = None <=> c = None
         /\ c = None => r.dtls = "new"
         /\ c # None => r.ctx.digest = c.digest /\ r.ctx.cert = c.cert
<1> DEFINE run == [c EXCEPT !.started = TRUE, !.fed = h]
<1>1. CASE c = None \/ ~ w
  <2>1. r = [ctx |-> c, hello |-> h, dtls |-> "new"]
    BY <1>1 DEF Start
  <2> QED BY <2>1
<1>2. CASE c # None /\ w
  <2>1. \/ r = [ctx |-> run, hello |-> FALSE, dtls |-> "connecting"]
        \/ r = [ctx |-> c, hello |-> h, dtls |-> "failed"]
        \/ r = [ctx |-> run, hello |-> FALSE, dtls |-> "failed"]
    BY <1>2 DEF Start
  <2>2. c \in Ctx
    BY <1>2
  <2>3. run \in Ctx /\ run.digest = c.digest /\ run.cert = c.cert
    BY <2>2 DEF Ctx
  <2>4. run # None
    BY <2>3, DtlsAssumption
  <2> HIDE DEF run
  <2>5. CASE r = [ctx |-> run, hello |-> FALSE, dtls |-> "connecting"]
    BY <1>2, <2>3, <2>4, <2>5
  <2>6. CASE r = [ctx |-> c, hello |-> h, dtls |-> "failed"]
    BY <1>2, <2>2, <2>6
  <2>7. CASE r = [ctx |-> run, hello |-> FALSE, dtls |-> "failed"]
    BY <1>2, <2>3, <2>4, <2>7
  <2> QED BY <2>1, <2>5, <2>6, <2>7
<1> QED BY <1>1, <1>2

\* The transport of a new offer satisfies the invariant.
LEMMA InitInv == Init => IInv
<1> SUFFICES ASSUME Init PROVE IInv
  OBVIOUS
<1>1. TypeOK
  <2>1. answers \in 0..MaxAnswers
    BY DtlsAssumption DEF Init, NewDtlsTransport, NewDtlsSrtp
  <2>2. /\ had \in BOOLEAN /\ been \in BOOLEAN /\ iceWritable \in BOOLEAN
        /\ hello \in BOOLEAN /\ writable \in BOOLEAN /\ posted \in BOOLEAN
    BY Zenon DEF Init, NewDtlsTransport, NewDtlsSrtp
  <2>3. /\ ice \in IceState /\ dtls \in DtlsState /\ pc \in PcState
        /\ fp = None /\ ctx = None /\ srtp = None /\ refused = None
        /\ ctx = None => dtls = "new"
        /\ due \in BOOLEAN
    BY Zenon DEF Init, NewDtlsTransport, NewDtlsSrtp, IceState, DtlsState, PcState
  <2> QED BY <2>1, <2>2, <2>3, Zenon DEF TypeOK
<1>2. CtxCurrent /\ SrtpKeysCurrent /\ ConnectedHasKeys
  BY DEF Init, NewDtlsTransport, NewDtlsSrtp, CtxCurrent, SrtpKeysCurrent, ConnectedHasKeys
<1> QED BY <1>1, <1>2 DEF IInv

\* ICE events keep the invariant.
LEMMA IceInv ==
  ASSUME IInv, ~ due, NEW a \in BOOLEAN, NEW w \in BOOLEAN, IceUpdate(a, w)
  PROVE  IInv'
<1>1. had' \in BOOLEAN /\ been' \in BOOLEAN /\ iceWritable' \in BOOLEAN
  BY DEF IceUpdate, IInv, TypeOK
<1>2. ice' \in IceState
  BY ComputeIceType DEF IceUpdate
<1>3. UNCHANGED <<fp, srtp, refused, answers, posted>>
  BY DEF IceUpdate, keys
<1>4. /\ ctx' \in Ctx \cup {None} /\ hello' \in BOOLEAN /\ dtls' \in DtlsState
      /\ writable' \in BOOLEAN
      /\ ctx' = None => dtls' = "new"
      /\ \/ UNCHANGED <<ctx, dtls>>
         \/ /\ dtls = "new" /\ dtls' # "connected" /\ ~ posted
            /\ ctx' # None => ctx # None /\ ctx'.digest = ctx.digest
  <2>1. CASE w # iceWritable /\ dtls = "new"
    <3>1. PICK r \in Start(ctx, hello, dtls, w) : Become(r)
      BY <2>1 DEF IceUpdate, OnWritable
    <3>2. /\ r.ctx \in Ctx \cup {None} /\ r.hello \in BOOLEAN
          /\ r.dtls \in {"new", "connecting", "failed"}
          /\ r.ctx = None <=> ctx = None
          /\ ctx = None => r.dtls = "new"
          /\ ctx # None => r.ctx.digest = ctx.digest /\ r.ctx.cert = ctx.cert
      BY <2>1, StartFacts DEF IInv, TypeOK
    <3>3. ctx' = r.ctx /\ hello' = r.hello /\ dtls' = r.dtls
      BY <3>1 DEF Become
    <3>4. writable' = writable /\ writable \in BOOLEAN
      BY <2>1 DEF IceUpdate, OnWritable, IInv, TypeOK
    <3>5. ~ posted
      BY <2>1 DEF IInv, CtxCurrent
    <3> QED BY <2>1, <3>2, <3>3, <3>4, <3>5 DEF DtlsState
  <2>2. CASE ~ (w # iceWritable /\ dtls = "new")
    <3>1. UNCHANGED <<ctx, hello, dtls>> /\ writable' \in BOOLEAN
      BY <2>2 DEF IceUpdate, OnWritable, IInv, TypeOK
    <3> QED BY <3>1 DEF IInv, TypeOK
  <2> QED BY <2>1, <2>2
<1>5. pc' \in PcState /\ due' \in BOOLEAN /\ (due' <=> dtls' # dtls)
  BY <1>2, <1>4, UpdatePcType DEF IceUpdate, IInv, TypeOK
<1>6. TypeOK'
  BY <1>1, <1>2, <1>3, <1>4, <1>5 DEF IInv, TypeOK
<1>7. CASE UNCHANGED <<ctx, dtls>>
  BY <1>3, <1>5, <1>6, <1>7
     DEF IInv, CtxCurrent, SrtpKeysCurrent, ConnectedHasKeys, NoKeys
<1>8. CASE /\ dtls = "new" /\ dtls' # "connected" /\ ~ posted
           /\ ctx' # None => ctx # None /\ ctx'.digest = ctx.digest
  <2>1. srtp' = None
    BY <1>3, <1>8 DEF IInv, SrtpKeysCurrent
  <2> QED BY <1>3, <1>6, <1>8, <2>1 DEF IInv, CtxCurrent, SrtpKeysCurrent, ConnectedHasKeys
<1> QED BY <1>4, <1>7, <1>8

\* A ClientHello keeps the invariant.
LEMMA HelloInv ==
  ASSUME IInv, ~ due, ReadHello PROVE IInv'
<1>1. UNCHANGED <<chan, fp, writable, srtp, refused, answers, posted>>
  BY DEF ReadHello, keys
<1>2. /\ ctx' \in Ctx /\ hello' \in BOOLEAN /\ dtls' \in DtlsState \ {"connected"}
      /\ srtp' = None
      /\ ctx'.digest \in {None, fp}
      /\ posted => dtls' = "connecting" /\ ctx'.cert = ctx.cert
  <2>1. CASE dtls = "new" /\ ctx = None
    <3>1. PICK r \in Start(NewCtx(answers, fp), TRUE, dtls, iceWritable) : Become(r)
      BY <2>1 DEF ReadHello
    <3>2. /\ NewCtx(answers, fp) \in Ctx /\ NewCtx(answers, fp) # None
          /\ NewCtx(answers, fp).digest = fp
      BY NewCtxType DEF IInv, TypeOK
    <3>3. /\ r.ctx \in Ctx \cup {None} /\ r.ctx # None /\ r.hello \in BOOLEAN
          /\ r.dtls \in {"new", "connecting", "failed"}
          /\ r.ctx.digest = fp
      <4>1. r \in Start(NewCtx(answers, fp), TRUE, "new", iceWritable)
        BY <2>1
      <4>2. iceWritable \in BOOLEAN
        BY DEF IInv, TypeOK
      <4>3. TRUE \in BOOLEAN
        BY Zenon
      <4> DEFINE c == NewCtx(answers, fp)
      <4>4. c \in Ctx \cup {None} /\ c # None /\ c.digest = fp /\ r \in Start(c, TRUE, "new", iceWritable)
        BY <3>2, <4>1
      <4> HIDE DEF c
      <4>5. /\ r.ctx \in Ctx \cup {None} /\ r.hello \in BOOLEAN
            /\ r.dtls \in {"new", "connecting", "failed"}
            /\ r.ctx = None <=> c = None
            /\ c # None => r.ctx.digest = c.digest /\ r.ctx.cert = c.cert
        BY <4>2, <4>3, <4>4, StartFacts, Zenon
      <4> QED BY <4>4, <4>5, Zenon
    <3>4. srtp' = None /\ ~ posted
      BY <1>1, <2>1 DEF IInv, TypeOK, SrtpKeysCurrent, CtxCurrent
    <3> QED BY <3>1, <3>3, <3>4 DEF Become, DtlsState
  <2>2. CASE dtls = "new" /\ ctx # None
    BY <1>1, <2>2 DEF ReadHello, IInv, TypeOK, SrtpKeysCurrent, CtxCurrent, DtlsState
  <2>3. CASE dtls = "connecting"
    <3>1. ctx \in Ctx
      BY <2>3 DEF IInv, TypeOK
    <3>2. ctx' = [ctx EXCEPT !.fed = TRUE] /\ UNCHANGED <<hello, dtls>>
      BY <2>3 DEF ReadHello, Feed
    <3>3. ctx' \in Ctx /\ ctx'.digest = ctx.digest /\ ctx'.cert = ctx.cert
      BY <3>1, <3>2 DEF Ctx
    <3>4. ctx # None
      BY <3>1, DtlsAssumption
    <3> QED BY <1>1, <2>3, <3>2, <3>3, <3>4
        DEF IInv, TypeOK, SrtpKeysCurrent, CtxCurrent, DtlsState
  <2> QED BY <2>1, <2>2, <2>3 DEF ReadHello
<1>3. pc' \in PcState /\ due' \in BOOLEAN
  <2>1. ice' \in IceState /\ dtls' \in DtlsState
    BY <1>1, <1>2 DEF IInv, TypeOK, chan
  <2> QED BY <2>1, UpdatePcType DEF ReadHello, IInv, TypeOK
<1>4. ctx' # None
  BY <1>2, DtlsAssumption
<1>5. TypeOK'
  BY <1>1, <1>2, <1>3, <1>4 DEF IInv, TypeOK, chan
<1> QED BY <1>1, <1>2, <1>4, <1>5
    DEF IInv, TypeOK, CtxCurrent, SrtpKeysCurrent, ConnectedHasKeys, DtlsState

\* Events of the SSLStreamAdapter keep the invariant.
LEMMA AdapterInv ==
  ASSUME IInv, ~ due, NEW new \in {"closed", "failed"}, NEW cert,
         (cert \in Fp /\ HandshakeDone(cert)) \/ DtlsOpen \/ DtlsClose(new)
  PROVE  IInv'
<1>1. UNCHANGED <<chan, fp, hello, srtp, refused, answers>>
  BY DEF HandshakeDone, DtlsOpen, DtlsClose, keys
<1>2. ctx \in Ctx /\ dtls \in {"connecting", "connected"}
  BY DEF HandshakeDone, DtlsOpen, DtlsClose, IInv, TypeOK, CtxCurrent
<1>3. /\ ctx' \in Ctx /\ dtls' \in DtlsState /\ writable' \in BOOLEAN
      /\ posted' \in BOOLEAN
      /\ ctx'.digest = ctx.digest
      /\ dtls = "connected" => ctx' = ctx /\ dtls' # "connected"
      /\ dtls' = "connected" => ctx'.cert = fp /\ fp # None /\ writable'
      /\ posted' => dtls' = "connecting" /\ ctx'.cert = fp /\ fp # None
  <2>1. CASE cert \in Fp /\ HandshakeDone(cert)
    <3> DEFINE c == [ctx EXCEPT !.cert = cert]
    <3>1. c \in Ctx /\ c.cert = cert /\ c.digest = ctx.digest
      BY <1>2, <2>1 DEF Ctx
    <3>2. dtls = "connecting" /\ ctx.cert = None /\ posted' = posted /\ cert # None
      BY <2>1, DtlsAssumption DEF HandshakeDone
    <3>3. ~ posted /\ ctx.digest \in {None, fp}
      BY <1>2, <3>2, DtlsAssumption DEF IInv, CtxCurrent
    <3>4. \/ ctx.digest = cert /\ Open(c)
          \/ ctx.digest = None /\ ctx' = c /\ UNCHANGED <<dtls, writable>>
          \/ ctx.digest \notin {None, cert} /\ ctx' = c /\ Shut("failed")
      BY <2>1 DEF HandshakeDone
    <3> HIDE DEF c
    <3>5. CASE ctx.digest = cert /\ Open(c)
      BY <3>1, <3>2, <3>3, <3>5 DEF Open, DtlsState, IInv, TypeOK
    <3>6. CASE ctx.digest = None /\ ctx' = c /\ UNCHANGED <<dtls, writable>>
      BY <3>1, <3>2, <3>3, <3>6 DEF IInv, TypeOK
    <3>7. CASE ctx.digest \notin {None, cert} /\ ctx' = c /\ Shut("failed")
      BY <3>1, <3>2, <3>3, <3>7 DEF Shut, DtlsState, IInv, TypeOK
    <3> QED BY <3>4, <3>5, <3>6, <3>7
  <2>2. CASE DtlsOpen
    <3>1. posted /\ posted' = FALSE /\ Open(ctx)
      BY <2>2 DEF DtlsOpen
    <3>2. dtls = "connecting" /\ ctx.cert = fp /\ fp # None
      BY <3>1 DEF IInv, CtxCurrent
    <3> QED BY <1>2, <3>1, <3>2 DEF Open, DtlsState
  <2>3. CASE DtlsClose(new)
    BY <1>2, <2>3 DEF DtlsClose, Shut, DtlsState, IInv, TypeOK
  <2> QED BY <2>1, <2>2, <2>3
<1>4. pc' \in PcState /\ due' \in BOOLEAN /\ (due' <=> dtls' # dtls)
  <2>1. ice' \in IceState /\ dtls' \in DtlsState
    BY <1>1, <1>3 DEF IInv, TypeOK, chan
  <2> QED BY <2>1, UpdatePcType DEF HandshakeDone, DtlsOpen, DtlsClose, IInv, TypeOK
<1>5. ctx # None /\ ctx' # None
  BY <1>2, <1>3, DtlsAssumption
<1>6. TypeOK'
  BY <1>1, <1>3, <1>4, <1>5 DEF IInv, TypeOK, chan
<1>7. CtxCurrent'
  BY <1>1, <1>3, <1>5 DEF IInv, CtxCurrent
<1>8. SrtpKeysCurrent' /\ ConnectedHasKeys'
  <2>1. CASE dtls = "connected"
    BY <1>1, <1>3, <1>4, <2>1 DEF IInv, SrtpKeysCurrent, ConnectedHasKeys
  <2>2. CASE dtls = "connecting"
    BY <1>1, <1>4, <2>2 DEF IInv, SrtpKeysCurrent, ConnectedHasKeys
  <2> QED BY <1>2, <2>1, <2>2
<1> QED BY <1>6, <1>7, <1>8 DEF IInv

\* The slot of DtlsSrtpTransport keeps the invariant: it installs the keys of the context
\* that is connected, or drops them.
LEMMA KeySlotInv ==
  ASSUME IInv, KeySlot PROVE IInv'
<1>1. /\ due /\ due' = FALSE
      /\ UNCHANGED <<chan, fp, ctx, hello, dtls, writable, pc, answers, posted>>
  BY DEF KeySlot
<1>2. CASE dtls # "connected" /\ Reset /\ UNCHANGED refused
  BY <1>1, <1>2
     DEF Reset, IInv, TypeOK, CtxCurrent, SrtpKeysCurrent, ConnectedHasKeys, chan
<1>3. CASE dtls = "connected"
  <2>1. ctx \in Ctx /\ ctx # None /\ ctx.cert = fp /\ writable
    BY <1>1, <1>3, DtlsAssumption DEF IInv, TypeOK, CtxCurrent
  <2>2. ctx.id \in Nat /\ ctx.id # None
    BY <2>1, DtlsAssumption DEF Ctx
  <2>3. /\ srtp' \in {None, ctx.id} /\ refused' \in {refused, ctx.id}
        /\ srtp' # None \/ ctx.cert \in NoSrtp \/ refused' = ctx.id
    <3>1. srtp \in {None, ctx.id}
      BY DEF IInv, SrtpKeysCurrent
    <3>2. CASE HasParams /\ SetRtpParams
      BY <2>2, <3>2 DEF SetRtpParams, Reset
    <3>3. CASE ~ HasParams /\ UNCHANGED <<srtp, refused>>
      BY <2>1, <3>1, <3>3 DEF HasParams, CanExport
    <3> QED BY <1>3, <3>2, <3>3 DEF KeySlot, keys
  <2>4. TypeOK'
    BY <1>1, <2>2, <2>3 DEF IInv, TypeOK, chan
  <2>5. CtxCurrent'
    BY <1>1 DEF IInv, CtxCurrent
  <2>6. SrtpKeysCurrent' /\ ConnectedHasKeys'
    BY <1>1, <1>3, <2>1, <2>3 DEF SrtpKeysCurrent, ConnectedHasKeys, NoKeys
  <2> QED BY <2>4, <2>5, <2>6 DEF IInv
<1> QED BY <1>2, <1>3 DEF KeySlot

\* An answer keeps the invariant, whether it comes first, late or again.
LEMMA AnswerInv ==
  ASSUME IInv, ~ due, NEW f \in Fp, SetRemoteFingerprint(f) PROVE IInv'
<1>1. /\ fp' = f /\ f # None /\ UNCHANGED <<chan, refused>>
      /\ answers' \in Nat /\ answers' \in 0..MaxAnswers
  BY DtlsAssumption DEF SetRemoteFingerprint, IInv, TypeOK
<1>2. /\ ctx' \in Ctx /\ hello' \in BOOLEAN /\ dtls' \in DtlsState \ {"connected"}
      /\ writable' \in BOOLEAN /\ posted' \in BOOLEAN /\ srtp' = None
      /\ ctx'.digest \in {None, f}
      /\ posted' => dtls' = "connecting" /\ ctx'.cert = f
  <2>1. CASE ctx # None /\ fp = None
    <3> DEFINE good == f \notin BadFp /\ ctx.cert \in {None, f}
    <3>1. LateDigest(f)
      BY <2>1 DEF SetRemoteFingerprint
    <3>2. ctx \in Ctx /\ ctx.digest = None
      BY <2>1 DEF IInv, TypeOK, CtxCurrent
    <3>3. srtp = None /\ dtls # "connected"
      BY <2>1 DEF IInv, SrtpKeysCurrent, ConnectedHasKeys, CtxCurrent
    <3>4. dtls \in DtlsState
      BY DEF IInv, TypeOK
    <3>5. ctx' \in Ctx /\ ctx'.digest \in {None, f} /\ ctx'.cert = ctx.cert
      BY <3>1, <3>2 DEF LateDigest, Ctx
    <3>6. /\ hello' = hello /\ writable' = writable /\ srtp' = srtp
          /\ dtls' = IF good THEN dtls ELSE "failed"
          /\ posted' = (good /\ ctx.cert = f /\ dtls = "connecting")
      BY <3>1 DEF LateDigest
    <3> QED BY <3>3, <3>4, <3>5, <3>6 DEF IInv, TypeOK, DtlsState
  <2>2. CASE ~ (ctx # None /\ fp = None)
    <3>1. NewDigest(f)
      BY <2>2 DEF SetRemoteFingerprint
    <3>2. srtp' = None /\ ~ posted' /\ posted' \in BOOLEAN /\ writable' \in BOOLEAN
      BY <3>1 DEF NewDigest, Reset, IInv, TypeOK
    <3>3. CASE f \in BadFp
      <4>1. NewCtx(answers', None) \in Ctx /\ NewCtx(answers', None).digest = None
        BY <1>1, NewCtxType
      <4> QED BY <3>1, <3>2, <3>3, <4>1 DEF NewDigest, DtlsState, IInv, TypeOK
    <3>4. CASE f \notin BadFp
      <4>1. PICK r \in Start(NewCtx(answers', f), hello, "new", iceWritable) :
              ctx' = r.ctx /\ hello' = r.hello /\ dtls' = r.dtls
        BY <3>1, <3>4 DEF NewDigest
      <4>2. /\ NewCtx(answers', f) \in Ctx /\ NewCtx(answers', f) # None
            /\ NewCtx(answers', f).digest = f
        BY <1>1, NewCtxType
      <4>3. hello \in BOOLEAN /\ iceWritable \in BOOLEAN
        BY DEF IInv, TypeOK
      <4>4. /\ r.ctx \in Ctx \cup {None} /\ r.ctx # None /\ r.hello \in BOOLEAN
            /\ r.dtls \in {"new", "connecting", "failed"} /\ r.ctx.digest = f
        BY <4>2, <4>3, StartFacts
      <4> QED BY <3>2, <4>1, <4>4 DEF DtlsState
    <3> QED BY <3>3, <3>4
  <2> QED BY <2>1, <2>2
<1>3. pc' \in PcState /\ due' \in BOOLEAN
  <2>1. ice' \in IceState /\ dtls' \in DtlsState
    BY <1>1, <1>2 DEF IInv, TypeOK, chan
  <2> QED BY <2>1, UpdatePcType DEF SetRemoteFingerprint, IInv, TypeOK
<1>4. ctx' # None
  BY <1>2, DtlsAssumption
<1>5. TypeOK'
  BY <1>1, <1>2, <1>3, <1>4 DEF IInv, TypeOK, chan
<1> QED BY <1>1, <1>2, <1>4, <1>5
    DEF IInv, CtxCurrent, SrtpKeysCurrent, ConnectedHasKeys, DtlsState

\* Every step keeps the invariant.
LEMMA StepInv ==
  ASSUME IInv, [Next]_vars PROVE IInv'
<1>1. CASE UNCHANGED vars
  BY <1>1 DEF vars, IInv, TypeOK, CtxCurrent, SrtpKeysCurrent, ConnectedHasKeys, NoKeys
<1>2. CASE KeySlot
  BY <1>2, KeySlotInv
<1>3. CASE ~ due /\ \E a, w \in BOOLEAN : IceUpdate(a, w)
  BY <1>3, IceInv
<1>4. CASE ~ due /\ ReadHello
  BY <1>4, HelloInv
<1>5. CASE ~ due /\ \E cert \in Fp \ BadFp : HandshakeDone(cert)
  BY <1>5, AdapterInv
<1>6. CASE ~ due /\ DtlsOpen
  BY <1>6, AdapterInv
<1>7. CASE ~ due /\ \E new \in {"closed", "failed"} : DtlsClose(new)
  BY <1>7, AdapterInv
<1>8. CASE ~ due /\ \E f \in Fp : SetRemoteFingerprint(f)
  BY <1>8, AnswerInv
<1> QED BY <1>1, <1>2, <1>3, <1>4, <1>5, <1>6, <1>7, <1>8 DEF Next, Event

\* IInv is an invariant of the transport.
THEOREM TransportInvariance == Spec => []IInv
<1>1. Init => IInv
  BY InitInv
<1>2. IInv /\ [Next]_vars => IInv'
  BY StepInv
<1> QED BY <1>1, <1>2, PTL DEF Spec

\* SRTP never uses keys of an earlier handshake or of a certificate other than the
\* latest answer's: _on_dtls_state() and set_remote_fingerprint() together.
THEOREM KeysAreCurrent == Spec => []SrtpKeysCurrent
<1>1. IInv => SrtpKeysCurrent
  BY DEF IInv
<1> QED BY <1>1, TransportInvariance, PTL

\* A transport that reports k_connected has its SRTP keys once its slots have run:
\* _on_dtls_event() makes it writable before it announces the state, so only a client
\* without a profile or a refusal of set_rtp_params() leaves it without.
THEOREM ConnectedIsKeyed == Spec => []ConnectedHasKeys
<1>1. IInv => ConnectedHasKeys
  BY DEF IInv
<1> QED BY <1>1, TransportInvariance, PTL

-----------------------------------------------------------------------------
(* Starting and announcing *)

\* The handshake _maybe_start_dtls() leaves in k_new has no context or no channel.
LEMMA StartLeavesNew ==
  ASSUME NEW c, NEW h, NEW w, NEW r \in Start(c, h, "new", w), r.dtls = "new"
  PROVE  r.ctx = None \/ ~ w
BY DEF Start

\* No step loses the event that would have started a handshake that is set up.
LEMMA StartStep ==
  ASSUME IInv, NoLostStart, [Next]_vars PROVE NoLostStart'
<1> SUFFICES ASSUME dtls' = "new", ctx' # None PROVE ~ iceWritable'
  BY DEF NoLostStart
<1>1. CASE UNCHANGED vars
  BY <1>1 DEF vars, NoLostStart
<1>2. ASSUME NEW a \in BOOLEAN, NEW w \in BOOLEAN, IceUpdate(a, w)
      PROVE  ~ iceWritable'
  <2>1. iceWritable' = w
    BY <1>2 DEF IceUpdate
  <2>2. CASE w # iceWritable /\ dtls = "new"
    <3>1. PICK r \in Start(ctx, hello, dtls, w) : Become(r)
      BY <1>2, <2>2 DEF IceUpdate, OnWritable
    <3>2. r \in Start(ctx, hello, "new", w) /\ r.dtls = "new" /\ r.ctx # None
      BY <2>2, <3>1 DEF Become
    <3> QED BY <2>1, <3>2, StartLeavesNew
  <2>3. CASE ~ (w # iceWritable /\ dtls = "new")
    <3>1. dtls = "new" /\ ctx # None
      BY <1>2, <2>3 DEF IceUpdate, OnWritable
    <3> QED BY <2>1, <2>3, <3>1 DEF NoLostStart
  <2> QED BY <2>2, <2>3
<1>3. CASE ReadHello
  <2>1. iceWritable' = iceWritable
    BY <1>3 DEF ReadHello, chan
  <2>2. CASE dtls = "new" /\ ctx = None
    <3>1. PICK r \in Start(NewCtx(answers, fp), TRUE, dtls, iceWritable) : Become(r)
      BY <1>3, <2>2 DEF ReadHello
    <3>2. r \in Start(NewCtx(answers, fp), TRUE, "new", iceWritable)
      BY <2>2, <3>1
    <3>3. r.dtls = "new" /\ r.ctx # None
      BY <3>1 DEF Become
    <3> QED BY <2>1, <3>2, <3>3, StartLeavesNew
  <2>3. CASE ~ (dtls = "new" /\ ctx = None)
    <3>1. dtls = "new" /\ ctx # None
      BY <1>3, <2>3 DEF ReadHello
    <3> QED BY <2>1, <3>1 DEF NoLostStart
  <2> QED BY <2>2, <2>3
<1>4. ASSUME NEW cert \in Fp, HandshakeDone(cert) PROVE FALSE
  BY <1>4 DEF HandshakeDone, Open, Shut
<1>5. CASE DtlsOpen
  BY <1>5 DEF DtlsOpen, Open
<1>6. ASSUME NEW new \in {"closed", "failed"}, DtlsClose(new) PROVE FALSE
  BY <1>6 DEF DtlsClose, Shut
<1>7. ASSUME NEW f \in Fp, SetRemoteFingerprint(f) PROVE ~ iceWritable'
  <2>1. iceWritable' = iceWritable
    BY <1>7 DEF SetRemoteFingerprint, chan
  <2>2. CASE ctx # None /\ fp = None
    <3>1. dtls' \in {dtls, "failed"}
      BY <1>7, <2>2 DEF SetRemoteFingerprint, LateDigest
    <3> QED BY <2>1, <2>2, <3>1 DEF NoLostStart
  <2>3. CASE ~ (ctx # None /\ fp = None)
    <3>1. NewDigest(f)
      BY <1>7, <2>3 DEF SetRemoteFingerprint
    <3>2. f \notin BadFp
      BY <3>1 DEF NewDigest
    <3>3. PICK r \in Start(NewCtx(answers', f), hello, "new", iceWritable) :
            ctx' = r.ctx /\ dtls' = r.dtls
      BY <3>1, <3>2 DEF NewDigest
    <3> QED BY <2>1, <3>3, StartLeavesNew
  <2> QED BY <2>2, <2>3
<1>8. CASE KeySlot
  BY <1>8 DEF KeySlot, NoLostStart, chan
<1> QED BY <1>1, <1>2, <1>3, <1>4, <1>5, <1>6, <1>7, <1>8 DEF Next, Event

\* A channel that is the only one passes its state on: the IceAgent announces every
\* change of it.
LEMMA AgentOfOne ==
  ASSUME NEW i \in IceState PROVE AgentState({i}) = i
BY DEF AgentState, IceState

\* A step that ends with UpdatePc leaves the aggregate of the states it leaves.
LEMMA UpdatePcAgrees ==
  ASSUME IInv, StateAgrees, ice' \in IceState, UpdatePc
  PROVE  pc' = Aggregate(ice', dtls')
<1>1. CASE Announced
  BY <1>1, Zenon DEF UpdatePc
<1>2. CASE ~ Announced
  <2>1. AgentState({ice'}) = ice' /\ AgentState({ice}) = ice
    BY AgentOfOne DEF IInv, TypeOK
  <2>2. ice' = ice /\ dtls' = dtls
    BY <1>2, <2>1, Zenon DEF Announced, DtlsAnnounces
  <2>3. pc' = pc
    BY <1>2, Zenon DEF UpdatePc
  <2> QED BY <2>2, <2>3, Zenon DEF StateAgrees
<1> QED BY <1>1, <1>2

\* Every step leaves the PeerConnection with the aggregate of the current states.
LEMMA AgreesStep ==
  ASSUME IInv, StateAgrees, [Next]_vars PROVE StateAgrees'
<1>1. CASE UNCHANGED vars
  BY <1>1, Zenon DEF vars, StateAgrees
<1>2. ASSUME UNCHANGED chan, UpdatePc PROVE StateAgrees'
  <2>1. ice' \in IceState /\ ice' = ice /\ iceWritable' = iceWritable
    BY <1>2 DEF IInv, TypeOK, chan
  <2>2. pc' = Aggregate(ice', dtls')
    BY <1>2, <2>1, UpdatePcAgrees
  <2> QED BY <2>1, <2>2, Zenon DEF StateAgrees
<1>3. ASSUME NEW a \in BOOLEAN, NEW w \in BOOLEAN, IceUpdate(a, w)
      PROVE  StateAgrees'
  <2>1. /\ ice' = ComputeIce(had', been', a, w) /\ iceWritable' = w /\ UpdatePc
    BY <1>3 DEF IceUpdate
  <2>2. ice' \in IceState /\ (ice' = "connected" => w)
    BY <2>1 DEF ComputeIce, IceState
  <2>3. pc' = Aggregate(ice', dtls')
    BY <2>1, <2>2, UpdatePcAgrees
  <2> QED BY <2>1, <2>2, <2>3, Zenon DEF StateAgrees
<1>4. CASE ReadHello
  BY <1>2, <1>4 DEF ReadHello
<1>5. ASSUME NEW cert \in Fp, HandshakeDone(cert) PROVE StateAgrees'
  BY <1>2, <1>5 DEF HandshakeDone
<1>6. CASE DtlsOpen
  BY <1>2, <1>6 DEF DtlsOpen
<1>7. ASSUME NEW new \in {"closed", "failed"}, DtlsClose(new) PROVE StateAgrees'
  BY <1>2, <1>7 DEF DtlsClose
<1>8. ASSUME NEW f \in Fp, SetRemoteFingerprint(f) PROVE StateAgrees'
  BY <1>2, <1>8 DEF SetRemoteFingerprint
<1>9. CASE KeySlot
  <2>1. UNCHANGED <<ice, dtls, pc, iceWritable>>
    BY <1>9 DEF KeySlot, chan
  <2> QED BY <2>1, Zenon DEF StateAgrees
<1> QED BY <1>1, <1>3, <1>4, <1>5, <1>6, <1>7, <1>8, <1>9 DEF Next, Event

\* A handshake that is set up waits only for ICE: _on_writable_state(), a ClientHello
\* and set_remote_fingerprint() start it in whatever order they come.
THEOREM StartNeverLost == Spec => []NoLostStart
<1>1. Init => NoLostStart
  BY DEF Init, NewDtlsTransport, NoLostStart
<1>2. IInv /\ NoLostStart /\ [Next]_vars => NoLostStart'
  BY StartStep
<1> QED BY <1>1, <1>2, TransportInvariance, PTL DEF Spec

\* The state the TransportController keeps is never stale: it is the aggregate of the
\* channel's and the transport's, although it is computed only when one announces.
THEOREM StateIsAggregate == Spec => []StateAgrees
<1>1. Init => StateAgrees
  BY DEF Init, NewDtlsTransport, StateAgrees, Aggregate
<1>2. IInv /\ StateAgrees /\ [Next]_vars => StateAgrees'
  BY AgreesStep
<1> QED BY <1>1, <1>2, TransportInvariance, PTL DEF Spec

\* A PeerConnection that reports connected can carry media, or its keys are missing for
\* one of the three reasons that are known: the stream drops its timer either way.
THEOREM ConnectedMeansMedia == Spec => []ConnectedCarriesMedia
<1>1. IInv /\ StateAgrees => ConnectedCarriesMedia
  <2> SUFFICES ASSUME IInv, StateAgrees, pc = "connected", ~ due PROVE ConnectedCarriesMedia
    BY DEF ConnectedCarriesMedia
  <2>1. Aggregate(ice, dtls) = "connected" /\ ice \in IceState /\ dtls \in DtlsState
    BY Zenon DEF IInv, TypeOK, StateAgrees
  <2>2. ice = "connected" /\ dtls \in {"connected", "closed"}
    BY <2>1 DEF Aggregate, IceState, DtlsState
  <2> QED BY <2>2 DEF ConnectedCarriesMedia, StateAgrees, IInv, TypeOK, ConnectedHasKeys
<1> QED BY <1>1, TransportInvariance, StateIsAggregate, PTL
=============================================================================
