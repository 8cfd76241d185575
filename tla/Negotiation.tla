----------------------------- MODULE Negotiation -----------------------------
(***************************************************************************)
(* Offers and answers of the PeerConnections of one RtcWorker: a push       *)
(* stream's offer and its client's answers, pull streams whose offers are   *)
(* made from the latest answer of the push stream, the transports both      *)
(* sides describe, and the UDP ports bound for them.                        *)
(*                                                                         *)
(* External: the clients, whose answers are texts of a given set that       *)
(* follow the RFCs, and the kernel, which may refuse ports of the range.    *)
(***************************************************************************)
EXTENDS Sdp, FiniteSets

CONSTANTS Pc,          \* the PeerConnections that may exist at once
          Answer(_),   \* the answers a client may send to an offer
          Network,     \* number of network interfaces
          Port,        \* the ports of the range in order, as a sequence
          Media,       \* the sections a stream may be asked for
          MaxAnswers,  \* bound: answers ever received
          Refused,     \* the sets of ports the kernel may refuse
          Cred         \* ICE credentials, one for each offer ever made

\* A PeerConnection: its kind, the text of its offer, its remote description, and for
\* each mid with a transport the ICE and DTLS parameters of both sides.
\* History: src, the text its sources came from; taken and last, its last answer
\* that was taken as a whole and its last answer.
TransportSet == [ufrag : Word, rufrag : Word, rpwd : Word, rfp : Word \cup {Null}]
PeerSet == [push : BOOLEAN, remote : DescriptionSet \cup {Null}, offer : TextSet,
            transports : [{"audio"} -> TransportSet] \cup [{"video"} -> TransportSet],
            src : TextSet \cup {Null}, taken : TextSet \cup {Null}, last : TextSet \cup {Null}]

\* A stream has at least one medium, and audio comes first.
ASSUME NegotiationAssumption ==
  /\ Network \in Nat
  /\ Port \in Seq(Word) /\ IsInjective(Port)
  /\ Cred \in Seq(Word) /\ IsInjective(Cred)
  /\ Media \subseteq {<<"audio">>, <<"video">>, <<"audio", "video">>}
  /\ Null \notin PeerSet

VARIABLES
  offers,   \* number of offers
  answers,  \* number of answers
  peer,     \* [Pc -> Null or the PeerConnection]
  bound,    \* [Pc -> the ports its UDPPorts are bound to]
  crashed   \* the process has dereferenced a null pointer

negotiationVars == <<offers, answers, peer, bound, crashed>>

\* A channel and a DtlsTransport before anything is known.
NoTransport == [ufrag |-> Null, rufrag |-> NoWord, rpwd |-> NoWord, rfp |-> Null]

NegotiationInit ==
  /\ offers = 0 /\ answers = 0
  /\ peer = [p \in Pc |-> Null]
  /\ bound = [p \in Pc |-> << >>]
  /\ crashed = FALSE

-----------------------------------------------------------------------------
(* create_offer() *)

\* get_direction()
Direction(send, recv) ==
  CASE send /\ recv -> "sendrecv" [] send /\ ~ recv -> "sendonly"
    [] ~ send /\ recv -> "recvonly" [] OTHER -> "inactive"

\* One content, with the sources if it is sent.
Content(mid, push, source) ==
  [mid |-> mid, dir |-> Direction(~ push, push), cands |-> << >>,
   streams |-> IF push THEN << >> ELSE source[mid]]

\* The role an offer asks for: a=setup:actpass.
Role == "actpass"

\* add_transport_info(): every section describes the same transport.
LocalTd(mid, cred) == [mid |-> mid, ufrag |-> cred, pwd |-> cred, alg |-> "sha-256",
                       fp |-> "server", role |-> Role]

LocalDescription(push, mids, source, cred) ==
  [groups |-> IF mids = << >> THEN << >> ELSE <<mids>>,
   contents |-> [i \in 1..Len(mids) |-> Content(mids[i], push, source)],
   tds |-> [i \in 1..Len(mids) |-> LocalTd(mids[i], cred)]]

\* IceAgent::create_channel() and _add_dtls_transport(): the sections of a description
\* that get a channel and a DtlsTransport of their own, one of each under each mid.
Channels(desc) == {m \in Mids : GetContent(desc, m) # Null /\ OwnsTransport(desc, m)}

\* IceAgent::set_ice_params(): the channel is found by its name.
SetIceParams(channel, td) == [channel EXCEPT !.ufrag = td.ufrag]

\* set_local_description()
LocalTransports(desc) ==
  [m \in Channels(desc) |-> SetIceParams(NoTransport, GetTransportInfo(desc, m))]

\* Mutant: sock_bind() takes the first port without looking.
BindFirst(free, n) == SubSeq(Port, 1, n)

\* create_ice_candidate() for each of n networks: sock_bind() takes the first port it
\* gets, and a network without one has no candidate.
TakePort(got, i, free, n) ==
  IF Port[i] \in free /\ Len(got) < n THEN Append(got, Port[i]) ELSE got
Bind(free, n) ==
  LET got[i \in 0..Len(Port)] ==
        IF i = 0 THEN << >> ELSE TakePort(got[i - 1], i, free, n)
  IN got[Len(Port)]

InUse == UNION {{bound[p][i] : i \in 1..Len(bound[p])} : p \in Pc}

\* get_networks(): the configured address, or those of the interfaces but "lo".
Networks == Network

\* IceAgent::gathering_candidate() and _on_candidate_allocate_done(): every channel
\* announces its candidates under its transport's name.
GatheringCandidate(transports, ports) == [m \in DOMAIN transports |-> ports]

\* PeerConnection::_on_candidate_allocate_done(): to the content of the channel's name.
AddCandidates(content, gathered) ==
  IF content.mid \in DOMAIN gathered THEN [content EXCEPT !.cands = gathered[content.mid]]
  ELSE content

\* The description behind gathering_candidate() of its channels.
WithCandidates(desc, transports, ports) ==
  [desc EXCEPT !.contents = [i \in 1..Len(@) |->
     AddCandidates(@[i], GatheringCandidate(transports, ports))]]

\* PushStream::_get_source(): what the remote description declares, if there is one.
Source(remote) ==
  [m \in Mids |-> IF remote = Null \/ GetContent(remote, m) = Null THEN << >>
                  ELSE GetContent(remote, m).streams]
NoSource == [m \in Mids |-> << >>]

\* A stream with these media is created and makes its offer.  All offers bundle, so
\* there is one channel, or none if there are no media.
MakeOffer(p, push, mids, source, src) ==
  LET desc == LocalDescription(push, mids, source, Cred[offers + 1])
      transports == LocalTransports(desc)
  IN \E refused \in Refused :
       LET ports == IF transports = << >> THEN << >>
                    ELSE Bind(Range(Port) \ (InUse \cup refused), Networks)
           local == WithCandidates(desc, transports, ports)
       IN /\ bound' = [bound EXCEPT ![p] = ports]
          /\ peer' = [peer EXCEPT ![p] =
               [push |-> push, remote |-> Null, offer |-> ToString_(local),
                transports |-> transports, src |-> src, taken |-> Null, last |-> Null]]

\* create_push_stream()
PushOffer(p, mids) ==
  /\ ~ crashed /\ peer[p] = Null /\ offers < Len(Cred)
  /\ offers' = offers + 1
  /\ MakeOffer(p, TRUE, mids, NoSource, Null)
  /\ UNCHANGED <<answers, crashed>>

\* create_pull_stream(): the sources are copied from push stream q.
PullOffer(p, q, mids) ==
  /\ ~ crashed /\ peer[p] = Null /\ offers < Len(Cred)
  /\ peer[q] # Null /\ peer[q].push
  /\ offers' = offers + 1
  /\ MakeOffer(p, FALSE, mids, Source(peer[q].remote), peer[q].last)
  /\ UNCHANGED <<answers, crashed>>

-----------------------------------------------------------------------------
(* set_remote_sdp() *)

\* IceAgent::set_remote_ice_params()
SetRemoteIceParams(channel, td) == [channel EXCEPT !.rufrag = td.ufrag, !.rpwd = td.pwd]

\* The mids _add_dtls_transport() has entered a transport under, and under which
\* _get_dtls_transport() finds it.
DtlsTransports(transports) == DOMAIN transports

\* IceAgent::get_channel(): the sections of the answer whose mid has a transport here.
Known(transports, desc) == Channels(desc) \cap DtlsTransports(transports)

\* set_remote_description()
RemoteTransports(transports, desc) ==
  [m \in DOMAIN transports |->
     IF m \in Known(transports, desc)
     THEN LET td == GetTransportInfo(desc, m)
          IN [SetRemoteIceParams(transports[m], td) EXCEPT !.rfp = td.fp]
     ELSE transports[m]]

\* ... whose fingerprints must not be null.
Dereferences(transports, desc) ==
  {GetTransportInfo(desc, m).fp : m \in Known(transports, desc)}

\* Mutant: an answer that fails to parse is applied as far as it was read.
AppliesAlways(st) == TRUE

\* The description reaches the transports only if all of the text was read.
Applies(st) == st.ok

\* The remote description is replaced even when the answer does not parse.
SetRemoteSdp(p, text) ==
  /\ ~ crashed /\ peer[p] # Null /\ answers < MaxAnswers
  /\ answers' = answers + 1
  /\ LET st == ParseLines(text)
         desc == Description([st EXCEPT !.ok = Applies(st)])
         null == Applies(st) /\ Null \in Dereferences(peer[p].transports, desc)
     IN /\ crashed' = null
        /\ peer' = [peer EXCEPT ![p].remote = desc, ![p].last = text,
                            ![p].taken = IF st.ok THEN text ELSE @,
                            ![p].transports = IF Applies(st) /\ ~ null
                                              THEN RemoteTransports(@, desc) ELSE @]
  /\ UNCHANGED <<offers, bound>>

\* ~IceTransportChannel(), ~UDPPort(): the sockets are closed.
CloseSockets(p) == bound' = [bound EXCEPT ![p] = << >>]

\* destroy_timer_cb(): ~TransportController() deletes the transports, then the IceAgent.
Destroy(p) ==
  /\ ~ crashed /\ peer[p] # Null
  /\ peer' = [peer EXCEPT ![p] = Null]
  /\ CloseSockets(p)
  /\ UNCHANGED <<offers, answers, crashed>>

-----------------------------------------------------------------------------
(* How a reader of the text who follows the RFCs understands it *)

\* The media section that line i is in.
SectionOf(text, i) ==
  LET ms == {j \in 1..i : text.lines[j].k = "m"}
  IN IF ms = {} THEN NoWord ELSE text.lines[CHOOSE j \in ms : \A k \in ms : k =< j].v[1]

\* The values of the lines of kind k in section mid.
Ref(text, mid, k) ==
  {text.lines[i].v : i \in {i \in 1..Len(text.lines) :
     text.lines[i].k = k /\ SectionOf(text, i) = mid}}

\* What section mid says of its SSRCs: cname, msid and groups.
RefSources(text, mid) ==
  [ssrcs |-> {v \in Ref(text, mid, "ssrc") : v[2] \in {"cname", "msid"}},
   groups |-> Ref(text, mid, "ssrc-group")]

\* The text in which the last line is without its last character, if set_remote_sdp()
\* takes that for a CR.
AsRead(text) ==
  [text EXCEPT !.lines = [i \in 1..Len(text.lines) |-> Strip(text, i)], !.end = TRUE]

\* The section that describes the transport of the bundle: the first of the group.
Tagged(text) == text.lines[SelectInSeq(text.lines, LAMBDA l : l.k = "bundle")].v[1]

-----------------------------------------------------------------------------
(* Answers that follow the RFCs *)

\* One bundle, of all sections with media.
OneBundle(text) ==
  \E b \in 1..Len(text.lines) :
    /\ text.lines[b].v # << >>
    /\ \A i \in 1..Len(text.lines) :
         /\ text.lines[i].k = "bundle" <=> i = b
         /\ text.lines[i].k = "m" => text.lines[i].v # << >>
         /\ text.lines[i].k = "m" /\ text.lines[i].v[1] \in Mids
              => Contains(text.lines[b].v, text.lines[i].v[1])

\* The tagged section has one ufrag, one password and at most one fingerprint.
OneTransport(text) ==
  LET t == Tagged(text) IN
  /\ \A k \in {"ufrag", "pwd", "fingerprint"} : \A v, w \in Ref(text, t, k) : v = w
  /\ Ref(text, t, "ufrag") # {} /\ Ref(text, t, "pwd") # {}

\* The lines of a section about its SSRCs: each has one name and is of one track, and the
\* SSRCs of a track have the same name and stream.
OneNameEach(S) ==
  /\ \A v \in S : /\ Len(v) >= 3
                  /\ v[2] = "cname" => Len(v) = 3
                  /\ v[2] = "msid" => Len(v) = 4
                  /\ v[1] \in Ssrc => \A k \in {"cname", "msid"} :
                                        \E w \in S : w[1] = v[1] /\ w[2] = k
  /\ \A v, w \in S : v[1] = w[1] /\ v[2] = w[2] /\ v[2] \in {"cname", "msid"} => v = w
  /\ \A d, f \in S : d[2] = "msid" /\ f[2] = "msid" /\ d[4] = f[4] =>
       /\ d[3] = f[3]
       /\ \A c, e \in S : /\ c[2] = "cname" /\ e[2] = "cname"
                          /\ c[1] = d[1] /\ e[1] = f[1]
                          => c[3] = e[3]

\* Groups are of video, and of SSRCs that the section names.
GroupsOfVideo(text) ==
  /\ Ref(text, "audio", "ssrc-group") = {}
  /\ \A g \in Ref(text, "video", "ssrc-group") :
       /\ Len(g) >= 2
       /\ \A i \in 2..Len(g) : g[i] \in Ssrc
       /\ \E v \in Ref(text, "video", "ssrc") : v[1] = g[2]

\* Names and groups are consistent.
WellNamed(text) == (\A m \in Mids : OneNameEach(Ref(text, m, "ssrc"))) /\ GroupsOfVideo(text)

\* Only the first line of a section has m= in it.
Plain(text) == \A i \in 1..Len(text.lines) : HasM(text.lines[i]) => text.lines[i].k = "m"

\* If the last line does not end like the others, it is none that a transport or a
\* section depends on.
EndsWell(text) ==
  text.end \/ text.lines[Len(text.lines)].k \notin {"m", "bundle", "ufrag", "pwd"}

Conforms(text) ==
  /\ text \in TextSet
  /\ OneBundle(text) /\ OneTransport(text) /\ EndsWell(text)
  /\ WellNamed(text)

-----------------------------------------------------------------------------
NegotiationNext ==
  \/ \E p \in Pc, mids \in Media : PushOffer(p, mids)
  \/ \E p, q \in Pc, mids \in Media : PullOffer(p, q, mids)
  \/ \E p \in Pc : /\ peer[p] # Null /\ answers < MaxAnswers
                   /\ \E text \in {a \in Answer(peer[p]) : Conforms(a)} : SetRemoteSdp(p, text)
  \/ \E p \in Pc : Destroy(p)

NegotiationSpec == NegotiationInit /\ [][NegotiationNext]_negotiationVars

-----------------------------------------------------------------------------
(* Properties *)

\* An offer describes the transport behind it: its tagged section has the channel's
\* ICE credentials and exactly the ports that are bound, and no two PeerConnections,
\* in whatever order they come and go, offer the same port.
OfferTellsTransport ==
  /\ \A p \in Pc : peer[p] # Null =>
       LET t == Tagged(peer[p].offer) IN
       /\ DOMAIN peer[p].transports = {t}
       /\ Ref(peer[p].offer, t, "ufrag") = {<<peer[p].transports[t].ufrag>>}
       /\ Ref(peer[p].offer, t, "candidate") = {<<x>> : x \in Range(bound[p])}
       /\ \A m \in Mids \ {t} : Ref(peer[p].offer, m, "candidate") = {}
  /\ \A p, q \in Pc : p # q => Range(bound[p]) \cap Range(bound[q]) = {}

\* A pull stream's offer declares nothing of a section while the push stream has no answer
\* or one that does not parse.  Otherwise it declares exactly the SSRCs, names and groups
\* that the answer declares, section by section; of a last line without CR LF those that
\* are left without its last character, as long as they agree with the others.
DeclaresWhatIsPushed ==
  \A p \in Pc : peer[p] # Null /\ ~ peer[p].push =>
    \A m \in Mids :
      LET here == RefSources(peer[p].offer, m) src == peer[p].src IN
      IF src = Null \/ Ref(peer[p].offer, m, "m") = {} \/ ~ ParseLines(src).ok
      THEN here = [ssrcs |-> {}, groups |-> {}]
      ELSE Plain(src) /\ WellNamed(AsRead(src)) => here = RefSources(AsRead(src), m)

\* A transport's remote credentials and fingerprint are all from one answer, the
\* latest that was taken, even if others failed half way through; unless that answer's
\* bundle starts with another section than the offer's, or it has m= in a line of a
\* section.
OneAnswerWhole ==
  \A p \in Pc : peer[p] # Null /\ ~ crashed =>
    \A m \in DOMAIN peer[p].transports :
      LET t == peer[p].transports[m] a == peer[p].taken IN
      IF a = Null THEN t.rfp = Null
      ELSE Plain(a) /\ Tagged(a) = m =>
             /\ Ref(a, m, "ufrag") = {<<t.rufrag>>}
             /\ Ref(a, m, "pwd") = {<<t.rpwd>>}
             /\ \E alg \in Algorithm : Ref(a, m, "fingerprint") = {<<alg, t.rfp>>}

\* set_remote_description() dereferences a null fingerprint only for an answer whose
\* tagged section has none, though sections bundled with it may leave it out; or one that
\* has m= in a line of a section.
NullOnlyIfUntagged ==
  crashed => \E p \in Pc :
               /\ peer[p] # Null /\ peer[p].taken # Null
               /\ Plain(peer[p].taken) =>
                    Ref(peer[p].taken, Tagged(peer[p].taken), "fingerprint") = {}

-----------------------------------------------------------------------------
(* The inductive invariant *)

NegotiationTypeOK ==
  /\ offers \in 0..Len(Cred) /\ answers \in Nat /\ crashed \in BOOLEAN
  /\ peer \in [Pc -> PeerSet \cup {Null}]
  /\ bound \in [Pc -> Seq(Word)]

\* The offer with these ports.
OfferText(push, mids, source, cred, ports) ==
  LET desc == LocalDescription(push, mids, source, cred)
  IN ToString_(WithCandidates(desc, LocalTransports(desc), ports))

\* What is remembered of a client's answer.
RemoteOf(text) == IF text = Null THEN Null ELSE Description(ParseLines(text))

\* An offer was made for the ports that are bound and the transport that is there, from
\* the answer that is remembered as its source.
OfferIsOf(c, ports, mids, cred) ==
  /\ c.offer = OfferText(c.push, mids, IF c.push THEN NoSource ELSE Source(RemoteOf(c.src)),
                         cred, ports)
  /\ DOMAIN c.transports = {mids[1]} /\ c.transports[mids[1]].ufrag = cred
OffersKnown ==
  \A p \in Pc : peer[p] # Null =>
    \E mids \in Media, i \in 1..offers : OfferIsOf(peer[p], bound[p], mids, Cred[i])

\* The remote description is that of the last answer, and all answers follow the RFCs.
AnswersKnown ==
  \A p \in Pc : peer[p] # Null =>
    /\ peer[p].remote = RemoteOf(peer[p].last)
    /\ \A text \in {peer[p].src, peer[p].taken, peer[p].last} : text = Null \/ Conforms(text)

\* No port is bound twice.
PortsApart == \A p, q \in Pc : p # q => Range(bound[p]) \cap Range(bound[q]) = {}

NegotiationInv ==
  /\ NegotiationTypeOK /\ OffersKnown /\ AnswersKnown /\ PortsApart
  /\ OneAnswerWhole /\ NullOnlyIfUntagged
=============================================================================
