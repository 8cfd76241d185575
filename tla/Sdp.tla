--------------------------------- MODULE Sdp ---------------------------------
(***************************************************************************)
(* SessionDescription: its contents, groups and transports, the text that   *)
(* to_string() makes of it, and the text that PeerConnection::              *)
(* set_remote_sdp() reads.                                                  *)
(*                                                                         *)
(* A text is a sequence of lines; a line is its kind k and its fields v.    *)
(* Lines that set_remote_sdp() does not look at have other kinds.  rn says  *)
(* that lines end in CR LF, end that the last one does.                     *)
(***************************************************************************)
EXTENDS Naturals, Sequences, SequencesExt

CONSTANTS Word,  \* what a line is made of: parameters, names and numbers
          Ssrc,  \* the fields that are numbers
          WithM, \* the fields with "m=" in them
          Algorithm, Lower,  \* the names of digest algorithms, in any case, and in lower case
          Null

Mids == {"audio", "video"}

Line(k, v) == [k |-> k, v |-> v]

-----------------------------------------------------------------------------
(* Types *)

\* The empty string, and the words of the program itself: names, values and kinds of
\* lines.
NoWord == ""
OwnWords ==
  {NoWord, "audio", "video", "none", "inactive", "sendonly", "recvonly", "sendrecv", "actpass",
   "sha-256", "server", "9", "SAVPF", "111", "96", "97", "cname", "msid", "mslabel", "label",
   "m", "mid", "bundle", "ufrag", "pwd", "fingerprint", "setup", "candidate", "direction",
   "codec", "ssrc", "ssrc-group", "cut"}

LineSet == [k : Word, v : Seq(Word)]
TextSet == [lines : Seq(LineSet), rn : BOOLEAN, end : BOOLEAN]

\* StreamParams, MediaContentDescription, TransportDescription, SessionDescription
TrackSet == [id : Word, stream : Word, cname : Word, ssrcs : Seq(Word),
             groups : Seq(Seq(Word))]
ContentSet == [mid : Mids, dir : Word, cands : Seq(Word), streams : Seq(TrackSet)]
TdSet == [mid : Word, ufrag : Word, pwd : Word, alg : Word,
          fp : Word \cup {Null}, role : Word]
DescriptionSet == [groups : Seq(Seq(Word)), contents : Seq(ContentSet), tds : Seq(TdSet)]

ASSUME SdpAssumption ==
  /\ OwnWords \subseteq Word /\ Ssrc \subseteq Word
  /\ WithM \cap OwnWords = {}
  /\ Lower \in [Algorithm -> Word]
  /\ Null \notin Word \cup TextSet \cup ContentSet \cup TdSet \cup DescriptionSet

-----------------------------------------------------------------------------
(* Descriptions *)

\* The first element of a sequence that satisfies P, or Null.
First(s, P(_)) == LET i == SelectInSeq(s, P) IN IF i = 0 THEN Null ELSE s[i]

GetContent(desc, mid) == First(desc.contents, LAMBDA c : c.mid = mid)
GetTransportInfo(desc, mid) == First(desc.tds, LAMBDA t : t.mid = mid)

\* ContentGroup::add_content_name(): each name once.
AddContentName(names, n) == IF Contains(names, n) THEN names ELSE Append(names, n)
ContentNames(v) ==
  LET names[i \in 0..Len(v)] == IF i = 0 THEN << >> ELSE AddContentName(names[i - 1], v[i])
  IN names[Len(v)]

\* is_bundle(), get_first_bundle_mid(): all groups of a description are BUNDLE.
IsBundle(desc, mid) == \E i \in 1..Len(desc.groups) : Contains(desc.groups[i], mid)
FirstBundleMid(desc) == IF desc.groups = << >> THEN NoWord ELSE desc.groups[1][1]

\* Mutant: every section has a transport of its own.
OwnsTransportAll(desc, mid) == TRUE

\* The sections that get a transport, of their own or for the whole bundle.
OwnsTransport(desc, mid) == ~ IsBundle(desc, mid) \/ mid = FirstBundleMid(desc)

\* A track: StreamParams
NewTrack(id) == [id |-> id, stream |-> NoWord, cname |-> NoWord, ssrcs |-> << >>, groups |-> << >>]

-----------------------------------------------------------------------------
(* to_string() *)

Codecs(mid) == IF mid = "audio" THEN <<"111">> ELSE <<"96", "97">>

\* build_ssrc() for one track.
SsrcLines(t) ==
  FlattenSeq([i \in 1..Len(t.groups) |->
    IF Len(t.groups[i]) = 1 THEN << >> ELSE <<Line("ssrc-group", t.groups[i])>>])
  \o FlattenSeq([i \in 1..Len(t.ssrcs) |->
    <<Line("ssrc", <<t.ssrcs[i], "cname", t.cname>>),
      Line("ssrc", <<t.ssrcs[i], "msid", t.stream, t.id>>),
      Line("ssrc", <<t.ssrcs[i], "mslabel", t.stream>>),
      Line("ssrc", <<t.ssrcs[i], "label", t.id>>)>>])

\* build_candidate(), build_rtp_direction(), build_rtp_map() with add_rtcp_fb_line()
\* and add_fmtp_line(), of which the values are constants.
CandidateLines(c) == [i \in 1..Len(c.cands) |-> Line("candidate", <<c.cands[i]>>)]
DirectionLine(c) == Line("direction", <<c.dir>>)
RtpMapLines(c) == [i \in 1..Len(Codecs(c.mid)) |-> Line("codec", <<Codecs(c.mid)[i]>>)]

\* The lines of a transport, if the section has one.
TransportLines(td) ==
  IF td = Null THEN << >>
  ELSE <<Line("ufrag", <<td.ufrag>>), Line("pwd", <<td.pwd>>)>>
         \o (IF td.fp = Null THEN << >> ELSE <<Line("fingerprint", <<td.alg, td.fp>>),
                                               Line("setup", <<td.role>>)>>)

SectionLines(desc, c) ==
  <<Line("m", <<c.mid, "9", "SAVPF">> \o Codecs(c.mid))>>
    \o CandidateLines(c) \o TransportLines(GetTransportInfo(desc, c.mid))
    \o <<Line("mid", <<c.mid>>), DirectionLine(c)>>
    \o RtpMapLines(c)
    \o FlattenSeq([i \in 1..Len(c.streams) |-> SsrcLines(c.streams[i])])

ToString_(desc) ==
  [lines |-> (IF desc.groups = << >> THEN << >>
              ELSE <<Line("bundle", FlattenSeq(desc.groups))>>)
             \o FlattenSeq([i \in 1..Len(desc.contents) |->
                              SectionLines(desc, desc.contents[i])]),
   rn |-> TRUE, end |-> TRUE]

-----------------------------------------------------------------------------
(* set_remote_sdp(): line by line *)

\* What the loop keeps; ok becomes FALSE where the function returns -1.
EmptyTd == [mid |-> NoWord, ufrag |-> NoWord, pwd |-> NoWord, alg |-> NoWord, fp |-> Null, role |-> "none"]
Start == [ok |-> TRUE, media |-> NoWord, contents |-> << >>, groups |-> << >>,
          td |-> [m \in Mids |-> EmptyTd], info |-> [m \in Mids |-> << >>],
          ssrcGroups |-> << >>]

\* With CR LF anywhere in the text every line loses its last character, which is
\* not a CR in a last line that does not end in CR LF.
Strip(text, i) ==
  LET l == text.lines[i] IN
  IF text.rn /\ ~ text.end /\ i = Len(text.lines) THEN [l EXCEPT !.v[Len(l.v)] = "cut"] ELSE l

\* A line that is taken for the start of a section has m= anywhere in it; its items are
\* what spaces separate, and the first of them, less two characters, is the name.
HasM(l) == l.k = "m" \/ (l.k # "bundle" /\ \E i \in 1..Len(l.v) : l.v[i] \in WithM)
Items(l) == CASE l.k \in {"ufrag", "pwd"} -> 1 [] l.k = "ssrc" -> Len(l.v) - 1 [] OTHER -> Len(l.v)
MediaOf(l) == IF l.k = "m" THEN l.v[1] ELSE l.k

\* a=group:BUNDLE, and any line with m= in it.
Head_(st, l) ==
  CASE l.k = "bundle" /\ l.v # << >> ->
         [st EXCEPT !.groups = Append(@, ContentNames(l.v))]
    [] HasM(l) /\ Items(l) < 3 -> [st EXCEPT !.ok = FALSE]
    [] HasM(l) /\ Items(l) >= 3 /\ MediaOf(l) \in Mids ->
         [st EXCEPT !.media = MediaOf(l), !.contents = Append(@, MediaOf(l)),
                    !.td[MediaOf(l)].mid = MediaOf(l)]
    [] HasM(l) /\ Items(l) >= 3 /\ MediaOf(l) \notin Mids -> [st EXCEPT !.media = MediaOf(l)]
    [] OTHER -> st

\* parse_transport_info(): get_attribute() fails unless there is one value, and a
\* fingerprint has a known algorithm and a digest of two digits for each byte.
IsDigest(v) == v[1] \in Algorithm /\ v[2] # "cut"

TransportInfo(st, l, m) ==
  CASE l.k \in {"ufrag", "pwd"} /\ Len(l.v) # 1 -> [st EXCEPT !.ok = FALSE]
    [] l.k = "ufrag" /\ Len(l.v) = 1 -> [st EXCEPT !.td[m].ufrag = l.v[1]]
    [] l.k = "pwd" /\ Len(l.v) = 1 -> [st EXCEPT !.td[m].pwd = l.v[1]]
    [] l.k = "fingerprint" /\ (Len(l.v) # 2 \/ ~ IsDigest(l.v)) -> [st EXCEPT !.ok = FALSE]
    [] l.k = "fingerprint" /\ Len(l.v) = 2 /\ IsDigest(l.v) ->
         [st EXCEPT !.td[m] = [@ EXCEPT !.alg = Lower[l.v[1]], !.fp = l.v[2]]]
    [] OTHER -> st

\* parse_ssrc_group_info(): what does not parse is left out.
SsrcGroupInfo(st, l) ==
  IF l.k = "ssrc-group" /\ Len(l.v) >= 2 /\ (\A i \in 2..Len(l.v) : l.v[i] \in Ssrc)
  THEN [st EXCEPT !.ssrcGroups = Append(@, l.v)] ELSE st

\* parse_ssrc_info(): cname and msid of an SSRC, which is added when it is new.
SsrcAt(infos, ssrc) == SelectInSeq(infos, LAMBDA e : e.ssrc = ssrc)
WithSsrc(infos, ssrc) ==
  IF SsrcAt(infos, ssrc) # 0 THEN infos
  ELSE Append(infos, [ssrc |-> ssrc, cname |-> NoWord, stream |-> NoWord, track |-> NoWord])
SsrcEntry(e, v) ==
  CASE v[2] = "cname" -> [e EXCEPT !.cname = v[3]]
    [] v[2] = "msid" /\ Len(v) = 3 -> [e EXCEPT !.stream = v[3]]
    [] v[2] = "msid" /\ Len(v) = 4 -> [e EXCEPT !.stream = v[3], !.track = v[4]]
    [] OTHER -> e
InfoAfter(infos, v) ==
  LET all == WithSsrc(infos, v[1]) IN [all EXCEPT ![SsrcAt(all, v[1])] = SsrcEntry(@, v)]

IsSsrc(v) == Len(v) >= 3 /\ v[1] \in Ssrc /\ (v[2] = "msid" => Len(v) =< 4)

SsrcInfo(st, l, m) ==
  CASE l.k # "ssrc" -> st
    [] l.k = "ssrc" /\ ~ IsSsrc(l.v) -> [st EXCEPT !.ok = FALSE]
    [] l.k = "ssrc" /\ IsSsrc(l.v) -> [st EXCEPT !.info[m] = InfoAfter(@, l.v)]

\* One iteration of the loop.
ParseLine(st, l) ==
  LET h == Head_(st, l)
      t == TransportInfo(h, l, h.media)
      g == IF h.media = "video" THEN SsrcGroupInfo(t, l) ELSE t
  IN CASE ~ st.ok -> st
       [] st.ok /\ (~ h.ok \/ h.media \notin Mids) -> h
       [] st.ok /\ h.ok /\ h.media \in Mids /\ ~ t.ok -> t
       [] OTHER -> SsrcInfo(g, l, h.media)

\* The state after n lines, and after all of them.
Parsed(text, n) ==
  LET st[i \in 0..Len(text.lines)] ==
        IF i = 0 THEN Start ELSE ParseLine(st[i - 1], Strip(text, i))
  IN st[n]
ParseLines(text) == Parsed(text, Len(text.lines))

\* create_track_from_ssrc_info(): the SSRCs of one track id are one track.
TrackAt(tracks, id) == SelectInSeq(tracks, LAMBDA t : t.id = id)
WithTrack(tracks, id) ==
  IF TrackAt(tracks, id) # 0 THEN tracks ELSE Append(tracks, NewTrack(id))
TrackEntry(t, e) ==
  [t EXCEPT !.cname = e.cname, !.stream = e.stream, !.ssrcs = Append(@, e.ssrc)]
AddToTrack(tracks, e) ==
  LET all == WithTrack(tracks, e.track)
  IN [all EXCEPT ![TrackAt(all, e.track)] = TrackEntry(@, e)]
CreateTracks(infos) ==
  LET tracks[i \in 0..Len(infos)] ==
        IF i = 0 THEN << >> ELSE AddToTrack(tracks[i - 1], infos[i])
  IN tracks[Len(infos)]

\* A group, its semantics and SSRCs, belongs to the tracks that have its first SSRC.
AddGroup(tracks, g) ==
  [i \in 1..Len(tracks) |->
     IF Contains(tracks[i].ssrcs, g[2]) THEN [tracks[i] EXCEPT !.groups = Append(@, g)]
                                        ELSE tracks[i]]

\* Mutant: groups are left out.
AddGroupsNone(tracks, groups) == tracks

AddGroups(tracks, groups) ==
  LET all[i \in 0..Len(groups)] == IF i = 0 THEN tracks ELSE AddGroup(all[i - 1], groups[i])
  IN all[Len(groups)]

\* The description after the loop; its contents have no tracks when it failed, and
\* no transports.
Description(st) ==
  LET tracks == [m \in Mids |-> IF ~ st.ok THEN << >>
                                ELSE IF m = "audio" THEN CreateTracks(st.info[m])
                                ELSE AddGroups(CreateTracks(st.info[m]), st.ssrcGroups)]
  IN [groups |-> st.groups,
      tds |-> IF st.ok THEN <<st.td["audio"], st.td["video"]>> ELSE << >>,
      contents |-> [i \in 1..Len(st.contents) |->
                      [mid |-> st.contents[i], dir |-> "inactive", cands |-> << >>,
                       streams |-> tracks[st.contents[i]]]]]
=============================================================================
