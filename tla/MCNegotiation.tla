---------------------------- MODULE MCNegotiation ----------------------------
(***************************************************************************)
(* Negotiation with clients whose answers have the sections of the offer.   *)
(***************************************************************************)
EXTENDS Negotiation

Ssrcs(ids, stream, track) ==
  FlattenSeq([i \in 1..Len(ids) |-> <<Line("ssrc", <<ids[i], "cname", "cn">>),
                                      Line("ssrc", <<ids[i], "msid", stream, track>>)>>])

\* What a client that sends says of its SSRCs: a microphone; a camera with its
\* retransmissions, or two cameras.
Tracks(mid, two) ==
  IF mid = "audio" THEN Ssrcs(<<"1">>, "s", "mic")
  ELSE IF two THEN Ssrcs(<<"2">>, "s", "cam") \o Ssrcs(<<"4">>, "s", "screen")
  ELSE <<Line("ssrc-group", <<"FID", "2", "3">>)>> \o Ssrcs(<<"2", "3">>, "s", "cam")

\* An answer of version n.  The fingerprint is in every section, in the tagged one
\* or at the session level.
Section(c, mid, mids, n, place, two) ==
  <<Line("m", <<mid, "9", "SAVPF", "1">>), Line("ufrag", <<n>>), Line("pwd", <<n>>)>>
    \o (IF place = "each" \/ (place = "tagged" /\ mid = mids[1])
        THEN <<Line("fingerprint", <<IF n = "b" THEN "SHA-256" ELSE "sha-256", n>>)>> ELSE << >>)
    \o (IF c.push THEN Tracks(mid, two) ELSE << >>)

AnswerText(c, mids, n, place, two, tail, end) ==
  [lines |-> <<Line("bundle", mids)>>
             \o (IF place = "session" THEN <<Line("fingerprint", <<"sha-256", n>>)>> ELSE << >>)
             \o FlattenSeq([i \in 1..Len(mids) |-> Section(c, mids[i], mids, n, place, two)])
             \o tail,
   rn |-> TRUE, end |-> end]

OfferedMids(c) == c.offer.lines[1].v

\* An answer with one more line, before the first section's ICE parameters.
With(text, line) == [text EXCEPT !.lines = InsertAt(@, 3, line)]

\* Two good ones, one with the algorithm in capitals; one without a line end at its end;
\* one with a section for data; one that does not parse after all of its parameters; one
\* bundled the other way round; one with the fingerprint at the session level; two with m=
\* in a line of the first section.
MCAnswer(c) ==
  LET mids == OfferedMids(c) IN
  {AnswerText(c, mids, "a", "each", FALSE, << >>, TRUE),
   AnswerText(c, mids, "b", "tagged", TRUE, << >>, TRUE),
   AnswerText(c, mids, "b", "each", FALSE, << >>, FALSE),
   AnswerText(c, mids, "c", "each", FALSE,
              <<Line("m", <<"application", "9", "DTLS">>), Line("ufrag", <<"x">>)>>, TRUE),
   AnswerText(c, mids, "d", "each", TRUE, <<Line("ssrc", <<"x", "cname", "cn">>)>>, TRUE),
   AnswerText(c, Reverse(mids), "e", "each", FALSE, << >>, TRUE),
   AnswerText(c, mids, "f", "session", FALSE, << >>, TRUE),
   With(AnswerText(c, mids, "h", "each", FALSE, << >>, TRUE), Line("fmtp", <<"1", "xm=1", "y">>)),
   With(AnswerText(c, mids, "h", "each", FALSE, << >>, TRUE), Line("fmtp", <<"1", "xm=1">>))}

MCWord == STRING
MCLower == [a \in {"sha-256", "SHA-256"} |-> "sha-256"]
MCMedia == {<<"audio", "video">>, <<"video">>}
MCPort == <<"10025", "10026", "10027">>
MCRefused == {{}, {"10025", "10026"}}
MCCred == <<"k1", "k2", "k3">>
=============================================================================
