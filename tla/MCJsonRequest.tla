--------------------------- MODULE MCJsonRequest ----------------------------
(* JsonRequest on texts made of small pieces, one family per concern. *)
EXTENDS JsonRequest

CONSTANTS MaxStructure, MaxNumber, MaxUtf8, MaxEscapes, MaxLiterals

Each(S) == {<<b>> : b \in S}
Family(head, f, max) == [head |-> head, family |-> f, max |-> max]

\* [ ] { } : , 1 "k"
Structure == Each({91, 93, 123, 125, 58, 44, 49}) \cup {<<34, 107, 34>>}
\* - 0 1 . e + ,
Numbers == Each({45, 48, 49, 46, 101, 43, 44})
\* lead and continuation bytes at the ends of their ranges, in a string
Utf8 == Each({34, 65, 31, 127, 128, 143, 144, 159, 160, 191, 193, 194, 223, 224, 225, 237, 239, 240,
              241, 244, 245})
\* in a string: the quote, a backslash, n, x and \u with code points of each length
Escapes == Each({34, 92, 110, 120})
           \cup {<<92, 117, 48, 48, 48, 49>>, <<92, 117, 48, 48, 101, 57>>,
                 <<92, 117, 50, 48, 65, 67>>, <<92, 117, 68, 56, 51, 68>>,
                 <<92, 117, 68, 69, 48, 48>>, <<92, 117, 48, 103>>}
\* literals, broken literals, blanks, the byte order mark and its beginning, a comment
Literals == {<<116, 114, 117, 101>>, <<102, 97, 108, 115, 101>>, <<110, 117, 108, 108>>,
             <<116, 114>>, <<32>>, <<10>>, <<239, 187, 191>>, <<239, 187>>, <<44>>, <<91>>, <<93>>, <<47>>}

\* 18446744073709551615, the next one, 1e9999, -9223372036854775809 and 4294967297
Big == {MaxUnsigned, [MaxUnsigned EXCEPT ![20] = 54], <<49, 101, 57, 57, 57, 57>>,
        <<45>> \o [MaxSigned EXCEPT ![19] = 57], <<45>> \o MaxSigned,
        <<52, 50, 57, 52, 57, 54, 55, 50, 57, 55>>}

\* Requests: "c":cmdno and then fields, each left out, right or of another type.
Num(n) == <<48 + n>>
Str == <<34, 120, 34>>
True == <<116, 114, 117, 101>>
Pair(k, v) == <<34>> \o k \o <<34, 58>> \o v
Field(k, values) == {<< >>} \cup {<<44>> \o Pair(k, v) : v \in values}
Requests ==
  {<<123>> \o Pair(CmdnoKey, c) \o u \o s \o a \o v \o <<125>> :
     c \in {Num(1), Num(4)},
     u \in Field(Uid, {Num(7), Str}), s \in Field(StreamName, {Num(7), Str}),
     a \in Field(Audio, {True, Str}), v \in Field(Video, {Num(1), Str})}
  \cup {<<123>> \o Pair(CmdnoKey, c) \o u \o s \o a \o <<125>> :
     c \in {Num(9), <<110, 117, 108, 108>>, <<49, 46, 53>>, True} \cup Big,
     u \in Field(Uid, {Num(7)}), s \in Field(StreamName, {Str}),
     a \in {<< >>, <<44>> \o Pair(Audio, Num(1)) \o <<44>> \o Pair(Video, True)}}
  \cup {<<123>> \o Pair(CmdnoKey, Num(3)) \o u \o s \o t \o w \o <<125>> :
     u \in Field(Uid, {Num(7)}), s \in Field(StreamName, {Str}),
     t \in Field(Type, {Num(1), Str}), w \in Field(Answer, {Num(1), Str})}
  \cup {<<110, 117, 108, 108>>, <<123, 125>>, <<123>> \o Pair(Uid, Num(7)) \o <<125>>}

MCPieces == [structure |-> Structure, numbers |-> Numbers, utf8 |-> Utf8, escapes |-> Escapes,
             literals |-> Literals, whole |-> {}]
MCInputs == {Family(<< >>, "structure", MaxStructure), Family(<< >>, "numbers", MaxNumber),
             Family(<<34>>, "utf8", MaxUtf8), Family(<<34>>, "escapes", MaxEscapes),
             Family(<< >>, "literals", MaxLiterals)}
            \cup {Family(r, "whole", 0) : r \in Big \cup Requests}
=============================================================================
