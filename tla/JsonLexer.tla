------------------------------ MODULE JsonLexer ------------------------------
(***************************************************************************)
(* The lexer of base/json.hpp, which reads the body of every signalling    *)
(* request.  It is a deterministic automaton over bytes: Feed(x, c) is the  *)
(* lexer x after reading c.  A byte is a number in 0..255, and EOF is what  *)
(* get() returns at the end of the text.  Comments are never skipped here   *)
(* (parse() leaves ignore_comments FALSE), so '/' is an error.              *)
(*                                                                         *)
(* A number keeps its digits: no value of 64 bits is ever computed.         *)
(***************************************************************************)
EXTENDS Integers, Sequences, SequencesExt

EOF == -1
Quote == 34
Backslash == 92
LowerU == 117

\* The classes of bytes the automaton tells apart.
Blanks == {9, 10, 13, 32}
Digits19 == 49..57
HexDigit(c) == CASE c \in 48..57  -> c - 48
                 [] c \in 65..70  -> c - 55
                 [] c \in 97..102 -> c - 87
                 [] OTHER         -> -1

token_type ==
  {"uninitialized", "literal_true", "literal_false", "literal_null", "value_string",
   "value_unsigned", "value_integer", "value_float", "begin_array", "begin_object",
   "end_array", "end_object", "name_separator", "value_separator", "parse_error",
   "end_of_input"}

\* The lexer: the state of its automaton (at), token_buffer, what the state
\* remembers (arg) and the type of the token.  "done" has the token complete;
\* in "again" the last character was ungot.
Lexer(at, buf, arg, tok) == [at |-> at, buf |-> buf, arg |-> arg, tok |-> tok]
Fresh(at) == Lexer(at, << >>, << >>, "uninitialized")
Token(tok) == Lexer("done", << >>, << >>, tok)
Error == Token("parse_error")

-----------------------------------------------------------------------------
(* Strings *)

\* A byte of the form 10xxxxxx with the six bits of cp above the weight w.
Six(cp, w) == 128 + ((cp \div w) % 64)

\* The bytes scan_string() adds for a code point.
Bytes(cp) ==
  CASE cp < 128 -> <<cp>>
    [] cp \in 128..2047   -> <<192 + (cp \div 64), Six(cp, 1)>>
    [] cp \in 2048..65535 -> <<224 + (cp \div 4096), Six(cp, 64), Six(cp, 1)>>
    [] OTHER -> <<240 + (cp \div 262144), Six(cp, 4096), Six(cp, 64), Six(cp, 1)>>

High == 55296..56319
Low == 56320..57343

\* Characters that a backslash may precede, and what they stand for.
Escape == (34 :> 34) @@ (92 :> 92) @@ (47 :> 47) @@ (98 :> 8) @@ (102 :> 12)
          @@ (110 :> 10) @@ (114 :> 13) @@ (116 :> 9)

\* Control characters, which a string may hold as escapes only.
ControlCharacters == 0..31

\* Bytes of a string that stand for themselves.
Plain == (32..127) \ {Quote, Backslash}

\* The ranges of the bytes that must follow a lead byte; none for a byte that
\* leads nothing.
Continuation(c) ==
  CASE c \in 194..223 -> <<128, 191>>
    [] c = 224 -> <<160, 191, 128, 191>>
    [] c \in 225..239 \ {237} -> <<128, 191, 128, 191>>
    [] c = 237 -> <<128, 159, 128, 191>>
    [] c = 240 -> <<144, 191, 128, 191, 128, 191>>
    [] c \in 241..243 -> <<128, 191, 128, 191, 128, 191>>
    [] c = 244 -> <<128, 143, 128, 191, 128, 191>>
    [] OTHER -> << >>

\* scan_string(), one character.
FeedString(x, c) ==
  CASE c = Quote     -> [x EXCEPT !.at = "done"]
    [] c = Backslash -> [x EXCEPT !.at = "escape"]
    [] c \in Plain   -> [x EXCEPT !.buf = Append(@, c)]
    [] c \in ControlCharacters -> Error
    [] OTHER         -> LET r == Continuation(c) IN
                        IF r = << >> THEN Error
                        ELSE [x EXCEPT !.at = "continuation", !.buf = Append(@, c), !.arg = r]

\* next_byte_in_range(), one byte.
FeedContinuation(x, c) ==
  IF c \in x.arg[1]..x.arg[2]
  THEN [x EXCEPT !.buf = Append(@, c), !.arg = SubSeq(@, 3, Len(@)),
                 !.at = IF Len(x.arg) = 2 THEN "string" ELSE @]
  ELSE Error

\* The character behind a backslash; arg is the code point read so far, the number
\* of its digits and the high surrogate before it (0 if none).
FeedEscape(x, c) ==
  CASE c \in DOMAIN Escape -> [x EXCEPT !.at = "string", !.buf = Append(@, Escape[c])]
    [] c = LowerU          -> [x EXCEPT !.at = "hex", !.arg = <<0, 0, 0>>]
    [] OTHER               -> Error

\* A code point is complete: a high surrogate waits for the low one.
AddCodepoint(x, cp, high) ==
  CASE high = 0 /\ cp \in High -> [x EXCEPT !.at = "pair", !.arg = <<0, 0, cp>>]
    [] high = 0 /\ cp \notin High \cup Low
         -> [x EXCEPT !.at = "string", !.arg = << >>, !.buf = @ \o Bytes(cp)]
    [] high # 0 /\ cp \in Low
         -> [x EXCEPT !.at = "string", !.arg = << >>,
                      !.buf = @ \o Bytes(65536 + (high - 55296) * 1024 + (cp - 56320))]
    [] OTHER -> Error

\* get_codepoint(), one digit.
FeedHex(x, c) ==
  LET cp == x.arg[1] * 16 + HexDigit(c) IN
  CASE HexDigit(c) = -1 -> Error
    [] x.arg[2] = 3     -> AddCodepoint(x, cp, x.arg[3])
    [] OTHER            -> [x EXCEPT !.arg = <<cp, @[2] + 1, @[3]>>]

\* Behind a high surrogate only \u may follow.
FeedPair(x, c) ==
  CASE x.at = "pair" /\ c = Backslash -> [x EXCEPT !.at = "pair_u"]
    [] x.at = "pair_u" /\ c = LowerU  -> [x EXCEPT !.at = "hex"]
    [] OTHER                          -> Error

-----------------------------------------------------------------------------
(* Numbers *)

NumberClass(c) == CASE c = 48        -> "0"
                    [] c \in Digits19 -> "d"
                    [] c \in {69, 101} -> "e"
                    [] c = 43        -> "+"
                    [] c = 45        -> "-"
                    [] c = 46        -> "."
                    [] OTHER         -> "other"

\* A row of the automaton: where it names a class it goes on, elsewhere the number
\* is complete or wrong.
Row(f, other) == [k \in {"0", "d", "e", "+", "-", ".", "other"} |->
                   IF k \in DOMAIN f THEN f[k] ELSE other]
BothDigits(s) == ("0" :> s) @@ ("d" :> s)

IntegerRows == [minus |-> Row(("0" :> "zero") @@ ("d" :> "any1"), "error"),
                zero |-> Row(("." :> "decimal1") @@ ("e" :> "exponent"), "done"),
                any1 |-> Row(BothDigits("any1") @@ ("." :> "decimal1") @@ ("e" :> "exponent"),
                             "done")]
FractionRows == [decimal1 |-> Row(BothDigits("decimal2"), "error"),
                 decimal2 |-> Row(BothDigits("decimal2") @@ ("e" :> "exponent"), "done")]
ExponentRows == [exponent |-> Row(BothDigits("any2") @@ ("+" :> "sign") @@ ("-" :> "sign"),
                                  "error"),
                 sign |-> Row(BothDigits("any2"), "error"),
                 any2 |-> Row(BothDigits("any2"), "done")]
NumberRows == IntegerRows @@ FractionRows @@ ExponentRows

\* The largest magnitudes strtoull() and strtoll() take, as digits.
MaxUnsigned == <<49, 56, 52, 52, 54, 55, 52, 52, 48, 55, 51, 55, 48, 57, 53, 53, 49, 54, 49, 53>>
MaxSigned == <<57, 50, 50, 51, 51, 55, 50, 48, 51, 54, 56, 53, 52, 55, 55, 53, 56, 48, 56>>

\* a <= b for numbers without leading zeros
AtMost(a, b) == \/ Len(a) < Len(b)
                \/ /\ Len(a) = Len(b)
                   /\ \/ a = b
                      \/ \E i \in 1..Len(a) : a[i] < b[i] /\ \A j \in 1..(i - 1) : a[j] = b[j]

\* The end of scan_number(): an integer that does not fit becomes a float.
NumberDone(x) ==
  [x EXCEPT !.at = "again",
            !.tok = CASE x.tok = "value_unsigned" /\ AtMost(x.buf, MaxUnsigned) -> @
                      [] x.tok = "value_integer" /\ AtMost(Tail(x.buf), MaxSigned) -> @
                      [] OTHER -> "value_float"]

\* scan_number(), one character.
FeedNumber(x, c) ==
  LET to == NumberRows[x.at][NumberClass(c)] IN
  CASE to = "error" -> Error
    [] to = "done"  -> NumberDone(x)
    [] OTHER        -> [x EXCEPT !.at = to, !.buf = Append(@, c),
                                 !.tok = IF to \in {"decimal1", "exponent"} THEN "value_float" ELSE @]

StartNumber(c) ==
  CASE c = 45 -> Lexer("minus", <<c>>, << >>, "value_integer")
    [] c = 48 -> Lexer("zero", <<c>>, << >>, "value_unsigned")
    [] OTHER  -> Lexer("any1", <<c>>, << >>, "value_unsigned")

-----------------------------------------------------------------------------
(* scan() *)

Structural == (91 :> "begin_array") @@ (93 :> "end_array") @@ (123 :> "begin_object")
              @@ (125 :> "end_object") @@ (58 :> "name_separator") @@ (44 :> "value_separator")

\* What must follow the first letter of a literal.
Literal == (116 :> <<114, 117, 101>>) @@ (102 :> <<97, 108, 115, 101>>)
           @@ (110 :> <<117, 108, 108>>)
LiteralToken == (116 :> "literal_true") @@ (102 :> "literal_false") @@ (110 :> "literal_null")

\* scan_literal(), one character.
FeedLiteral(x, c) ==
  CASE c # x.arg[1]   -> Error
    [] Len(x.arg) = 1 -> Token(x.tok)
    [] OTHER          -> [x EXCEPT !.arg = Tail(@)]

\* scan() up to the first character of a token.
FeedBlank(x, c) ==
  CASE c \in Blanks -> x
    [] c \in DOMAIN Structural -> Token(Structural[c])
    [] c \in DOMAIN Literal -> Lexer("literal", << >>, Literal[c], LiteralToken[c])
    [] c = Quote -> Lexer("string", << >>, << >>, "value_string")
    [] c \in {45, 48} \cup Digits19 -> StartNumber(c)
    [] c \in {0, EOF} -> Token("end_of_input")
    [] OTHER -> Error

\* skip_bom(): only the first scan() looks for it.
FeedBom(x, c) ==
  CASE x.at = "bom" /\ c = 239   -> [x EXCEPT !.at = "bom2"]
    [] x.at = "bom"              -> FeedBlank(Fresh("blank"), c)
    [] x.at = "bom2" /\ c = 187  -> [x EXCEPT !.at = "bom3"]
    [] x.at = "bom3" /\ c = 191  -> Fresh("blank")
    [] OTHER                     -> Error

Feed(x, c) ==
  CASE x.at \in {"bom", "bom2", "bom3"} -> FeedBom(x, c)
    [] x.at = "blank"           -> FeedBlank(x, c)
    [] x.at = "string"          -> FeedString(x, c)
    [] x.at = "escape"          -> FeedEscape(x, c)
    [] x.at = "hex"             -> FeedHex(x, c)
    [] x.at \in {"pair", "pair_u"} -> FeedPair(x, c)
    [] x.at = "continuation"    -> FeedContinuation(x, c)
    [] x.at = "literal"         -> FeedLiteral(x, c)
    [] OTHER                    -> FeedNumber(x, c)

Complete(x) == x.at \in {"done", "again"}

=============================================================================
