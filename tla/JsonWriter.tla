----------------------------- MODULE JsonWriter ------------------------------
(***************************************************************************)
(* The serializer of base/json.hpp as res_root.dump() uses it for the reply *)
(* to a signalling request: no indentation, ensure_ascii FALSE, the strict  *)
(* error handler.  A JSON value is a tuple: its type and what it holds; a   *)
(* number holds its decimal text.  string_buffer is written out in order,   *)
(* so only what it carries is modelled.                                     *)
(***************************************************************************)
EXTENDS Integers, Sequences, SequencesExt

UTF8_ACCEPT == 0
UTF8_REJECT == 1

\* The classes of bytes in the first 256 entries of utf8d.
ByteType(b) ==
  CASE b \in 0..127 -> 0
    [] b \in 128..143 -> 1
    [] b \in 144..159 -> 9
    [] b \in 160..191 -> 7
    [] b \in {192, 193} \cup 245..255 -> 8
    [] b \in 194..223 -> 2
    [] b = 224 -> 10
    [] b \in 225..239 \ {237} -> 3
    [] b = 237 -> 4
    [] b = 240 -> 11
    [] b \in 241..243 -> 6
    [] OTHER -> 5

\* The rest of utf8d: rows of states, entries of classes; what is not here rejects.
Decoded ==
  [s \in 0..8 |->
    CASE s = 0 -> (0 :> 0) @@ (2 :> 2) @@ (3 :> 3) @@ (4 :> 5) @@ (5 :> 8) @@ (6 :> 7)
                  @@ (10 :> 4) @@ (11 :> 6)
      [] s = 2 -> [t \in {1, 7, 9} |-> 0]
      [] s = 3 -> [t \in {1, 7, 9} |-> 2]
      [] s = 4 -> [t \in {7} |-> 2]
      [] s = 5 -> [t \in {1, 9} |-> 2]
      [] s = 6 -> [t \in {7, 9} |-> 3]
      [] s = 7 -> [t \in {1, 7, 9} |-> 3]
      [] s = 8 -> [t \in {1} |-> 3]
      [] OTHER -> << >>]

NextState(s, b) == IF ByteType(b) \in DOMAIN Decoded[s] THEN Decoded[s][ByteType(b)]
                   ELSE UTF8_REJECT

\* decode(): the code point is kept modulo 2^32, which no code point reaches.
Codepoint(s, codep, b) ==
  IF s # UTF8_ACCEPT THEN (b % 64) + codep * 64
  ELSE IF ByteType(b) > 8 THEN 0 ELSE b % (2 ^ (8 - ByteType(b)))

\* The characters that have an escape of two characters.
ShortEscape == (8 :> 98) @@ (9 :> 116) @@ (10 :> 110) @@ (12 :> 102) @@ (13 :> 114)
               @@ (34 :> 34) @@ (92 :> 92)
LowerHex(n) == IF n < 10 THEN 48 + n ELSE 87 + n


\* What dump_escaped() writes when byte b completes a code point.
Escaped(codep, b) ==
  CASE codep \in DOMAIN ShortEscape -> <<92, ShortEscape[codep]>>
    [] codep \in 0..31 \ DOMAIN ShortEscape
         -> <<92, 117, 48, 48, LowerHex(codep \div 16), LowerHex(codep % 16)>>
    [] OTHER -> <<b>>

\* A byte of a code point that is not complete yet is copied.
Incomplete(w, b) == Append(w.out, b)

\* dump_escaped(), one byte; ok is FALSE once it throws type_error 316.
WriteByte(w, b) ==
  LET to == NextState(w.state, b)
      cp == Codepoint(w.state, w.codep, b)
  IN  IF ~w.ok \/ to = UTF8_REJECT THEN [w EXCEPT !.ok = FALSE]
      ELSE [ok |-> TRUE, state |-> to, codep |-> cp,
            out |-> IF to = UTF8_ACCEPT THEN w.out \o Escaped(cp, b) ELSE Incomplete(w, b)]

\* A string that ends inside a code point throws type_error 316 too.
EndsWhole(w) == w.ok /\ w.state = UTF8_ACCEPT

\* dump_escaped()
DumpEscaped(s) ==
  LET end == FoldLeft(WriteByte, [ok |-> TRUE, state |-> UTF8_ACCEPT, codep |-> 0, out |-> << >>], s)
  IN  [ok |-> EndsWhole(end), out |-> end.out]

\* dump_integer() for the numbers of this model, which hold their digits.
DumpInteger(digits) == IF digits = <<45, 48>> THEN <<48>> ELSE digits

\* object_t is a std::map: its members come in the order of their keys.
KeyLess(a, b) ==
  \/ Len(a) < Len(b) /\ SubSeq(b, 1, Len(a)) = a
  \/ \E i \in 1..Len(a) : /\ i <= Len(b)
                          /\ a[i] < b[i]
                          /\ \A j \in 1..(i - 1) : a[j] = b[j]
Keys(f) == SetToSortSeq(DOMAIN f, KeyLess)

\* The elements written in order with a comma between two of them.
Separated(parts) == FoldLeft(LAMBDA s, p : IF s = << >> THEN p ELSE s \o <<44>> \o p, << >>, parts)

\* The cases of dump(), with the results of its recursive calls.
DumpObject(dumped) ==
  LET ks == Keys(dumped) IN
  <<123>> \o Separated([i \in 1..Len(ks) |-> <<34>> \o DumpEscaped(ks[i]).out \o <<34, 58>> \o dumped[ks[i]]])
          \o <<125>>
DumpArray(dumped) == <<91>> \o Separated(dumped) \o <<93>>
DumpScalar(v) ==
  CASE v[1] = "boolean" -> IF v[2] THEN <<116, 114, 117, 101>> ELSE <<102, 97, 108, 115, 101>>
    [] v[1] = "null"    -> <<110, 117, 108, 108>>
    [] OTHER            -> DumpInteger(v[2])

\* dump()
RECURSIVE Dump(_)
Dump(v) ==
  CASE v[1] = "object" -> DumpObject([k \in DOMAIN v[2] |-> Dump(v[2][k])])
    [] v[1] = "array"  -> DumpArray([i \in 1..Len(v[2]) |-> Dump(v[2][i])])
    [] v[1] = "string" -> <<34>> \o DumpEscaped(v[2]).out \o <<34>>
    [] OTHER           -> DumpScalar(v)

\* Members of the reply by one letter each, in the order of their real names:
\* err_msg, errno and offer.
ErrMsg == <<97>>
Errno == <<101>>
Offer == <<111>>

\* _response_server_offer(): what the reply holds.
Reply(err_no, sdp) ==
  <<"object", (Errno :> <<"number_integer", err_no>>)
              @@ (ErrMsg :> <<"string", IF err_no = <<48>> THEN <<115>> ELSE <<112>> >>)
              @@ (Offer :> <<"string", IF err_no = <<48>> THEN sdp ELSE << >> >>)>>
=============================================================================
