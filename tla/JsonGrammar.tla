----------------------------- MODULE JsonGrammar -----------------------------
(***************************************************************************)
(* What RFC 8259 says a JSON text is, stated without the automata of        *)
(* base/json.hpp: the reference its lexer and its parser are checked with.  *)
(* Meanings(t) is the set of the meanings of a text, which is empty when    *)
(* the text is not JSON.                                                    *)
(***************************************************************************)
EXTENDS JsonLexer, FiniteSetsExt

Cut(s, i, j) == SubSeq(s, i, j)

-----------------------------------------------------------------------------
(* Strings: a body is a sequence of units, each a character or an escape. *)

IsScalar(cp) == cp \in 0..1114111 /\ cp \notin 55296..57343

\* A sequence of one to four bytes is a character if it is the shortest encoding of
\* a Unicode scalar value.
LeadBits(b) == CASE b \in 192..223 -> b - 192
                 [] b \in 224..239 -> b - 224
                 [] b \in 240..247 -> b - 240
                 [] OTHER          -> b
Decode(u) == FoldLeft(LAMBDA n, b : n * 64 + (b % 64), LeadBits(u[1]), Tail(u))
Encode(cp) ==
  LET Low6(n) == 128 + (n % 64) IN
  IF cp < 128 THEN <<cp>>
  ELSE IF cp < 2048 THEN <<192 + (cp \div 64), Low6(cp)>>
  ELSE IF cp < 65536 THEN <<224 + (cp \div 4096), Low6(cp \div 64), Low6(cp)>>
  ELSE <<240 + (cp \div 262144), Low6(cp \div 4096), Low6(cp \div 64), Low6(cp)>>
IsCharacter(u) == /\ IsScalar(Decode(u))
                  /\ Encode(Decode(u)) = u

IsHex(u) == \A i \in 1..Len(u) : HexDigit(u[i]) # -1
Hex(u) == FoldLeft(LAMBDA n, c : n * 16 + HexDigit(c), 0, u)
IsU(u) == /\ Len(u) = 6
          /\ u[1] = Backslash /\ u[2] = LowerU
          /\ IsHex(Cut(u, 3, 6))
Unit16(u) == Hex(Cut(u, 3, 6))

\* What a unit stands for; the empty set if it is none.
UnitMeanings(u) ==
  CASE Len(u) = 2 /\ u[1] = Backslash
         -> IF u[2] \in {34, 47, 92} THEN {<<u[2]>>}
            ELSE {<<m[2]>> : m \in {p \in {<<98, 8>>, <<102, 12>>, <<110, 10>>, <<114, 13>>, <<116, 9>>} :
                                      p[1] = u[2]}}
    [] IsU(u) -> IF IsScalar(Unit16(u)) THEN {Encode(Unit16(u))} ELSE {}
    [] Len(u) = 12
         -> IF /\ IsU(Cut(u, 1, 6)) /\ IsU(Cut(u, 7, 12))
               /\ Unit16(Cut(u, 1, 6)) \in 55296..56319
               /\ Unit16(Cut(u, 7, 12)) \in 56320..57343
            THEN {Encode(65536 + 1024 * (Unit16(Cut(u, 1, 6)) % 1024) + (Unit16(Cut(u, 7, 12)) % 1024))}
            ELSE {}
    [] Len(u) \in 1..4
         -> IF u[1] >= 32 /\ u[1] \notin {Quote, Backslash} /\ IsCharacter(u) THEN {u} ELSE {}
    [] OTHER -> {}

RECURSIVE StringMeanings(_)
StringMeanings(b) ==
  IF b = << >> THEN {<< >>}
  ELSE UNION {LET M == UnitMeanings(Cut(b, 1, k)) IN
              IF M = {} THEN {}
              ELSE {m \o r : m \in M, r \in StringMeanings(Cut(b, k + 1, Len(b)))} :
                k \in {i \in {1, 2, 3, 4, 6, 12} : i <= Len(b)}}

-----------------------------------------------------------------------------
(* Numbers: [-] int [. digits] [e [sign] digits] *)

AllDigits(s) == s # << >> /\ \A i \in 1..Len(s) : s[i] \in 48..57
IsInt(s) == AllDigits(s) /\ (Len(s) > 1 => s[1] # 48)
IsFrac(s) == s = << >> \/ (s[1] = 46 /\ AllDigits(Tail(s)))
IsExp(s) == \/ s = << >>
            \/ /\ s[1] \in {69, 101}
               /\ \/ AllDigits(Tail(s))
                  \/ Len(s) > 2 /\ s[2] \in {43, 45} /\ AllDigits(Cut(s, 3, Len(s)))
IsNumber(s) ==
  \E k \in {0, 1}, i, j \in 0..Len(s) :
    /\ k <= i /\ i <= j
    /\ k = 1 => s[1] = 45
    /\ IsInt(Cut(s, k + 1, i))
    /\ IsFrac(Cut(s, i + 1, j))
    /\ IsExp(Cut(s, j + 1, Len(s)))

-----------------------------------------------------------------------------
(* Lexemes: a punctuation mark, or a scalar value and its meaning. *)

Mark == (91 :> "[") @@ (93 :> "]") @@ (123 :> "{") @@ (125 :> "}") @@ (58 :> ":") @@ (44 :> ",")
Word == (<<116, 114, 117, 101>> :> <<"boolean", TRUE>>)
        @@ (<<102, 97, 108, 115, 101>> :> <<"boolean", FALSE>>)
        @@ (<<110, 117, 108, 108>> :> <<"null">>)

\* Where the string that starts the text ends: at a quote with an even number of
\* backslashes directly before it; behind the text if there is none.
StringEnd(t) ==
  Min({Len(t) + 1} \cup {j \in 2..Len(t) : /\ t[j] = Quote
                                           /\ (j - Max({k \in 1..(j - 1) : t[k] # Backslash})) % 2 = 1})

\* How far the number or the word that starts the text may go.
WordEnd(t) ==
  Min({j \in 2..(Len(t) + 1) : j = Len(t) + 1 \/ t[j] \in {Quote, 9, 10, 13, 32} \cup DOMAIN Mark}) - 1

\* The lexeme that a piece of text is; the empty set if it is none.
Lexeme(u) ==
  CASE u[1] \in DOMAIN Mark -> {<<Mark[u[1]]>>}
    [] u[1] = Quote -> IF Len(u) > 1 /\ Last(u) = Quote
                       THEN {<<"scalar", <<"string", m>>>> : m \in StringMeanings(Cut(u, 2, Len(u) - 1))}
                       ELSE {}
    [] u \in DOMAIN Word -> {<<"scalar", Word[u]>>}
    [] OTHER -> IF IsNumber(u) THEN {<<"scalar", <<"number", u>>>>} ELSE {}

LexemeEnd(t) == IF t[1] \in DOMAIN Mark THEN 1 ELSE IF t[1] = Quote THEN StringEnd(t) ELSE WordEnd(t)

RECURSIVE Lexemes(_)
Lexemes(t) ==
  IF t = << >> THEN {<< >>}
  ELSE IF t[1] \in {9, 10, 13, 32} THEN Lexemes(Tail(t))
  ELSE UNION {{<<l>> \o r : l \in Lexeme(Cut(t, 1, n)), r \in Lexemes(Cut(t, n + 1, Len(t)))} :
                n \in {k \in {LexemeEnd(t)} : k <= Len(t)}}

-----------------------------------------------------------------------------
(* Values over lexemes *)

Commas(ts) == {k \in 1..Len(ts) : ts[k][1] = ","}

RECURSIVE Denotes(_)
RECURSIVE Items(_)
RECURSIVE Members(_)
\* One or more values with commas between them.
Items(ts) ==
  {<<v>> : v \in Denotes(ts)}
  \cup UNION {{<<v>> \o r : v \in Denotes(Cut(ts, 1, k - 1)), r \in Items(Cut(ts, k + 1, Len(ts)))} :
                k \in Commas(ts)}
\* One or more members, from left to right: of equal keys the last one counts.
IsKey(l) == l[1] = "scalar" /\ l[2][1] = "string"
Members(ts) ==
  IF Len(ts) < 3 \/ ~IsKey(ts[1]) \/ ts[2][1] # ":" THEN {}
  ELSE {ts[1][2][2] :> v : v \in Denotes(Cut(ts, 3, Len(ts)))}
       \cup UNION {{r @@ (ts[1][2][2] :> v) : v \in Denotes(Cut(ts, 3, k - 1)),
                                              r \in Members(Cut(ts, k + 1, Len(ts)))} : k \in Commas(ts)}
Denotes(ts) ==
  CASE Len(ts) = 0 -> {}
    [] Len(ts) = 1 -> IF ts[1][1] = "scalar" THEN {ts[1][2]} ELSE {}
    [] OTHER ->
       LET in == Cut(ts, 2, Len(ts) - 1)
           ends == <<ts[1][1], ts[Len(ts)][1]>>
       IN  CASE ends = <<"[", "]">> ->
                  IF in = << >> THEN {<<"array", << >>>>} ELSE {<<"array", r>> : r \in Items(in)}
             [] ends = <<"{", "}">> ->
                  IF in = << >> THEN {<<"object", << >>>>} ELSE {<<"object", r>> : r \in Members(in)}
             [] OTHER -> {}

\* A byte order mark at the very beginning is no part of the text.
WithoutMark(t) == IF Len(t) >= 3 /\ Cut(t, 1, 3) = <<239, 187, 191>> THEN Cut(t, 4, Len(t)) ELSE t

\* The meaning of a whole text.
Meanings(t) == UNION {Denotes(ts) : ts \in Lexemes(WithoutMark(t))}

\* The meaning of a value of the library.
RECURSIVE Meaning(_)
Meaning(v) ==
  CASE v[1] \in {"number_unsigned", "number_integer", "number_float"} -> <<"number", v[2]>>
    [] v[1] = "array" -> <<"array", [i \in 1..Len(v[2]) |-> Meaning(v[2][i])]>>
    [] v[1] = "object" -> <<"object", [k \in DOMAIN v[2] |-> Meaning(v[2][k])]>>
    [] OTHER -> v
=============================================================================
