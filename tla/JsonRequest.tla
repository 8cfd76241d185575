----------------------------- MODULE JsonRequest -----------------------------
(***************************************************************************)
(* SignalingWorker::_process_request() and the JSON library below it: the   *)
(* text behind the header of a request is scanned (JsonLexer), parsed into  *)
(* a tree, asked for its command and the fields of that command, and the    *)
(* tree is destroyed.  json::parse(body.data()) gets a pointer and no       *)
(* length: the text is what stands in the buffer up to the first NUL byte.  *)
(*                                                                         *)
(* The tree lives in a heap of addresses, because ref_stack and             *)
(* object_element are pointers into it and an array moves its elements when *)
(* it grows.  The text is chosen as it is read: an input is its beginning    *)
(* (head) and up to max further pieces.                                     *)
(***************************************************************************)
EXTENDS JsonGrammar, JsonWriter, Functions, FiniteSetsExt

CONSTANTS Inputs,  \* the texts a client may send
          Pieces   \* what those of a family may go on with

ASSUME InputsAssumption ==
  \A i \in Inputs : /\ i.max \in Nat
                     /\ i.family \in DOMAIN Pieces
                     /\ << >> \notin Pieces[i.family]

VARIABLES
  family,   \* the family of the text
  text,     \* what get() has read
  todo,     \* what stands in the buffer behind it, as far as it is chosen
  room,     \* how many pieces may still follow
  start,    \* where the current token starts in text
  lex,      \* the lexer
  want,     \* where sax_parse_internal() stands
  states,   \* its stack: TRUE for an array, FALSE for an object
  heap,     \* the tree: what each address holds; root is at 0
  ref_stack,
  object_element,
  phase,    \* where _process_request() stands
  cmdno,    \* the command number, as two halves of 16 bits
  verdict,  \* what becomes of the request
  stack     \* destroy(): the items still to be destroyed

scanning == <<family, text, todo, room, start>>
parsing == <<lex, want, states, heap, ref_stack, object_element>>
handling == <<phase, cmdno, verdict, stack>>
vars == <<scanning, parsing, handling>>

-----------------------------------------------------------------------------
(* Values and their addresses *)

\* The types of a value.
value_t == {"null", "object", "array", "string", "boolean", "number_integer",
            "number_unsigned", "number_float", "binary", "discarded"}
is_number(type) == type \in {"number_integer", "number_unsigned", "number_float"}
is_structured(n) == n[1] \in {"array", "object"}

Root == 0
Children(n) == IF is_structured(n) THEN Range(n[2]) ELSE {}
RECURSIVE Under(_, _)
\* the addresses of the tree at a, a included
Under(h, a) == {a} \cup UNION {Under(h, b) : b \in Children(h[a])}
NewAddress(h) == Max(DOMAIN h) + 1

\* The value at an address.
RECURSIVE ValueAt(_, _)
ValueAt(h, a) ==
  CASE h[a][1] = "array"  -> <<"array", [i \in 1..Len(h[a][2]) |-> ValueAt(h, h[a][2][i])]>>
    [] h[a][1] = "object" -> <<"object", [k \in DOMAIN h[a][2] |-> ValueAt(h, h[a][2][k])]>>
    [] OTHER -> h[a]

\* An assignment destroys what the address held.
Assign(h, a, n) == LET freed == Under(h, a) \ {a} IN
                   [Restrict(h, DOMAIN h \ freed) EXCEPT ![a] = n]

\* The sizes at which a vector with no room left allocates a new buffer.
Grows(size) == size \in {0, 1, 2, 4, 8, 16}

\* emplace_back() into the array at a: when it grows, its elements move.
EmplaceBack(h, a, n) ==
  LET old == h[a][2]
      new == [i \in 1..(Len(old) + 1) |->
                IF i <= Len(old) /\ ~Grows(Len(old)) THEN old[i] ELSE NewAddress(h) + i]
      kept == Restrict(h, DOMAIN h \ (Range(old) \ Range(new)))
  IN  [b \in DOMAIN kept \cup Range(new) |->
         IF b = a THEN <<"array", new>>
         ELSE IF b \in Range(new)
         THEN LET i == CHOOSE j \in 1..Len(new) : new[j] = b
              IN  IF i <= Len(old) THEN h[old[i]] ELSE n
         ELSE h[b]]

\* handle_value(): the tree with the new value in it, and where that went.
HandleValue(n) ==
  IF ref_stack = << >> THEN [heap |-> Assign(heap, Root, n), at |-> Root]
  ELSE LET top == Last(ref_stack) IN
       IF heap[top][1] = "array"
       THEN LET h == EmplaceBack(heap, top, n) IN [heap |-> h, at |-> Last(h[top][2])]
       ELSE [heap |-> Assign(heap, object_element, n), at |-> object_element]

\* operator[] of an object: the member, made null if it was not there.
Member(h, a, key) ==
  IF key \in DOMAIN h[a][2] THEN [heap |-> h, at |-> h[a][2][key]]
  ELSE [heap |-> [h EXCEPT ![a] = <<"object", @[2] @@ (key :> NewAddress(h))>>]
                 @@ (NewAddress(h) :> <<"null">>),
        at |-> NewAddress(h)]

-----------------------------------------------------------------------------
\* lexer(): the characters are still in the buffer.
NewLexer == text = << >> /\ start = 0 /\ lex = Fresh("bom")

\* parser() asks for the first token at once.
NewParser == want = "value" /\ states = << >>

\* json_sax_dom_parser(): nothing but the root, which is null.
NewDom == heap = (Root :> <<"null">>) /\ ref_stack = << >> /\ object_element = -1

Init == /\ \E i \in Inputs : family = i.family /\ todo = i.head /\ room = i.max
        /\ NewLexer /\ NewParser /\ NewDom
        /\ phase = "parse" /\ cmdno = <<0, 0>> /\ verdict = "none" /\ stack = << >>

-----------------------------------------------------------------------------
(* The lexer reads *)

\* get(): the characters are the ones in the buffer; unget() leaves one there.
Get(c, rest) ==
  LET x == Feed(lex, c) IN
  /\ lex' = x
  /\ text' = IF x.at = "again" THEN text ELSE Append(text, c)
  /\ todo' = IF x.at = "again" /\ c # EOF THEN <<c>> \o rest ELSE rest
  /\ start' = IF lex.at \in {"bom", "blank"} /\ x.at \notin {"bom", "bom2", "blank"}
              THEN Len(text) ELSE start
  /\ UNCHANGED <<family, want, states, heap, ref_stack, object_element, handling>>

Reading == phase = "parse" /\ ~Complete(lex)

ReadNext == /\ Reading /\ todo # << >>
            /\ Get(Head(todo), Tail(todo))
            /\ UNCHANGED room
ReadPiece == /\ Reading /\ todo = << >> /\ room > 0
             /\ \E p \in Pieces[family] : Get(Head(p), Tail(p))
             /\ room' = room - 1
ReadEnd == /\ Reading /\ todo = << >>
           /\ Get(EOF, << >>)
           /\ room' = 0

-----------------------------------------------------------------------------
(* The parser takes a token *)

HasToken == phase = "parse" /\ Complete(lex)
tok == lex.tok

\* get_token() is called again: the lexer starts a new token.
NextToken == lex' = Fresh("blank")

\* Where the parser goes on behind a complete value.
After(st) == IF st = << >> THEN "end" ELSE IF Last(st) THEN "array" ELSE "object"

Start(type, to) ==
  LET r == HandleValue(<<type, << >>>>) IN
  /\ HasToken /\ want = "value"
  /\ heap' = r.heap
  /\ ref_stack' = Append(ref_stack, r.at)
  /\ want' = to
  /\ NextToken
  /\ UNCHANGED <<scanning, states, object_element, handling>>

StartObject == tok = "begin_object" /\ Start("object", "first_key")
StartArray == tok = "begin_array" /\ Start("array", "first_item")

\* Mutant: an empty container is left on the stack.
EndOnlyFull(from, first) ==
  /\ HasToken /\ want \in {from, first}
  /\ ref_stack' = IF want = from THEN Front(ref_stack) ELSE ref_stack
  /\ states' = IF want = from THEN Front(states) ELSE states
  /\ want' = After(states')
  /\ NextToken
  /\ UNCHANGED <<scanning, heap, object_element, handling>>

\* end_object() and end_array(): an empty container was not put on states.
End(from, first) ==
  /\ HasToken /\ want \in {from, first}
  /\ ref_stack' = Front(ref_stack)
  /\ states' = IF want = from THEN Front(states) ELSE states
  /\ want' = After(states')
  /\ NextToken
  /\ UNCHANGED <<scanning, heap, object_element, handling>>

EndObject == tok = "end_object" /\ End("object", "first_key")
EndArray == tok = "end_array" /\ End("array", "first_item")

\* The first element of an array: its token is used again as a value.
FirstItem == /\ HasToken /\ want = "first_item" /\ tok # "end_array"
             /\ states' = Append(states, TRUE)
             /\ want' = "value"
             /\ UNCHANGED <<scanning, lex, heap, ref_stack, object_element, handling>>

\* key(): object_element is the member, added as null if it is new.
Key == LET r == Member(heap, Last(ref_stack), lex.buf) IN
       /\ HasToken /\ want \in {"first_key", "key"} /\ tok = "value_string"
       /\ heap' = r.heap /\ object_element' = r.at
       /\ want' = IF want = "first_key" THEN "first_colon" ELSE "colon"
       /\ NextToken
       /\ UNCHANGED <<scanning, states, ref_stack, handling>>

Colon == /\ HasToken /\ want \in {"first_colon", "colon"} /\ tok = "name_separator"
         /\ states' = IF want = "first_colon" THEN Append(states, FALSE) ELSE states
         /\ want' = "value"
         /\ NextToken
         /\ UNCHANGED <<scanning, heap, ref_stack, object_element, handling>>

\* Mutant: behind the comma of an object the closing brace may follow.
CommaOpen == /\ HasToken /\ want \in {"array", "object"} /\ tok = "value_separator"
             /\ want' = IF want = "array" THEN "value" ELSE "first_key"
             /\ NextToken
             /\ UNCHANGED <<scanning, states, heap, ref_stack, object_element, handling>>

Comma == /\ HasToken /\ want \in {"array", "object"} /\ tok = "value_separator"
         /\ want' = IF want = "array" THEN "value" ELSE "key"
         /\ NextToken
         /\ UNCHANGED <<scanning, states, heap, ref_stack, object_element, handling>>

\* strtod(): a float is infinite if it is not zero and its exponent has four digits
\* or more; the inputs have no exponent near the limit itself.
Infinite(buf) ==
  \E i \in 1..Len(buf) :
    /\ buf[i] \in {69, 101} /\ i + 4 <= Len(buf)
    /\ \A j \in (i + 1)..Len(buf) : buf[j] \in 48..57
    /\ buf[i + 1] # 48
    /\ \E j \in 1..(i - 1) : buf[j] \in Digits19

Scalar == ("literal_true" :> <<"boolean", TRUE>>) @@ ("literal_false" :> <<"boolean", FALSE>>)
          @@ ("literal_null" :> <<"null">>) @@ ("value_string" :> <<"string", lex.buf>>)
          @@ ("value_unsigned" :> <<"number_unsigned", lex.buf>>)
          @@ ("value_integer" :> <<"number_integer", lex.buf>>)
          @@ ("value_float" :> <<"number_float", lex.buf>>)

Overflow == tok = "value_float" /\ Infinite(lex.buf)

TakeScalar == /\ HasToken /\ want = "value" /\ tok \in DOMAIN Scalar /\ ~Overflow
              /\ heap' = HandleValue(Scalar[tok]).heap
              /\ want' = After(states)
              /\ NextToken
              /\ UNCHANGED <<scanning, states, ref_stack, object_element, handling>>

\* The end of parse(): the text must end behind the value.
Parsed == /\ HasToken /\ want = "end" /\ tok = "end_of_input"
          /\ phase' = "cmdno"
          /\ UNCHANGED <<scanning, parsing, cmdno, verdict, stack>>

-----------------------------------------------------------------------------
(* The request *)

\* What the parser can take where it stands.
Expected(w) ==
  CASE w = "value"       -> {"begin_object", "begin_array"} \cup DOMAIN Scalar
    [] w = "first_key"   -> {"value_string", "end_object"}
    [] w = "key"         -> {"value_string"}
    [] w \in {"first_colon", "colon"} -> {"name_separator"}
    [] w = "first_item"  -> token_type
    [] w = "array"       -> {"value_separator", "end_array"}
    [] w = "object"      -> {"value_separator", "end_object"}
    [] OTHER             -> {"end_of_input"}

\* The items of a container, in the order destroy() moves them to its stack.
InOrder(n) == IF n[1] = "array" THEN n[2]
              ELSE IF n[1] = "object" THEN [i \in 1..Cardinality(DOMAIN n[2]) |-> n[2][Keys(n[2])[i]]]
              ELSE << >>

\* The request is over and the tree is destroyed: destroy() first moves the items of
\* the root to its stack.  Nothing is destroyed when the process ends.
Decide(v) == /\ verdict' = v
             /\ phase' = IF v = "terminated" THEN "gone" ELSE "destroy"
             /\ stack' = IF v = "terminated" THEN << >> ELSE InOrder(heap[Root])
             /\ UNCHANGED cmdno

\* The exceptions of the library have no handler in common: one that the handler at
\* hand is not for ends the process, and a caught one closes the connection.
Caught(exception, handler) == IF exception = handler THEN "closed" ELSE "terminated"

\* parse_error, which the handler around parse() is for.
Reject == /\ HasToken /\ tok \notin Expected(want)
          /\ Decide(Caught("parse_error", "parse_error"))
          /\ UNCHANGED <<scanning, parsing>>

\* out_of_range from parse(), which it is not for.
RejectOverflow == /\ HasToken /\ want = "value" /\ Overflow
                  /\ Decide(Caught("out_of_range", "parse_error"))
                  /\ UNCHANGED <<scanning, parsing>>

\* The names of members by one letter each.
CmdnoKey == <<99>>
Uid == <<117>>
StreamName == <<115>>
Audio == <<97>>
Video == <<118>>
Type == <<116>>
Answer == <<119>>

\* What from_json() takes for a uint64_t and for an int, and for a std::string.
Takes(as, type) ==
  CASE as = "number" -> is_number(type)
    [] as = "int" -> is_number(type) \/ type = "boolean"
    [] OTHER -> type = as

\* get(), when a value is assigned to such a variable: "" or the exception it raises.
Converted(as, n) == IF Takes(as, n[1]) THEN "" ELSE "type_error"

\* The 32 lower bits of an integer, as two halves.
Int32(digits) ==
  LET Times10(a, d) == LET lo == a[2] * 10 + (d - 48)
                       IN  <<(a[1] * 10 + (lo \div 65536)) % 65536, lo % 65536>>
      plain == SelectSeq(digits, LAMBDA c : c \in 48..57)
      abs == FoldLeft(Times10, <<0, 0>>, plain)
  IN  IF digits[1] # 45 THEN abs
      ELSE IF abs[2] = 0 THEN <<(65536 - abs[1]) % 65536, 0>>
      ELSE <<65535 - abs[1], 65536 - abs[2]>>

IntegerPart(buf) ==
  SubSeq(buf, 1, Min({i \in 1..(Len(buf) + 1) : i = Len(buf) + 1 \/ buf[i] = 46}) - 1)

\* 2^31 as digits
TwoTo31 == <<50, 49, 52, 55, 52, 56, 51, 54, 52, 56>>

\* A float as an int, by cvttsd2si: the part before the point, and INT_MIN if that is no
\* int.  No input has a command number with an exponent.
Truncated(buf) ==
  LET whole == IntegerPart(buf) IN
  IF AtMost(SelectSeq(whole, LAMBDA c : c # 45), TwoTo31) /\ whole # TwoTo31 THEN Int32(whole)
  ELSE <<32768, 0>>

\* from_json() for an int: integers are cut to 32 bits, true and false are 1 and 0.
ToInt(n) == CASE n[1] = "boolean" -> <<0, IF n[2] THEN 1 ELSE 0>>
              [] n[1] = "number_float" -> Truncated(n[2])
              [] OTHER -> Int32(n[2])

\* operator[] of the root, which becomes an object if it was null.
Bracket(key) ==
  LET h == IF heap[Root][1] = "null" THEN [heap EXCEPT ![Root] = <<"object", << >>>>] ELSE heap
  IN  Member(h, Root, key)

\* cmdno = root["cmdno"]: a missing member is added as null; what is not a number
\* raises type_error, which is not caught.
ReadCmdno ==
  /\ phase = "cmdno"
  /\ IF heap[Root][1] \notin {"null", "object"}
     THEN Decide("terminated") /\ UNCHANGED heap
     ELSE LET r == Bracket(CmdnoKey)
          IN  /\ heap' = r.heap
              /\ IF Converted("int", r.heap[r.at]) = ""
                 THEN /\ cmdno' = ToInt(r.heap[r.at])
                      /\ phase' = "fields"
                      /\ UNCHANGED <<verdict, stack>>
                 ELSE Decide("terminated")
  /\ UNCHANGED <<scanning, lex, want, states, ref_stack, object_element>>

\* The fields a command reads, in its order, and what each must be: _process_push() and
\* _process_pull(), _process_answer(), _process_stop_push() and _process_stop_pull().
PushFields   == <<<<Uid, "number">>, <<StreamName, "string">>, <<Audio, "int">>, <<Video, "int">>>>
AnswerFields == <<<<Uid, "number">>, <<StreamName, "string">>, <<Type, "string">>, <<Answer, "string">>>>
StopFields   == <<<<Uid, "number">>, <<StreamName, "string">>>>
Fields(cmd)  == CASE cmd \in {1, 2} -> PushFields [] cmd = 3 -> AnswerFields [] OTHER -> StopFields


\* at(): why a field cannot be read: out_of_range if it is not there, type_error if
\* it is of another type, "" if it can.
Raises(field) ==
  LET f == heap[Root][2] IN
  IF field[1] \notin DOMAIN f THEN "out_of_range"
  ELSE Converted(field[2], heap[f[field[1]]])

\* The exception of the first field that raises one.
FirstRaised(fs) ==
  LET bad == {i \in 1..Len(fs) : Raises(fs[i]) # ""} IN
  IF bad = {} THEN "" ELSE Raises(fs[Min(bad)])

\* _process_push() and its siblings: out_of_range closes the connection, type_error is
\* not caught, and a request that has its fields is sent on to RtcServer.
ReadFields ==
  /\ phase = "fields"
  /\ IF cmdno[1] # 0 \/ cmdno[2] \notin 1..5 THEN Decide("closed")
     ELSE LET e == FirstRaised(Fields(cmdno[2])) IN
          Decide(IF e = "" THEN "sent" ELSE Caught(e, "out_of_range"))
  /\ UNCHANGED <<scanning, parsing>>

-----------------------------------------------------------------------------
(* The tree is destroyed *)

\* One round of the loop in destroy(): the last item goes, its own items first move
\* to the stack.
DestroyItem ==
  /\ phase = "destroy" /\ stack # << >>
  /\ LET a == Last(stack) IN
     /\ stack' = Front(stack) \o InOrder(heap[a])
     /\ heap' = Restrict(heap, DOMAIN heap \ {a})
  /\ UNCHANGED <<scanning, lex, want, states, ref_stack, object_element, phase, cmdno, verdict>>

Destroyed == /\ phase = "destroy" /\ stack = << >>
             /\ phase' = "gone"
             /\ heap' = Restrict(heap, DOMAIN heap \ {Root})
             /\ ref_stack' = << >> /\ object_element' = -1
             /\ UNCHANGED <<scanning, lex, want, states, cmdno, verdict, stack>>

-----------------------------------------------------------------------------
Scan == ReadNext \/ ReadPiece \/ ReadEnd
Parse == \/ StartObject \/ EndObject \/ StartArray \/ EndArray \/ FirstItem
         \/ Key \/ Colon \/ Comma \/ TakeScalar \/ Parsed
Handle == Reject \/ RejectOverflow \/ ReadCmdno \/ ReadFields \/ DestroyItem \/ Destroyed
\* The request is over; no other state is left without a step.
Over == phase = "gone" /\ UNCHANGED vars
Next == Scan \/ Parse \/ Handle \/ Over

Spec == Init /\ [][Next]_vars

-----------------------------------------------------------------------------
(* Properties *)

Read == SelectSeq(text, LAMBDA c : c # EOF)

Refuses == HasToken /\ tok \notin Expected(want)

\* The parser accepts exactly the JSON texts and builds the value they denote, the last
\* of equal keys included; where sax_parse_internal() reports an error, neither the text
\* nor the text with one more piece is JSON.
AcceptsExactlyJson ==
  /\ phase = "cmdno" => Meanings(Read) = {Meaning(ValueAt(heap, Root))}
  /\ Refuses => \A e \in {<< >>} \cup (IF Last(text) = EOF THEN {} ELSE Pieces[family]) :
                  Meanings(Read \o todo \o e) = {}

\* The pointers in ref_stack and object_element always point at live values: at the
\* containers that states stands for, each inside the one below it, whatever an array
\* that grew has moved.
PointersFollowStates ==
  phase = "parse" =>
    LET n == Len(ref_stack)
        opened == want \in {"first_key", "first_colon", "first_item"}
    IN  /\ n = Len(states) + (IF opened THEN 1 ELSE 0)
        /\ \A i \in 1..n :
             /\ ref_stack[i] \in DOMAIN heap
             /\ IF i = 1 THEN ref_stack[i] = Root
                ELSE ref_stack[i] \in Children(heap[ref_stack[i - 1]])
             /\ i <= Len(states) =>
                  heap[ref_stack[i]][1] = (IF states[i] THEN "array" ELSE "object")
        /\ (\/ want \in {"first_colon", "colon"}
            \/ want = "value" /\ states # << >> /\ ~Last(states))
             => object_element \in Children(heap[Last(ref_stack)])

\* No value is lost: while the tree is built every value in the heap hangs in it, while
\* it is destroyed everything left hangs on one item of the stack, and in the end
\* nothing is left, however deep the text was nested.
NothingLeaks ==
  CASE phase = "gone" -> verdict # "terminated" => DOMAIN heap = {}
    [] phase = "destroy" ->
         /\ DOMAIN heap = {Root} \cup UNION {Under(heap, a) : a \in Range(stack)}
         /\ \A i, j \in 1..Len(stack) : i # j => Under(heap, stack[i]) \cap Under(heap, stack[j]) = {}
    [] OTHER -> DOMAIN heap = Under(heap, Root)

\* The tree and the pointers into it stay sound from the first token to the destructor,
\* and a text gives no binary or discarded value.
HeapSound == /\ PointersFollowStates /\ NothingLeaks
             /\ \A a \in DOMAIN heap : heap[a][1] \in value_t \ {"binary", "discarded"}


\* What a command reads, by the meaning of the text.
HasType(m, f) == f[1] \in DOMAIN m[2] =>
                   m[2][f[1]][1] \in IF f[2] = "int" THEN {"number", "boolean"} ELSE {f[2]}
Known == {<<CmdnoKey, "int">>} \cup UNION {Range(Fields(c)) : c \in 1..5}
Fits(d) == IF d[1] = 45 THEN AtMost(Tail(d), MaxSigned) ELSE AtMost(d, MaxUnsigned)
Command(m) == CASE m[1] = "boolean" -> <<0, IF m[2] THEN 1 ELSE 0>>
                [] m[1] = "number" /\ (\A i \in DOMAIN m[2] : m[2][i] # 46) /\ Fits(m[2])
                     -> Int32(m[2])
                [] OTHER -> Truncated(m[2])
\* An exponent of four digits or more: parse() may raise out_of_range.
HugeNumber == \E i \in 1..(Len(Read) - 4) :
                Read[i] \in {69, 101} /\ \A j \in (i + 1)..(i + 4) : Read[j] \in 48..57


=============================================================================
